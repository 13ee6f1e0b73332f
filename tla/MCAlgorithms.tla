----------------------------- MODULE MCAlgorithms -----------------------------
(***************************************************************************)
(* The pure algorithms of the server, each on inputs of its own.  A        *)
(* behaviour fills and empties a hash table, asks about time zones as time *)
(* passes, or takes one case, that is one input of an algorithm, which the *)
(* laws then judge.                                                        *)
(***************************************************************************)
EXTENDS HashTable, CaseBook

CONSTANTS
  k1, k2, k3,
  MaxTime, YearsBack, ltdIntervalMinimum, MAX_OFFSETS

VARIABLES
  work,
  case,
  localtime, OffsetTable

MCHashOf == k1 :> [top |-> 0, start |-> 1, zone |-> 0]
         @@ k2 :> [top |-> 0, start |-> 1, zone |-> 1]
         @@ k3 :> [top |-> 1, start |-> 1, zone |-> 0]
MCSizeOf == k1 :> 2 @@ k2 :> 1 @@ k3 :> 4
MCShuffles == {0 :> 1 @@ 1 :> 2, 0 :> 1 @@ 1 :> 3}

\* Summer time one hour ahead; two zones east of Greenwich and two west.
Summer(from, to, standard) ==
  [t \in 0 .. MaxTime |-> [isDST |-> t \in from .. to,
                           seconds |-> IF t \in from .. to THEN standard + 1 ELSE standard]]
Zones == {Summer(4, 7, 1), Summer(5, 8, -2), Summer(6, 9, 2), Summer(4, 8, -3)}
Local == INSTANCE TimeZone

Cases == DateLaws \o ListLaws \o LockLaws

Init ==
  /\ work \in {"tables", "zones", "cases"}
  /\ \E i \in DOMAIN Cases :
       (work # "cases" => i = 1) /\ case = [law |-> "none", of |-> i]
  /\ IF work = "tables" THEN HashInit ELSE table = << >> /\ stored = << >>
  /\ IF work = "zones" THEN Local!ZoneInit ELSE localtime = << >> /\ OffsetTable = << >>

TableStep ==
  /\ work = "tables"
  /\ HashNext
  /\ UNCHANGED <<work, case, localtime, OffsetTable>>

ZoneStep == work = "zones" /\ Local!ZoneNext /\ UNCHANGED <<work, case, table, stored>>

TakeCase ==
  /\ work = "cases" /\ case.law = "none"
  /\ case' \in Cases[case.of]
  /\ UNCHANGED <<work, table, stored, localtime, OffsetTable>>

Next == TableStep \/ ZoneStep \/ TakeCase

Spec == Init /\ [][Next]_<<work, case, table, stored, localtime, OffsetTable>>

-----------------------------------------------------------------------------
(* Properties: the laws of each module, about its structure or its cases.  *)

ProbesReach == \A n \in 2 .. 40 \cup {60, 64, 97, 100, 128, 210, 251} : ProbesReachAll(n)

\* A hash table finds what it stores, over deletions, rebuilt pages and splits, and probes
\* reach every slot of a page (svdhash.cpp:291, 979, 1213).
TablesExact == ProbesReach /\ (work = "tables" => TableExact)

\* Dates, zones and what is written for a date agree (timeutil.cpp:835-940, 1945-2260, 3882).
TimeRight ==
  /\ work = "zones" => Local!IntervalsTrue /\ Local!ZonesAnswer
  /\ case.law \in DateLaw => DateHolds(case)

\* The functions of softcode on lists of words answer what their names promise, and
\* wildcards match what they should (functions.cpp:4021, funceval.cpp:2695, wild.cpp:35).
WordsRight == case.law \in ListLaw => ListHolds(case)

\* A lock is read back as it was set, binds as its rules say, and is done when it was
\* tried, wherever its indirections lead (boolexp.cpp:58, 697, unparse.cpp:45).
LocksRight == case.law \in LockLaw => LockHolds(case)
=============================================================================
