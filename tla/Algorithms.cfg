\* Three keys of a hash table, two of which collide; four time zones; dates of ordinary,
\* leap and extreme years; short lists, patterns and locks.
SPECIFICATION Spec
CONSTANTS
  k1 = k1
  k2 = k2
  k3 = k3
  Key = {k1, k2, k3}
  HashOf <- MCHashOf
  SizeOf <- MCSizeOf
  Zone = {0, 1}
  Shuffles <- MCShuffles
  Data = {d1, d2}
  NULL = NULL
  Space = 38
  DirSize = 7
  Bits = 2
  MaxTime = 12
  YearsBack = 10
  ltdIntervalMinimum = 3
  MAX_OFFSETS = 3
  DayTicks = 2
INVARIANTS TablesExact TimeRight WordsRight LocksRight
CHECK_DEADLOCK FALSE
