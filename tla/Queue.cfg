\* Who waits, who is counted, who pays: a player and its thing on one semaphore; a thing
\* that changes owner and is destroyed while it has commands queued.
SPECIFICATION MCSpec
CONSTANTS
  p1 = p1
  p2 = p2
  t1 = t1
  t2 = t2
  god = god
  TicketMod = 4
  Now = 2
  Players = {p1, p2}
  Things = {t1}
  GOD = god
  Free = {}
  Semaphores <- OneSemaphore
  waitcost = 1
  Surcharges = {0}
  OBJECT_DEPOSIT = 1
  Purses = {1, 3}
  QueueMax <- AtMostTwo
  Delays = {1}
  MaxCount = 2
  MaxDrift = 1
  Counts = {1, 2}
  Warps = {}
  MinPriorities <- AlwaysEnabled
  Chownable = {t1}
  Destroyable = {t1}
  Powered = {t1}
  Haltable = {p1, p2}
SYMMETRY Alike
INVARIANTS QueueSound CountsAgree
PROPERTIES PenniesNotMinted NotifiedInOrder
CHECK_DEADLOCK FALSE
