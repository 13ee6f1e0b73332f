\* Nobody waits for ever in the queue: a player, timed and untimed waits.
SPECIFICATION ServedSpec
CONSTANTS
  p1 = p1
  p2 = p2
  t1 = t1
  t2 = t2
  god = god
  TicketMod = 6
  Now = 2
  Players = {p1}
  Things = {t1}
  GOD = god
  Free = {}
  Semaphores <- OneSemaphore
  waitcost = 1
  Surcharges = {0}
  OBJECT_DEPOSIT = 0
  Purses = {2}
  QueueMax <- AtMostTwo
  Delays = {1}
  MaxCount = 1
  MaxDrift = 1
  Counts = {1}
  Warps = {1}
  MinPriorities <- Switched
  Chownable = {}
  Destroyable = {}
  Powered = {}
  Haltable = {}
PROPERTIES PlayerEntryServed
