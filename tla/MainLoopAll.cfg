\* Every ready task each turn, with a queued command that may queue itself for ever; the heap
\* of tasks under traversals and callbacks.
SPECIFICATION MCSpec
CONSTANTS
  r1 = r1
  j1 = j1
  j2 = j2
  d1 = d1
  TicketMod = 12
  Now = 2
  Descriptors = {d1}
  RecurringTasks = {}
  Jobs = {j1}
  JobPriority <- PlayerJobs
  active_q_chunk = 0
  RunAllBatch = 2
  cmd_quota_max = 1
  cmd_quota_incr = 1
  timeslice = 1
  interval = 2
  MinPriorities <- AlwaysEnabled
  MaxInput = 1
  Tickets = {1, 2, 3, 4}
  Keys = {1, 2}
  MarkMod = 3
INVARIANT HeapSound
PROPERTIES NobodyStarves Traversals ImplementsTaskSet
