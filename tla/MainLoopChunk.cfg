\* One task a turn: a descriptor, a recurring task and two queued commands.
SPECIFICATION Spec
CONSTANTS
  r1 = r1
  j1 = j1
  j2 = j2
  d1 = d1
  TicketMod = 10
  Now = 2
  Descriptors = {d1}
  RecurringTasks = {r1}
  Jobs = {j1, j2}
  JobPriority <- PlayerJobs
  active_q_chunk = 1
  RunAllBatch = 2
  cmd_quota_max = 1
  cmd_quota_incr = 1
  timeslice = 1
  interval = 2
  MinPriorities <- Switched
  MaxInput = 2
INVARIANTS OneTaskEach NeverSleepsOnWork
PROPERTY RunsInOrder
