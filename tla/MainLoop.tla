------------------------------- MODULE MainLoop -------------------------------
(***************************************************************************)
(* The single thread of TinyMUX: shovechars (bsd.cpp) with the tasks it    *)
(* runs.  One turn of the loop refills command quotas, moves due tasks to  *)
(* the priority heap, runs a chunk of them (or all, when active_q_chunk is *)
(* 0), sleeps in select no longer than to the next task, and reads the     *)
(* sockets that became readable.                                           *)
(*                                                                         *)
(* Three kinds of task share the scheduler: the recurring system tasks of  *)
(* timer.cpp, one Task_ProcessCommand per descriptor with input, and       *)
(* queued commands (Jobs), of which CommandQueue is the detailed model.    *)
(***************************************************************************)
EXTENDS Scheduler

CONSTANTS
  Descriptors,      \* DESC blocks; a block is reused by a later connection
  RecurringTasks,   \* dispatch_DatabaseDump, dispatch_IdleCheck, ...
  Jobs,             \* queued commands
  JobPriority,      \* PRIORITY_PLAYER or PRIORITY_OBJECT by job
  active_q_chunk,   \* tasks run between two polls of the network, 0 for all
  RunAllBatch,      \* the 100 of RunAllTasks
  cmd_quota_max, cmd_quota_incr,
  timeslice,        \* clock ticks between two refills of the quotas
  interval,         \* clock ticks between two runs of a recurring task
  MinPriorities,    \* what @enable and @disable may set m_minPriority to
  MaxInput          \* bound: lines one read may bring

ASSUME LoopAssumption ==
  /\ IsFiniteSet(RecurringTasks) /\ Cardinality(RecurringTasks) <= TicketMod \div 2
  /\ JobPriority \in [Jobs -> {PRIORITY_PLAYER, PRIORITY_OBJECT}]
  /\ active_q_chunk \in Nat /\ RunAllBatch \in Nat
  /\ cmd_quota_max \in Nat /\ cmd_quota_incr \in Nat
  /\ timeslice \in Nat \ {0} /\ interval \in Nat
  /\ MinPriorities \subseteq {PRIORITY_CF_DEQUEUE_ENABLED, PRIORITY_CF_DEQUEUE_DISABLED}
  /\ MaxInput \in Nat

VARIABLES
  pc,               \* where shovechars is: "top", "run", "command", "select", "net"
  iCount, nTasks,   \* locals of RunTasks; nTasks only as zero or not
  ltaCurrent,       \* the clock read at the top of the loop
  busy,             \* history, up to the end of the sleep: ticks while tasks ran
  ltaLastSlice,     \* the last refill of the quotas
  timeout,          \* how long select still may sleep
  input_set,        \* descriptors select watches, then those it found readable
  open,             \* descriptors in use
  socket,           \* what the kernel holds for a descriptor
  input,            \* length of the list input_head of a descriptor
  quota,            \* d->quota
  counter           \* dump_counter, idle_counter, ...: when a recurring task runs next

loopVars == <<pc, iCount, nTasks, ltaCurrent, busy, ltaLastSlice, timeout, input_set>>
netVars  == <<open, socket, input, quota>>
vars == <<schedulerVars, loopVars, netVars, counter>>

Live(fpTask, arg) == {t \in Tasks : t.fpTask = fpTask /\ t.arg = arg}

Queued(j) == Live("RunQueueEntry", j) # {}

Least(a, b) == IF a < b THEN a ELSE b

Init ==
  /\ \E ticket \in [RecurringTasks -> 0 .. Cardinality(RecurringTasks) - 1] :
       /\ \A r, s \in RecurringTasks : r # s => ticket[r] # ticket[s]
       /\ m_WhenHeap = {[ltaWhen |-> Now + interval, iPriority |-> PRIORITY_SYSTEM,
                         m_Ticket |-> ticket[r], fpTask |-> "dispatch", arg |-> r]
                        : r \in RecurringTasks}
  /\ m_PriorityHeap = {}
  /\ m_Ticket = Cardinality(RecurringTasks)
  /\ m_minPriority = PRIORITY_CF_DEQUEUE_ENABLED
  /\ pc = "top"
  /\ iCount = 0 /\ nTasks = 0
  /\ ltaCurrent = Now /\ ltaLastSlice = Now
  /\ busy = 0
  /\ timeout = 0
  /\ input_set = {}
  /\ open = {}
  /\ socket = [d \in Descriptors |-> "quiet"]
  /\ input = [d \in Descriptors |-> 0]
  /\ quota = [d \in Descriptors |-> cmd_quota_max]
  /\ counter = [r \in RecurringTasks |-> Now + interval]

-----------------------------------------------------------------------------
(* Top of the loop: update_quotas, then the ReadyTasks of RunTasks.        *)

Slices == (Now - ltaLastSlice) \div timeslice

\* Mutant: refills beyond cmd_quota_max.
update_quotas_Unbounded ==
  /\ quota' = [d \in Descriptors |->
                 IF d \in open THEN quota[d] + cmd_quota_incr * Slices ELSE quota[d]]
  /\ ltaLastSlice' = ltaLastSlice + timeslice * Slices

update_quotas ==
  /\ quota' = [d \in Descriptors |->
                 IF d \in open THEN Least(cmd_quota_max, quota[d] + cmd_quota_incr * Slices)
                               ELSE quota[d]]
  /\ ltaLastSlice' = ltaLastSlice + timeslice * Slices

Batch == IF active_q_chunk > 0 THEN active_q_chunk ELSE RunAllBatch

\* Mutant: the clock of the turn before is used again.
Top_Stale ==
  /\ pc = "top"
  /\ update_quotas
  /\ ReadyTasks
  /\ busy' = 0
  /\ iCount' = Batch
  /\ nTasks' = 0
  /\ pc' = "run"
  /\ UNCHANGED <<m_Ticket, m_minPriority, ltaCurrent, timeout, input_set, open, socket, input,
                 counter>>

Top ==
  /\ pc = "top"
  /\ update_quotas
  /\ ReadyTasks
  /\ ltaCurrent' = Now /\ busy' = 0
  /\ iCount' = Batch
  /\ nTasks' = 0
  /\ pc' = "run"
  /\ UNCHANGED <<m_Ticket, m_minPriority, timeout, input_set, open, socket, input, counter>>

-----------------------------------------------------------------------------
(* RunTasks: one action for each kind of task it takes off the heap.       *)

Takes(t) ==
  /\ pc = "run"
  /\ iCount > 0
  /\ IsNext(t)
  /\ iCount' = iCount - 1
  /\ UNCHANGED <<m_minPriority, ltaCurrent, busy, ltaLastSlice, timeout, input_set>>

(* A cancelled record is deleted; it uses up a turn but is not counted.    *)
RunCancelled(t) ==
  /\ Takes(t)
  /\ t.fpTask = NoTask
  /\ m_PriorityHeap' = m_PriorityHeap \ {t}
  /\ UNCHANGED <<m_WhenHeap, m_Ticket, pc, nTasks, netVars, counter>>

(* A recurring task does its work and schedules itself again.              *)
RunDispatch(t) ==
  /\ Takes(t)
  /\ t.fpTask = "dispatch"
  /\ TicketFree(0)
  /\ m_PriorityHeap' = m_PriorityHeap \ {t}
  /\ counter' = [counter EXCEPT ![t.arg] = Now + interval]
  /\ m_WhenHeap' = m_WhenHeap \cup DeferTask(Now + interval, PRIORITY_SYSTEM, "dispatch", t.arg)
  /\ TicketTaken
  /\ nTasks' = 1
  /\ UNCHANGED <<pc, netVars>>

(* Task_RunQueueEntry starts a queued command.                             *)
RunJob(t) ==
  /\ Takes(t)
  /\ t.fpTask = "RunQueueEntry"
  /\ m_PriorityHeap' = m_PriorityHeap \ {t}
  /\ nTasks' = 1
  /\ pc' = "command"
  /\ UNCHANGED <<m_WhenHeap, m_Ticket, netVars, counter>>

(* Task_ProcessCommand with quota left: the next line, if there is one,    *)
(* gets a task before this one is executed.                                *)
Task_ProcessCommand(t) ==
  LET d == t.arg IN
  /\ Takes(t)
  /\ t.fpTask = "ProcessCommand"
  /\ input[d] > 0
  /\ quota[d] > 0
  /\ quota' = [quota EXCEPT ![d] = @ - 1]
  /\ input' = [input EXCEPT ![d] = @ - 1]
  /\ IF input[d] > 1
     THEN /\ TicketFree(0)
          /\ m_WhenHeap' = m_WhenHeap \cup DeferImmediateTask(PRIORITY_SYSTEM, "ProcessCommand", d)
          /\ TicketTaken
     ELSE UNCHANGED <<m_WhenHeap, m_Ticket>>
  /\ m_PriorityHeap' = m_PriorityHeap \ {t}
  /\ nTasks' = 1
  /\ pc' = "command"
  /\ UNCHANGED <<open, socket, counter>>

\* Mutant: out of quota, and does not look again.
Task_ProcessCommandLater_Never(t) ==
  /\ Takes(t)
  /\ t.fpTask = "ProcessCommand"
  /\ input[t.arg] > 0
  /\ quota[t.arg] <= 0
  /\ m_PriorityHeap' = m_PriorityHeap \ {t}
  /\ nTasks' = 1
  /\ UNCHANGED <<m_WhenHeap, m_Ticket, pc, netVars, counter>>

(* Out of quota: look again one timeslice later.                           *)
Task_ProcessCommandLater(t) ==
  LET d == t.arg IN
  /\ Takes(t)
  /\ t.fpTask = "ProcessCommand"
  /\ input[d] > 0
  /\ quota[d] <= 0
  /\ TicketFree(0)
  /\ m_WhenHeap' = m_WhenHeap \cup DeferTask(Now + timeslice, PRIORITY_SYSTEM, "ProcessCommand", d)
  /\ TicketTaken
  /\ m_PriorityHeap' = m_PriorityHeap \ {t}
  /\ nTasks' = 1
  /\ UNCHANGED <<pc, netVars, counter>>

-----------------------------------------------------------------------------
(* What a command, typed or queued, can do to the scheduler.               *)

Executes ==
  /\ pc = "command"
  /\ pc' = "run"
  /\ UNCHANGED <<iCount, nTasks, ltaCurrent, busy, ltaLastSlice, timeout, input_set>>

CommandDone ==
  /\ Executes
  /\ UNCHANGED <<schedulerVars, netVars, counter>>

\* Mutant: an immediate task goes straight to the priority heap.
CommandQueues_AtOnce(j) ==
  /\ Executes
  /\ ~Queued(j)
  /\ TicketFree(2)
  /\ m_PriorityHeap' =
       m_PriorityHeap \cup DeferImmediateTask(JobPriority[j], "RunQueueEntry", j)
  /\ TicketTaken
  /\ UNCHANGED <<m_WhenHeap, m_minPriority, netVars, counter>>

(* wait_que: queue a command, for now or for a later time.                 *)
CommandQueues(j) ==
  /\ Executes
  /\ ~Queued(j)
  /\ TicketFree(2)
  /\ \/ m_WhenHeap' = m_WhenHeap \cup DeferImmediateTask(JobPriority[j], "RunQueueEntry", j)
     \/ m_WhenHeap' = m_WhenHeap \cup DeferTask(Now + 1, JobPriority[j], "RunQueueEntry", j)
  /\ TicketTaken
  /\ UNCHANGED <<m_PriorityHeap, m_minPriority, netVars, counter>>

\* Mutant: does not look for the recurring task in the priority heap.
do_timewarp_WhenHeapOnly(r) ==
  /\ Executes
  /\ TicketFree(2)
  /\ counter' = [counter EXCEPT ![r] = Aged(@)]
  /\ m_WhenHeap' = Cancelled(m_WhenHeap, "dispatch", r)
                     \cup DeferTask(counter'[r], PRIORITY_SYSTEM, "dispatch", r)
  /\ TicketTaken
  /\ UNCHANGED <<m_PriorityHeap, m_minPriority, netVars>>

(* do_timewarp brings a recurring task forward: cancel it, schedule it     *)
(* anew at the moved counter.                                              *)
do_timewarp(r) ==
  /\ Executes
  /\ TicketFree(2)
  /\ counter' = [counter EXCEPT ![r] = Aged(@)]
  /\ m_WhenHeap' = Cancelled(m_WhenHeap, "dispatch", r)
                     \cup DeferTask(counter'[r], PRIORITY_SYSTEM, "dispatch", r)
  /\ m_PriorityHeap' = Cancelled(m_PriorityHeap, "dispatch", r)
  /\ TicketTaken
  /\ UNCHANGED <<m_minPriority, netVars>>

\* Mutant: does not cancel the Task_ProcessCommand.
shutdownsock_Uncancelled(d) ==
  /\ open' = open \ {d}
  /\ input' = [input EXCEPT ![d] = 0]
  /\ socket' = [socket EXCEPT ![d] = "quiet"]
  /\ UNCHANGED <<schedulerVars, quota, counter>>

(* shutdownsock for any reason but LOGOUT: free the descriptor and what is *)
(* queued on it, and cancel its Task_ProcessCommand.                       *)
shutdownsock(d) ==
  /\ open' = open \ {d}
  /\ input' = [input EXCEPT ![d] = 0]
  /\ socket' = [socket EXCEPT ![d] = "quiet"]
  /\ m_WhenHeap' = Cancelled(m_WhenHeap, "ProcessCommand", d)
  /\ m_PriorityHeap' = Cancelled(m_PriorityHeap, "ProcessCommand", d)
  /\ UNCHANGED <<m_Ticket, m_minPriority, quota, counter>>

(* QUIT, or @boot of some descriptor.                                      *)
CommandQuit(d) ==
  /\ d \in open
  /\ Executes
  /\ shutdownsock(d)

(* LOGOUT keeps the descriptor, its pending input and its task.            *)
CommandLogout(d) ==
  /\ d \in open
  /\ Executes
  /\ quota' = [quota EXCEPT ![d] = cmd_quota_max]
  /\ UNCHANGED <<schedulerVars, open, socket, input, counter>>

(* @enable and @disable dequeueing.                                        *)
SetMinPriority ==
  /\ Executes
  /\ m_minPriority' \in MinPriorities \ {m_minPriority}
  /\ UNCHANGED <<m_WhenHeap, m_PriorityHeap, m_Ticket, netVars, counter>>

Command ==
  \/ CommandDone
  \/ \E j \in Jobs : CommandQueues(j)
  \/ \E r \in RecurringTasks : do_timewarp(r)
  \/ \E d \in Descriptors : CommandQuit(d) \/ CommandLogout(d)
  \/ SetMinPriority

-----------------------------------------------------------------------------
(* End of RunTasks.  RunAllTasks goes on until a batch has run nothing.    *)

BatchDone == pc = "run" /\ (iCount = 0 \/ ~SomethingToRun)

NextBatch ==
  /\ iCount' = Batch
  /\ nTasks' = 0
  /\ UNCHANGED <<schedulerVars, pc, ltaCurrent, busy, ltaLastSlice, timeout, input_set, netVars, counter>>

time_30m == interval + 1

(* select sleeps for the time from ltaCurrent to the next task, and        *)
(* listens to the descriptors whose last input is all processed.           *)
Sleep ==
  LET ltaWakeUp == WhenNext(ltaCurrent + time_30m) IN
  /\ timeout' = IF ltaWakeUp < ltaCurrent THEN 0 ELSE ltaWakeUp - ltaCurrent
  /\ input_set' = {d \in open : input[d] = 0}
  /\ pc' = "select"
  /\ iCount' = 0 /\ nTasks' = 0
  /\ UNCHANGED <<schedulerVars, ltaCurrent, busy, ltaLastSlice, netVars, counter>>

BatchEnds == BatchDone /\ IF active_q_chunk = 0 /\ nTasks > 0 THEN NextBatch ELSE Sleep

Readable == {d \in input_set : socket[d] # "quiet"}

SelectReturns ==
  /\ pc = "select"
  /\ timeout = 0 \/ Readable # {}
  /\ pc' = "net"
  /\ input_set' = Readable
  /\ timeout' = 0 /\ busy' = 0
  /\ UNCHANGED <<schedulerVars, iCount, nTasks, ltaCurrent, ltaLastSlice, netVars, counter>>

(* EINTR: back to the top without looking at the sockets.                  *)
SelectInterrupted ==
  /\ pc = "select"
  /\ pc' = "top"
  /\ input_set' = {}
  /\ timeout' = 0 /\ busy' = 0
  /\ UNCHANGED <<schedulerVars, iCount, nTasks, ltaCurrent, ltaLastSlice, netVars, counter>>

(* A connection request ends the select too, and takes a free block.       *)
new_connection(d) ==
  /\ pc = "select"
  /\ d \notin open
  /\ open' = open \cup {d}
  /\ quota' = [quota EXCEPT ![d] = cmd_quota_max]
  /\ pc' = "net"
  /\ input_set' = Readable
  /\ timeout' = 0 /\ busy' = 0
  /\ UNCHANGED <<schedulerVars, iCount, nTasks, ltaCurrent, ltaLastSlice, socket, input, counter>>

(* process_input and save_command: the lines of one read are queued; the   *)
(* first one put into an empty list schedules the task.  A read that ends  *)
(* before the newline queues nothing.                                      *)
process_input(d) ==
  /\ pc = "net"
  /\ d \in input_set
  /\ socket[d] = "data"
  /\ socket' = [socket EXCEPT ![d] = "quiet"]
  /\ \E n \in 0 .. MaxInput :
       /\ input' = [input EXCEPT ![d] = @ + n]
       /\ IF input[d] = 0 /\ n > 0
          THEN /\ TicketFree(2)
               /\ m_WhenHeap' = m_WhenHeap \cup DeferImmediateTask(PRIORITY_SYSTEM, "ProcessCommand", d)
               /\ TicketTaken
          ELSE UNCHANGED <<m_WhenHeap, m_Ticket>>
  /\ input_set' = input_set \ {d}
  /\ UNCHANGED <<m_PriorityHeap, m_minPriority, pc, iCount, nTasks, ltaCurrent, busy, ltaLastSlice, timeout,
                 open, quota, counter>>

(* The peer is gone: R_SOCKDIED.                                           *)
SocketDied(d) ==
  /\ pc = "net"
  /\ d \in input_set
  /\ socket[d] = "eof"
  /\ shutdownsock(d)
  /\ input_set' = input_set \ {d}
  /\ UNCHANGED <<pc, iCount, nTasks, ltaCurrent, busy, ltaLastSlice, timeout>>

NetDone ==
  /\ pc = "net"
  /\ input_set = {}
  /\ pc' = "top"
  /\ UNCHANGED <<schedulerVars, iCount, nTasks, ltaCurrent, busy, ltaLastSlice, timeout, input_set, netVars, counter>>

-----------------------------------------------------------------------------
(* The outside: the clock, and what clients do.                            *)

Tick ==
  /\ SchedulerTick
  /\ ltaCurrent' = Aged(ltaCurrent)
  /\ busy' = IF pc \in {"run", "command"} THEN Least(busy + 1, Now - 1) ELSE busy
  /\ ltaLastSlice' = Aged(ltaLastSlice)
  /\ counter' = [r \in RecurringTasks |-> Aged(counter[r])]
  /\ timeout' = IF timeout > 0 THEN timeout - 1 ELSE 0
  /\ UNCHANGED <<pc, iCount, nTasks, input_set, netVars>>

ClientSends(d) ==
  /\ d \in open
  /\ socket[d] = "quiet"
  /\ \E s \in {"data", "eof"} : socket' = [socket EXCEPT ![d] = s]
  /\ UNCHANGED <<schedulerVars, loopVars, open, input, quota, counter>>

shovechars ==
  \/ Top
  \/ \E t \in m_PriorityHeap :
       \/ RunCancelled(t) \/ RunDispatch(t) \/ RunJob(t)
       \/ Task_ProcessCommand(t) \/ Task_ProcessCommandLater(t)
  \/ Command
  \/ BatchEnds
  \/ SelectReturns \/ SelectInterrupted
  \/ NetDone
  \/ \E d \in Descriptors : new_connection(d) \/ process_input(d) \/ SocketDied(d)

Next == shovechars \/ Tick \/ \E d \in Descriptors : ClientSends(d)

Spec == Init /\ [][Next]_vars

(* The process is scheduled, the clock advances, and signals do not come   *)
(* so often that select is always interrupted.                             *)
FairSpec == Spec /\ WF_vars(shovechars) /\ WF_vars(Tick) /\ SF_vars(SelectReturns)

-----------------------------------------------------------------------------
(* Properties.                                                             *)

TaskType ==
  [ltaWhen : 0 .. Now + interval + timeslice, iPriority : Priorities, m_Ticket : 0 .. TicketMod - 1,
   fpTask : {NoTask, "dispatch", "RunQueueEntry", "ProcessCommand"},
   arg : RecurringTasks \cup Jobs \cup Descriptors]

(* Every variable keeps the type the code declares for it.                 *)
TypeOK ==
  /\ m_WhenHeap \subseteq TaskType /\ m_PriorityHeap \subseteq TaskType
  /\ m_WhenHeap \cap m_PriorityHeap = {}
  /\ m_Ticket \in 0 .. TicketMod - 1
  /\ m_minPriority \in {PRIORITY_CF_DEQUEUE_ENABLED, PRIORITY_CF_DEQUEUE_DISABLED}
  /\ pc \in {"top", "run", "command", "select", "net"}
  /\ iCount \in 0 .. Batch /\ nTasks \in {0, 1}
  /\ input_set \subseteq open /\ open \subseteq Descriptors
  /\ socket \in [Descriptors -> {"quiet", "data", "eof"}]
  /\ input \in [Descriptors -> 0 .. MaxInput]
  /\ quota \in [Descriptors -> 0 .. cmd_quota_max]
  /\ timeout \in Nat /\ ltaCurrent \in 1 .. Now /\ busy \in 0 .. Now - 1 /\ ltaLastSlice \in 1 .. Now
  /\ counter \in [RecurringTasks -> 1 .. Now + interval]

(* A descriptor has exactly one live Task_ProcessCommand while lines wait  *)
(* on it and none otherwise: no line is left without a task when quota     *)
(* runs out, no second task overtakes the first, and no task of a closed   *)
(* connection reaches the next user of its DESC block.                     *)
OneCommandTask ==
  \A d \in Descriptors :
    Cardinality(Live("ProcessCommand", d)) = (IF input[d] > 0 THEN 1 ELSE 0)

(* However @timewarp cancels and reschedules it, in whichever heap it is,  *)
(* a recurring task has exactly one live record, due at its counter.       *)
OneDispatch ==
  \A r \in RecurringTasks :
    \E t \in Tasks : Live("dispatch", r) = {t} /\ t.ltaWhen = counter[r]

(* Whoever needs a task has exactly one: no more, by which it would run    *)
(* twice, and no less, by which it would never run again.                  *)
OneTaskEach == TypeOK /\ OneCommandTask /\ OneDispatch

(* select never sleeps on work: with time to sleep, no runnable task was   *)
(* left behind by the chunk, and what is left of the sleep ends, by the    *)
(* clock of that moment, before the next task is due or late by no more    *)
(* than the tasks of this turn took: the length of the sleep is reckoned   *)
(* from a clock read before they ran.                                      *)
NeverSleepsOnWork ==
  pc = "select" /\ timeout > 0 =>
    /\ ~SomethingToRun
    /\ \A t \in m_WhenHeap : Now + timeout <= t.ltaWhen + busy

Age(t) == (m_Ticket - t.m_Ticket) % TicketMod

RunNow(t) ==
  /\ t.m_Ticket \notin {u.m_Ticket : u \in Tasks'}
  /\ t.fpTask # NoTask

(* "This is the order in which the task was scheduled": of the untimed     *)
(* tasks of one priority the one scheduled first runs first, across both   *)
(* heaps and across a rollover of the ticket.                              *)
RunsInOrder ==
  [][\A t, u \in Tasks :
       /\ RunNow(t) /\ pc = "run"
       /\ t.ltaWhen = Immediately /\ u.ltaWhen = Immediately
       /\ t.iPriority = u.iPriority /\ u.fpTask # NoTask /\ u # t
       => Age(u) < Age(t)]_vars

(* "so that network is still serviced": what a client sends is read, even  *)
(* if a queued command queues itself again for ever.                       *)
NetworkServiced == \A d \in Descriptors : (socket[d] # "quiet") ~> (socket[d] = "quiet")

(* Every typed line is executed, although quota and chunk may delay it, or *)
(* its connection is gone.                                                 *)
InputProcessed == \A d \in Descriptors : (input[d] > 0) ~> (input[d] = 0)

(* When every ready task runs in each turn (active_q_chunk 0), a task that *)
(* is not suspended runs, or dequeueing is disabled.                       *)
TasksRun ==
  \A k \in 0 .. TicketMod - 1 :
    (\E t \in Tasks : t.m_Ticket = k)
      ~> (m_minPriority # PRIORITY_CF_DEQUEUE_ENABLED \/ ~\E t \in Tasks : t.m_Ticket = k)

(* Nobody starves: neither the network, nor typed lines, nor tasks.        *)
NobodyStarves == NetworkServiced /\ InputProcessed /\ TasksRun

=============================================================================
