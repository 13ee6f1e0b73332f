------------------------------ MODULE Scheduler ------------------------------
(***************************************************************************)
(* CScheduler (timer.cpp, externs.h): the two heaps of TASK_RECORDs on     *)
(* which everything TinyMUX does later hangs.                              *)
(*                                                                         *)
(* A heap is modelled as the set of its records; module TaskHeap models    *)
(* the array and shows that it behaves as such a set.  The comparison      *)
(* functions are kept, with the signed subtraction of tickets: m_Ticket is *)
(* a counter modulo TicketMod (2^32 in the code).                          *)
(*                                                                         *)
(* The module has no behaviour of its own: CommandQueue and MainLoop       *)
(* extend it, and build their actions from the operators below.            *)
(***************************************************************************)
EXTENDS Integers, FiniteSets

CONSTANTS
  TicketMod,   \* one more than the largest ticket
  Now          \* what the clock shows, see "The clock" below

ASSUME TicketAssumption == TicketMod \in Nat /\ TicketMod > 3
ASSUME NowAssumption == Now \in Nat /\ Now > 1

PRIORITY_SYSTEM  == 100
PRIORITY_PLAYER  == 200
PRIORITY_OBJECT  == 300
PRIORITY_SUSPEND == 400

PRIORITY_CF_DEQUEUE_ENABLED  == PRIORITY_OBJECT
PRIORITY_CF_DEQUEUE_DISABLED == PRIORITY_PLAYER - 1

Priorities == {PRIORITY_SYSTEM, PRIORITY_PLAYER, PRIORITY_OBJECT, PRIORITY_SUSPEND}

\* The fpTask of a cancelled record.
NoTask == "NULL"

VARIABLES m_WhenHeap, m_PriorityHeap, m_Ticket, m_minPriority

schedulerVars == <<m_WhenHeap, m_PriorityHeap, m_Ticket, m_minPriority>>

Tasks == m_WhenHeap \cup m_PriorityHeap

-----------------------------------------------------------------------------
(* The clock.  Only differences of times matter to the code, so the model  *)
(* keeps the clock at Now and lets what is stored grow older: when the     *)
(* clock ticks every stored time moves one back.  A time as long ago as 1  *)
(* stays there.  Immediately, the ltaWhen of a task that is not timed, is  *)
(* before any time the clock can show and does not move.                   *)

Immediately == 0

Aged(time) == IF time > 1 THEN time - 1 ELSE time

AgedTask(t) == [t EXCEPT !.ltaWhen = Aged(@)]

AgedHeap(heap) == {AgedTask(t) : t \in heap}

SchedulerTick ==
  /\ m_WhenHeap' = AgedHeap(m_WhenHeap)
  /\ m_PriorityHeap' = AgedHeap(m_PriorityHeap)
  /\ UNCHANGED <<m_Ticket, m_minPriority>>

-----------------------------------------------------------------------------
(* Comparison.  An int difference is negative when its top bit is set.     *)

\* Mutant: compares the numbers, as if tickets did not roll over.
TicketBefore_Unsigned(a, b) == a < b

TicketBefore(a, b) == (a - b) % TicketMod >= (TicketMod + 1) \div 2

CompareWhen(s, t) ==
  \/ s.ltaWhen < t.ltaWhen
  \/ s.ltaWhen = t.ltaWhen /\ TicketBefore(s.m_Ticket, t.m_Ticket)

ComparePriority(s, t) ==
  \/ s.iPriority < t.iPriority
  \/ s.iPriority = t.iPriority /\ TicketBefore(s.m_Ticket, t.m_Ticket)

(* The bound on the tickets: a task may be scheduled while every live      *)
(* ticket is less than half the ticket space old; in the code, 2^31 tasks  *)
(* scheduled while one of them waits.  What may be put off leaves a spare  *)
(* for the tasks that must be scheduled.                                   *)
TicketFree(spare) ==
  \A t \in Tasks : (m_Ticket - t.m_Ticket) % TicketMod \in 1 .. TicketMod \div 2 - 1 - spare

-----------------------------------------------------------------------------
(* Scheduling.  DeferTask and DeferImmediateTask both insert into the      *)
(* when-heap, "so that network is still serviced".                         *)

TaskRecord(ltaWhen, iPriority, fpTask, arg) ==
  [ltaWhen |-> ltaWhen, iPriority |-> iPriority, m_Ticket |-> m_Ticket,
   fpTask |-> fpTask, arg |-> arg]

DeferTask(ltaWhen, iPriority, fpTask, arg) ==
  {TaskRecord(ltaWhen, iPriority, fpTask, arg)}

DeferImmediateTask(iPriority, fpTask, arg) ==
  {TaskRecord(Immediately, iPriority, fpTask, arg)}

\* Mutant: the counter does not roll over.
TicketTaken_Unbounded == m_Ticket' = m_Ticket + 1

TicketTaken == m_Ticket' = (m_Ticket + 1) % TicketMod

(* CancelTask leaves the record in its heap, with no function to call.     *)
Cancelled(heap, fpTask, arg) ==
  {IF t.fpTask = fpTask /\ t.arg = arg THEN [t EXCEPT !.fpTask = NoTask] ELSE t : t \in heap}

-----------------------------------------------------------------------------
(* Running.                                                                *)

\* Mutant: only what was not timed becomes due.
Due_Untimed == {t \in m_WhenHeap : t.ltaWhen = Immediately}

Due == {t \in m_WhenHeap : t.ltaWhen < Now}

(* ReadyTasks: everything due moves to the priority heap, except what was  *)
(* cancelled, which is deleted here.                                       *)
\* Mutant: peeks at what is due instead of removing it.
ReadiedWhenHeap_Peeked == m_WhenHeap

ReadiedWhenHeap == m_WhenHeap \ Due
ReadiedPriorityHeap == m_PriorityHeap \cup {t \in Due : t.fpTask # NoTask}

ReadyTasks ==
  /\ m_WhenHeap' = ReadiedWhenHeap
  /\ m_PriorityHeap' = ReadiedPriorityHeap

(* PeekAtTopmost of the priority heap, when RunTasks would take it.        *)
IsTopmost(t, heap) == t \in heap /\ \A u \in heap \ {t} : ComparePriority(t, u)

IsRunnable(t) == t.iPriority <= m_minPriority

IsNext(t) == IsTopmost(t, m_PriorityHeap) /\ IsRunnable(t)

SomethingToRun == \E t \in m_PriorityHeap : IsRunnable(t)

\* Mutant: forgets what RunTasks left in the priority heap.
WhenNext_WhenHeapOnly(default) ==
  IF m_WhenHeap # {}
  THEN CHOOSE w \in {t.ltaWhen : t \in m_WhenHeap} : \A t \in m_WhenHeap : w <= t.ltaWhen
  ELSE default

(* WhenNext: at once when RunTasks left something runnable behind, else at *)
(* the earliest ltaWhen, else the caller's default.                        *)
WhenNext(default) ==
  CASE SomethingToRun -> Immediately
    [] ~SomethingToRun /\ m_WhenHeap # {} ->
         CHOOSE w \in {t.ltaWhen : t \in m_WhenHeap} : \A t \in m_WhenHeap : w <= t.ltaWhen
    [] OTHER -> default
=============================================================================
