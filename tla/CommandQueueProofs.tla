-------------------------- MODULE CommandQueueProofs --------------------------
(***************************************************************************)
(* Proofs about the command queue, for any number of players, things,      *)
(* semaphores and tickets: its types, the uniqueness of tickets, that no   *)
(* entry waits on a semaphore uncounted, that waiters are notified first   *)
(* come, first served; and about its accounts, for any number of pennies   *)
(* too: that the queue counts are exact but for what @chown and the        *)
(* destruction of objects leave behind, that together they never fall      *)
(* short of what is queued, and that no step mints a penny.                *)
(***************************************************************************)
EXTENDS CommandQueue, FiniteSetTheorems, FunctionTheorems, TLAPS

-----------------------------------------------------------------------------
(* Lemmas about sets of tasks.                                             *)

(* A ticket names one task of the set. *)
UniqueIn(tasks) == \A t, u \in tasks : t.m_Ticket = u.m_Ticket => t = u

(* Nobody in the set waits uncounted. *)
Counted(tasks, counts) ==
  \A s \in Semaphores :
    WaitersIn(tasks, s) = {} \/ Cardinality(WaitersIn(tasks, s)) <= counts[s]

(* Tickets are bounded, so a set of them can be counted. *)
LEMMA TicketsFinite ==
  ASSUME NEW S \in SUBSET (0 .. TicketMod - 1)
  PROVE  IsFiniteSet(S) /\ Cardinality(S) \in Nat
<1>1. IsFiniteSet(0 .. TicketMod - 1)
  BY TicketAssumption, FS_Interval
<1>. QED
  BY <1>1, FS_Subset, FS_CardinalityType

LEMMA TaskFields ==
  ASSUME NEW t \in TaskType
  PROVE  /\ t.m_Ticket \in 0 .. TicketMod - 1
         /\ t.fpTask \in {"Task_RunQueueEntry", "Task_SemaphoreTimeout"}
         /\ t.arg \in EntryType
         /\ t.ltaWhen \in Nat /\ t.iPriority \in Priorities
  BY DEF TaskType

LEMMA WaitersFinite ==
  ASSUME NEW T \in SUBSET TaskType, NEW s
  PROVE  /\ WaitersIn(T, s) \in SUBSET (0 .. TicketMod - 1)
         /\ IsFiniteSet(WaitersIn(T, s)) /\ Cardinality(WaitersIn(T, s)) \in Nat
<1>1. WaitersIn(T, s) \in SUBSET (0 .. TicketMod - 1)
  BY TaskFields DEF WaitersIn
<1>. QED
  BY <1>1, TicketsFinite

LEMMA EntriesFinite ==
  ASSUME NEW T \in SUBSET TaskType, NEW p
  PROVE  IsFiniteSet(EntriesIn(T, p)) /\ Cardinality(EntriesIn(T, p)) \in Nat
<1>1. EntriesIn(T, p) \in SUBSET (0 .. TicketMod - 1)
  BY TaskFields DEF EntriesIn
<1>. QED
  BY <1>1, TicketsFinite

(* Taking tasks away takes their tickets away from the waiters. *)
LEMMA WaitersLess ==
  ASSUME NEW T \in SUBSET TaskType, UniqueIn(T), NEW gone \in SUBSET T, NEW s
  PROVE  /\ WaitersIn(T \ gone, s) = WaitersIn(T, s) \ WaitersIn(gone, s)
         /\ Cardinality(WaitersIn(T \ gone, s))
              = Cardinality(WaitersIn(T, s)) - Cardinality(WaitersIn(gone, s))
<1>1. WaitersIn(T \ gone, s) = WaitersIn(T, s) \ WaitersIn(gone, s)
  BY DEF WaitersIn, UniqueIn
<1>2. WaitersIn(T, s) \cap WaitersIn(gone, s) = WaitersIn(gone, s)
  BY DEF WaitersIn
<1>3. IsFiniteSet(WaitersIn(T, s))
  BY WaitersFinite
<1>. QED
  BY <1>1, <1>2, <1>3, FS_Difference

(* halt_que takes the halted waiters off the counts. *)
LEMMA HaltedCounted ==
  ASSUME NEW T \in SUBSET TaskType, UniqueIn(T), NEW gone \in SUBSET T,
         NEW counts \in [Semaphores -> Int], Counted(T, counts)
  PROVE  Counted(T \ gone,
                 [s \in Semaphores |-> counts[s] - Cardinality(WaitersIn(gone, s))])
<1>. SUFFICES ASSUME NEW s \in Semaphores, WaitersIn(T \ gone, s) # {}
              PROVE  Cardinality(WaitersIn(T \ gone, s))
                       <= counts[s] - Cardinality(WaitersIn(gone, s))
  BY DEF Counted
<1>1. WaitersIn(T, s) # {}
  BY DEF WaitersIn
<1>2. Cardinality(WaitersIn(T, s)) <= counts[s]
  BY <1>1 DEF Counted
<1>3. /\ Cardinality(WaitersIn(T, s)) \in Nat
      /\ Cardinality(WaitersIn(gone, s)) \in Nat
      /\ counts[s] \in Int
  BY WaitersFinite
<1>. QED
  BY <1>2, <1>3, WaitersLess

(* Fewer tasks, same counts or higher ones. *)
LEMMA FewerCounted ==
  ASSUME NEW T \in SUBSET TaskType, NEW U \in SUBSET T,
         NEW counts \in [Semaphores -> Int], Counted(T, counts),
         NEW higher \in [Semaphores -> Int], \A s \in Semaphores : higher[s] >= counts[s]
  PROVE  Counted(U, higher)
<1>. SUFFICES ASSUME NEW s \in Semaphores, WaitersIn(U, s) # {}
              PROVE  Cardinality(WaitersIn(U, s)) <= higher[s]
  BY DEF Counted
<1>1. WaitersIn(U, s) \in SUBSET WaitersIn(T, s)
  BY DEF WaitersIn
<1>2. IsFiniteSet(WaitersIn(T, s)) /\ Cardinality(WaitersIn(T, s)) \in Nat
      /\ Cardinality(WaitersIn(U, s)) \in Nat
  BY WaitersFinite
<1>3. Cardinality(WaitersIn(U, s)) <= Cardinality(WaitersIn(T, s))
  BY <1>1, <1>2, FS_Subset
<1>4. Cardinality(WaitersIn(T, s)) <= counts[s]
  BY <1>1 DEF Counted
<1>. QED
  BY <1>2, <1>3, <1>4

(* A task that is no waiter, or a new one. *)
LEMMA AddedCounted ==
  ASSUME NEW T \in SUBSET TaskType, NEW t \in TaskType,
         NEW counts \in [Semaphores -> Int], Counted(T, counts),
         NEW higher \in [Semaphores -> Int],
         \A s \in Semaphores : higher[s] >= counts[s],
         \A s \in Semaphores : IsWaiter(t, s) => higher[s] = counts[s] + 1 /\ higher[s] > 0
  PROVE  Counted(T \cup {t}, higher)
<1>. SUFFICES ASSUME NEW s \in Semaphores, WaitersIn(T \cup {t}, s) # {}
              PROVE  Cardinality(WaitersIn(T \cup {t}, s)) <= higher[s]
  BY DEF Counted
<1>1. IsFiniteSet(WaitersIn(T, s)) /\ Cardinality(WaitersIn(T, s)) \in Nat
  BY WaitersFinite
<1>2. CASE IsWaiter(t, s)
  <2>1. WaitersIn(T \cup {t}, s) = WaitersIn(T, s) \cup {t.m_Ticket}
    BY <1>2 DEF WaitersIn
  <2>2. Cardinality(WaitersIn(T \cup {t}, s)) <= Cardinality(WaitersIn(T, s)) + 1
    <3>. DEFINE W == WaitersIn(T, s)
    <3>1. IsFiniteSet(W) /\ Cardinality(W) \in Nat
      BY <1>1
    <3>. HIDE DEF W
    <3>2. Cardinality(W \cup {t.m_Ticket}) = IF t.m_Ticket \in W THEN Cardinality(W)
                                             ELSE Cardinality(W) + 1
      BY <3>1, FS_AddElement
    <3>3. Cardinality(W \cup {t.m_Ticket}) <= Cardinality(W) + 1
      BY <3>1, <3>2
    <3>. QED
      BY <2>1, <3>3 DEF W
  <2>3. Cardinality(WaitersIn(T \cup {t}, s)) \in Nat
    BY WaitersFinite
  <2>4. CASE WaitersIn(T, s) = {}
    <3>1. Cardinality(WaitersIn(T, s)) = 0
      BY <2>4, FS_EmptySet
    <3>. QED
      BY <1>2, <2>2, <2>3, <3>1
  <2>5. CASE WaitersIn(T, s) # {}
    BY <1>1, <1>2, <2>2, <2>3, <2>5 DEF Counted
  <2>. QED
    BY <2>4, <2>5
<1>3. CASE ~IsWaiter(t, s)
  <2>1. WaitersIn(T \cup {t}, s) = WaitersIn(T, s)
    BY <1>3 DEF WaitersIn
  <2>. QED
    BY <1>1, <2>1 DEF Counted
<1>. QED
  BY <1>2, <1>3

(* Time passing and @timewarp change neither tickets nor waiters. *)
LEMMA AgedSame ==
  ASSUME NEW T \in SUBSET TaskType
  PROVE  /\ AgedHeap(T) \in SUBSET TaskType
         /\ \A u \in AgedHeap(T) : \E t \in T :
              /\ u = AgedTask(t)
              /\ u.m_Ticket = t.m_Ticket /\ u.fpTask = t.fpTask /\ u.arg = t.arg
         /\ \A s : WaitersIn(AgedHeap(T), s) = WaitersIn(T, s)
<1>1. \A t \in T :
        /\ AgedTask(t) \in TaskType /\ AgedTask(t).m_Ticket = t.m_Ticket
        /\ AgedTask(t).fpTask = t.fpTask /\ AgedTask(t).arg = t.arg
  BY DEF TaskType, AgedTask, Aged
<1>2. \A s : \A t \in T : IsWaiter(AgedTask(t), s) <=> IsWaiter(t, s)
  BY <1>1 DEF IsWaiter
<1>3. ASSUME NEW s PROVE WaitersIn(AgedHeap(T), s) = WaitersIn(T, s)
  BY <1>1, <1>2 DEF WaitersIn, AgedHeap
<1>. QED
  BY <1>1, <1>3 DEF AgedHeap

LEMMA WarpedSame ==
  ASSUME NEW T \in SUBSET TaskType, NEW warp \in Int
  PROVE  /\ WarpedHeap(T, warp) \in SUBSET TaskType
         /\ \A u \in WarpedHeap(T, warp) : \E t \in T :
              /\ u = Warped(t, warp)
              /\ u.m_Ticket = t.m_Ticket /\ u.fpTask = t.fpTask /\ u.arg = t.arg
         /\ \A s : WaitersIn(WarpedHeap(T, warp), s) = WaitersIn(T, s)
<1>1. ASSUME NEW t \in T
      PROVE  /\ Warped(t, warp) \in TaskType
             /\ Warped(t, warp).m_Ticket = t.m_Ticket
             /\ Warped(t, warp).fpTask = t.fpTask
             /\ Warped(t, warp).arg = t.arg
  <2>1. (IF t.ltaWhen - warp < 1 THEN 1 ELSE t.ltaWhen - warp) \in Nat
    BY TaskFields
  <2>. QED
    BY <2>1 DEF TaskType, Warped
<1>2. \A s : \A t \in T : IsWaiter(Warped(t, warp), s) <=> IsWaiter(t, s)
  BY <1>1 DEF IsWaiter
<1>3. ASSUME NEW s PROVE WaitersIn(WarpedHeap(T, warp), s) = WaitersIn(T, s)
  BY <1>1, <1>2 DEF WaitersIn, WarpedHeap
<1>. QED
  BY <1>1, <1>3 DEF WarpedHeap

-----------------------------------------------------------------------------
(* The inductive invariant.  WaitersCounted alone is not inductive: that   *)
(* counting a set of tickets counts the tasks needs TicketsUnique, and     *)
(* that in turn needs the types.                                           *)

HeapInv ==
  /\ m_WhenHeap \subseteq TaskType /\ m_PriorityHeap \subseteq TaskType
  /\ \A t \in Tasks : t.fpTask = "Task_SemaphoreTimeout" => t.arg.sem \in Semaphores
  /\ TicketsUnique
  /\ WaitersCounted

AccountInv ==
  /\ money \in [Players -> Int]
  /\ queue \in [Players -> Int]
  /\ semaphore \in [Semaphores -> Int]

ObjectInv ==
  /\ m_Ticket \in 0 .. TicketMod - 1
  /\ m_minPriority \in {PRIORITY_CF_DEQUEUE_ENABLED, PRIORITY_CF_DEQUEUE_DISABLED}
  /\ owner \in [Things -> Players \cup {GOD}]
  /\ gratis \subseteq Things /\ halted \subseteq Objects
  /\ going \subseteq Things /\ garbage \subseteq Things
  /\ drift \in [Players -> Int]
  /\ running \in {Idle} \cup [executor : Objects, enactor : Objects]

Inv == HeapInv /\ AccountInv /\ ObjectInv

LEMMA InvParts == Inv <=> TypeOK /\ TicketsUnique /\ WaitersCounted
BY DEF Inv, HeapInv, AccountInv, ObjectInv, TypeOK

LEMMA HeapFacts ==
  ASSUME HeapInv
  PROVE  /\ Tasks \in SUBSET TaskType
         /\ UniqueIn(Tasks)
         /\ Counted(Tasks, semaphore)
BY DEF HeapInv, Tasks, TicketsUnique, WaitersCounted, Waiters, UniqueIn, Counted

(* What is left of the heaps when tasks are removed. *)
LEMMA HeapsLess ==
  ASSUME HeapInv, NEW gone \in SUBSET Tasks,
         m_WhenHeap' = m_WhenHeap \ gone, m_PriorityHeap' = m_PriorityHeap \ gone,
         Counted(Tasks \ gone, semaphore')
  PROVE  HeapInv'
<1>1. Tasks' = Tasks \ gone
  BY DEF Tasks
<1>2. WaitersCounted'
  BY <1>1 DEF WaitersCounted, Waiters, Counted
<1>3. TicketsUnique'
  BY <1>1 DEF HeapInv, TicketsUnique
<1>. QED
  BY <1>1, <1>2, <1>3 DEF HeapInv

LEMMA HeapsSame ==
  ASSUME HeapInv, AccountInv, UNCHANGED <<m_WhenHeap, m_PriorityHeap>>,
         semaphore' \in [Semaphores -> Int],
         \A s \in Semaphores : semaphore'[s] >= semaphore[s]
  PROVE  HeapInv'
<1>1. Tasks' = Tasks
  BY DEF Tasks
<1>2. Counted(Tasks, semaphore')
  BY HeapFacts, FewerCounted DEF AccountInv
<1>3. WaitersCounted'
  BY <1>1, <1>2 DEF WaitersCounted, Waiters, Counted
<1>4. TicketsUnique'
  BY <1>1 DEF HeapInv, TicketsUnique
<1>. QED
  BY <1>1, <1>3, <1>4 DEF HeapInv

(* Adding to one purse, or one count, that may not exist. *)
LEMMA CreditType ==
  ASSUME NEW purses \in [Players -> Int], NEW o, NEW pennies \in Int
  PROVE  /\ [purses EXCEPT ![o] = @ + pennies] \in [Players -> Int]
         /\ [purses EXCEPT ![o] = @ - pennies] \in [Players -> Int]
<1>1. CASE o \in Players
  BY <1>1
<1>2. CASE o \notin Players
  <2>1. /\ [purses EXCEPT ![o] = @ + pennies] = purses
        /\ [purses EXCEPT ![o] = @ - pennies] = purses
    BY <1>2
  <2>. QED
    BY <2>1
<1>. QED
  BY <1>1, <1>2

LEMMA CountType ==
  ASSUME queue \in [Players -> Int], NEW o
  PROVE  /\ [queue EXCEPT ![o] = @ + 1] \in [Players -> Int]
         /\ [queue EXCEPT ![o] = @ - 1] \in [Players -> Int]
<1>. DEFINE one == 1
<1>1. one \in Int
  OBVIOUS
<1>. HIDE DEF one
<1>2. /\ [queue EXCEPT ![o] = @ + one] \in [Players -> Int]
      /\ [queue EXCEPT ![o] = @ - one] \in [Players -> Int]
  BY <1>1, CreditType
<1>. QED
  BY <1>2 DEF one

LEMMA PlusType ==
  ASSUME NEW purses \in [Players -> Int], NEW x, NEW pennies \in Int
  PROVE  Plus(purses, x, pennies) \in [Players -> Int]
BY CreditType DEF Plus

LEMMA AddToType ==
  ASSUME semaphore \in [Semaphores -> Int], NEW s \in Semaphores, NEW am \in Int
  PROVE  /\ add_to(s, am) \in [Semaphores -> Int]
         /\ add_to(s, am)[s] = semaphore[s] + am
         /\ \A r \in Semaphores \ {s} : add_to(s, am)[r] = semaphore[r]
BY DEF add_to

(* The refunds and the counts of Discard and halt_que. *)
LEMMA RefundType ==
  ASSUME NEW gone \in SUBSET TaskType, NEW back \in SUBSET TaskType, NEW purses \in [Players -> Int],
         queue \in [Players -> Int]
  PROVE  /\ [p \in Players |->
               purses[p] + IF p \in Free THEN 0
                           ELSE waitcost * Cardinality(EntriesIn(back, p))] \in [Players -> Int]
         /\ [p \in Players |-> queue[p] - Cardinality(EntriesIn(gone, p))] \in [Players -> Int]
<1>1. \A p \in Players : /\ Cardinality(EntriesIn(gone, p)) \in Nat
                          /\ Cardinality(EntriesIn(back, p)) \in Nat
  BY EntriesFinite
<1>2. \A p \in Players : waitcost * Cardinality(EntriesIn(back, p)) \in Int
  BY <1>1, QueueAssumption
<1>. QED
  BY <1>1, <1>2

LEMMA HaltType ==
  ASSUME NEW gone \in SUBSET TaskType, NEW counts \in [Semaphores -> Int]
  PROVE  [s \in Semaphores |-> counts[s] - Cardinality(WaitersIn(gone, s))]
           \in [Semaphores -> Int]
BY WaitersFinite

LEMMA HaltQue ==
  ASSUME HeapInv, AccountInv,
         NEW gone \in SUBSET Tasks,
         NEW purses \in [Players -> Int],
         NEW counts \in [Semaphores -> Int], Counted(Tasks, counts),
         halt_que(gone, purses, counts)
  PROVE  HeapInv' /\ AccountInv'
<1>1. gone \in SUBSET TaskType
  BY HeapFacts
<1>2. AccountInv'
  BY <1>1, RefundType, HaltType DEF AccountInv, halt_que
<1>3. Counted(Tasks \ gone, semaphore')
  BY HeapFacts, HaltedCounted DEF halt_que
<1>4. HeapInv'
  BY <1>3, HeapsLess DEF halt_que
<1>. QED
  BY <1>2, <1>4

(* A new task has a ticket of its own. *)
LEMMA FreshTicket ==
  ASSUME HeapInv, ObjectInv, TicketFree(0)
  PROVE  \A t \in Tasks : t.m_Ticket # m_Ticket
<1>. SUFFICES ASSUME NEW t \in Tasks, t.m_Ticket = m_Ticket PROVE FALSE
  OBVIOUS
<1>1. (m_Ticket - t.m_Ticket) % TicketMod \in 1 .. TicketMod \div 2 - 1 - 0
  BY DEF TicketFree
<1>2. (m_Ticket - t.m_Ticket) % TicketMod = 0
  BY TicketAssumption DEF ObjectInv
<1>. QED
  BY <1>1, <1>2, TicketAssumption

-----------------------------------------------------------------------------
(* The actions.                                                            *)

LEMMA PriorityType ==
  ASSUME NEW e
  PROVE  Priority(e) \in Priorities /\ PRIORITY_SUSPEND \in Priorities
BY DEF Priority, Priorities, PRIORITY_SUSPEND, PRIORITY_PLAYER, PRIORITY_OBJECT

(* One more task, with the next ticket. *)
LEMMA TaskAdded ==
  ASSUME Inv, NEW t \in TaskType, t.m_Ticket = m_Ticket,
         t.fpTask = "Task_SemaphoreTimeout" => t.arg.sem \in Semaphores,
         NEW counts \in [Semaphores -> Int],
         \A s \in Semaphores : counts[s] >= semaphore[s],
         \A s \in Semaphores : IsWaiter(t, s) => counts[s] = semaphore[s] + 1 /\ counts[s] > 0,
         TicketFree(0),
         m_WhenHeap' = m_WhenHeap \cup {t}, m_PriorityHeap' = m_PriorityHeap,
         semaphore' = counts
  PROVE  HeapInv'
<1>1. Tasks' = Tasks \cup {t}
  BY DEF Tasks
<1>2. Counted(Tasks \cup {t}, semaphore')
  BY HeapFacts, AddedCounted DEF Inv, AccountInv
<1>3. WaitersCounted'
  BY <1>1, <1>2 DEF WaitersCounted, Waiters, Counted
<1>4. \A u \in Tasks : u.m_Ticket # t.m_Ticket
  BY FreshTicket DEF Inv
<1>5. TicketsUnique'
  BY <1>1, <1>4 DEF Inv, HeapInv, TicketsUnique, Tasks
<1>. QED
  BY <1>1, <1>3, <1>5 DEF Inv, HeapInv

LEMMA TicketType ==
  ASSUME ObjectInv
  PROVE  (m_Ticket + 1) % TicketMod \in 0 .. TicketMod - 1
BY TicketAssumption DEF ObjectInv

LEMMA WaitQue ==
  ASSUME Inv, NEW x \in Objects,
         NEW t \in TaskType, t.m_Ticket = m_Ticket,
         t.fpTask = "Task_SemaphoreTimeout" => t.arg.sem \in Semaphores,
         NEW counts \in [Semaphores -> Int],
         \A s \in Semaphores : counts[s] >= semaphore[s],
         \A s \in Semaphores : IsWaiter(t, s) => counts[s] = semaphore[s] + 1 /\ counts[s] > 0,
         wait_que(x, {t}, counts),
         UNCHANGED running
  PROVE  Inv'
<1>. PICK a \in Surcharges :
       LET cost == waitcost + a IN
       \/ /\ Refused(x, cost)
          /\ semaphore' = counts
          /\ UNCHANGED <<schedulerVars, objectVars, money, queue>>
       \/ /\ ~Refused(x, cost)
          /\ RunsAway(x)
          /\ halt_que(OwnedBy(Owner(x)), payfor(x, cost), counts)
          /\ halted' = halted \cup {x}
          /\ UNCHANGED <<m_Ticket, m_minPriority, owner, gratis, going, garbage, drift>>
       \/ /\ ~Refused(x, cost)
          /\ ~RunsAway(x)
          /\ TicketFree(0)
          /\ m_WhenHeap' = m_WhenHeap \cup {t}
          /\ TicketTaken
          /\ money' = payfor(x, cost)
          /\ queue' = [queue EXCEPT ![Owner(x)] = @ + 1]
          /\ semaphore' = counts
          /\ UNCHANGED <<m_PriorityHeap, m_minPriority, objectVars>>
  BY DEF wait_que
<1>. DEFINE cost == waitcost + a
<1>1. HeapInv /\ AccountInv /\ ObjectInv /\ cost \in Int /\ -cost \in Int
  BY QueueAssumption DEF Inv
<1>2. payfor(x, cost) \in [Players -> Int]
  BY <1>1, PlusType DEF payfor, AccountInv
<1>. HIDE DEF cost
<1>3. CASE /\ semaphore' = counts
           /\ UNCHANGED <<schedulerVars, objectVars, money, queue>>
  <2>1. HeapInv'
    BY <1>1, <1>3, HeapsSame DEF schedulerVars
  <2>. QED
    BY <1>1, <1>3, <2>1 DEF Inv, AccountInv, ObjectInv, schedulerVars, objectVars
<1>4. CASE /\ halt_que(OwnedBy(Owner(x)), payfor(x, cost), counts)
           /\ halted' = halted \cup {x}
           /\ UNCHANGED <<m_Ticket, m_minPriority, owner, gratis, going, garbage, drift>>
  <2>1. Counted(Tasks, counts)
    BY <1>1, HeapFacts, FewerCounted DEF AccountInv
  <2>2. OwnedBy(Owner(x)) \in SUBSET Tasks
    BY DEF OwnedBy
  <2>3. HeapInv' /\ AccountInv'
    BY <1>1, <1>2, <1>4, <2>1, <2>2, HaltQue
  <2>. QED
    BY <1>1, <1>4, <2>3 DEF Inv, ObjectInv
<1>5. CASE /\ TicketFree(0)
           /\ m_WhenHeap' = m_WhenHeap \cup {t}
           /\ TicketTaken
           /\ money' = payfor(x, cost)
           /\ queue' = [queue EXCEPT ![Owner(x)] = @ + 1]
           /\ semaphore' = counts
           /\ UNCHANGED <<m_PriorityHeap, m_minPriority, objectVars>>
  <2>1. HeapInv'
    BY <1>5, TaskAdded
  <2>2. queue' \in [Players -> Int]
    BY <1>1, <1>5, CountType DEF AccountInv
  <2>3. AccountInv'
    BY <1>2, <1>5, <2>2 DEF AccountInv
  <2>4. ObjectInv'
    BY <1>1, <1>5, TicketType DEF ObjectInv, TicketTaken, objectVars
  <2>. QED
    BY <2>1, <2>3, <2>4 DEF Inv
<1>. QED
  BY <1>3, <1>4, <1>5 DEF cost

(* What the three forms of @wait and the commands that queue insert. *)
LEMMA QueueNowInv ==
  ASSUME Inv, NEW x \in Objects, NEW e \in Objects, NEW victim \in Objects, QueueNow(x, e, victim)
  PROVE  Inv'
<1>. DEFINE t == TaskRecord(Immediately, Priority(e), "Task_RunQueueEntry",
                            BQUE(victim, e, FALSE, NoSemaphore))
<1>1. t \in TaskType /\ t.m_Ticket = m_Ticket /\ t.fpTask = "Task_RunQueueEntry"
  BY PriorityType DEF Immediately, Inv, ObjectInv, TaskRecord, BQUE, TaskType, EntryType
<1>2. wait_que(victim, {t}, semaphore) /\ UNCHANGED running
  BY DEF QueueNow, DeferImmediateTask
<1>3. \A s \in Semaphores : ~IsWaiter(t, s)
  BY <1>1 DEF IsWaiter
<1>. HIDE DEF t
<1>4. semaphore \in [Semaphores -> Int]
  BY DEF Inv, AccountInv
<1>. QED
  BY <1>1, <1>2, <1>3, <1>4, WaitQue

LEMMA WaitTimedInv ==
  ASSUME Inv, NEW x \in Objects, NEW e \in Objects, NEW delay \in Delays, WaitTimed(x, e, delay)
  PROVE  Inv'
<1>. DEFINE t == TaskRecord(Now + delay, Priority(e), "Task_RunQueueEntry",
                            BQUE(x, e, TRUE, NoSemaphore))
<1>1. Now + delay \in Nat
  BY NowAssumption, QueueAssumption
<1>2. t \in TaskType /\ t.m_Ticket = m_Ticket /\ t.fpTask = "Task_RunQueueEntry"
  BY <1>1, PriorityType DEF Inv, ObjectInv, TaskRecord, BQUE, TaskType, EntryType
<1>3. wait_que(x, {t}, semaphore) /\ UNCHANGED running
  BY DEF WaitTimed, DeferTask
<1>4. \A s \in Semaphores : ~IsWaiter(t, s)
  BY <1>2 DEF IsWaiter
<1>. HIDE DEF t
<1>5. semaphore \in [Semaphores -> Int]
  BY DEF Inv, AccountInv
<1>. QED
  BY <1>2, <1>3, <1>4, <1>5, WaitQue

(* A @wait on a semaphore, whichever task it makes. *)
LEMMA WaitCounted ==
  ASSUME Inv, NEW x \in Objects, NEW s \in Semaphores,
         NEW now \in TaskType, now.m_Ticket = m_Ticket, now.fpTask = "Task_RunQueueEntry",
         NEW later \in TaskType, later.m_Ticket = m_Ticket, later.arg.sem = s,
         wait_que(x, IF semaphore[s] + 1 <= 0 THEN {now} ELSE {later}, add_to(s, 1)),
         UNCHANGED running
  PROVE  Inv'
<1>1. /\ semaphore \in [Semaphores -> Int] /\ add_to(s, 1) \in [Semaphores -> Int]
      /\ add_to(s, 1)[s] = semaphore[s] + 1
      /\ \A r \in Semaphores \ {s} : add_to(s, 1)[r] = semaphore[r]
  BY AddToType DEF Inv, AccountInv
<1>2. \A r \in Semaphores : add_to(s, 1)[r] >= semaphore[r]
  BY <1>1
<1>3. CASE semaphore[s] + 1 <= 0
  <2>1. wait_que(x, {now}, add_to(s, 1))
    BY <1>3
  <2>2. \A r \in Semaphores : ~IsWaiter(now, r)
    BY DEF IsWaiter
  <2>. QED
    BY <1>1, <1>2, <2>1, <2>2, WaitQue
<1>4. CASE ~(semaphore[s] + 1 <= 0)
  <2>1. wait_que(x, {later}, add_to(s, 1))
    BY <1>4
  <2>2. \A r \in Semaphores :
          IsWaiter(later, r) => add_to(s, 1)[r] = semaphore[r] + 1 /\ add_to(s, 1)[r] > 0
    BY <1>1, <1>4 DEF IsWaiter
  <2>. QED
    BY <1>1, <1>2, <2>1, <2>2, WaitQue
<1>. QED
  BY <1>3, <1>4

LEMMA WaitSemaphoreInv ==
  ASSUME Inv, NEW x \in Objects, NEW e \in Objects, NEW s \in Semaphores, WaitSemaphore(x, e, s)
  PROVE  Inv'
<1>. DEFINE now == TaskRecord(Immediately, Priority(e), "Task_RunQueueEntry",
                              BQUE(x, e, FALSE, NoSemaphore))
            later == TaskRecord(Immediately, PRIORITY_SUSPEND, "Task_SemaphoreTimeout",
                                BQUE(x, e, FALSE, s))
<1>1. now \in TaskType /\ now.m_Ticket = m_Ticket /\ now.fpTask = "Task_RunQueueEntry"
  BY PriorityType DEF Immediately, Inv, ObjectInv, TaskRecord, BQUE, TaskType, EntryType
<1>2. later \in TaskType /\ later.m_Ticket = m_Ticket /\ later.arg.sem = s
  BY PriorityType DEF Immediately, Inv, ObjectInv, TaskRecord, BQUE, TaskType, EntryType
<1>3. /\ wait_que(x, IF semaphore[s] + 1 <= 0 THEN {now} ELSE {later}, add_to(s, 1))
      /\ UNCHANGED running
  BY DEF WaitSemaphore, DeferImmediateTask
<1>. HIDE DEF now, later
<1>. QED
  BY <1>1, <1>2, <1>3, WaitCounted

LEMMA WaitSemaphoreTimedInv ==
  ASSUME Inv, NEW x \in Objects, NEW e \in Objects, NEW s \in Semaphores, NEW delay \in Delays,
         WaitSemaphoreTimed(x, e, s, delay)
  PROVE  Inv'
<1>. DEFINE now == TaskRecord(Immediately, Priority(e), "Task_RunQueueEntry",
                              BQUE(x, e, FALSE, NoSemaphore))
            later == TaskRecord(Now + delay, Priority(e), "Task_SemaphoreTimeout",
                                BQUE(x, e, TRUE, s))
<1>1. now \in TaskType /\ now.m_Ticket = m_Ticket /\ now.fpTask = "Task_RunQueueEntry"
  BY PriorityType DEF Immediately, Inv, ObjectInv, TaskRecord, BQUE, TaskType, EntryType
<1>2. Now + delay \in Nat
  BY NowAssumption, QueueAssumption
<1>3. later \in TaskType /\ later.m_Ticket = m_Ticket /\ later.arg.sem = s
  BY <1>2, PriorityType DEF Inv, ObjectInv, TaskRecord, BQUE, TaskType, EntryType
<1>4. /\ wait_que(x, IF semaphore[s] + 1 <= 0 THEN {now} ELSE {later}, add_to(s, 1))
      /\ UNCHANGED running
  BY DEF WaitSemaphoreTimed, DeferImmediateTask, DeferTask
<1>. HIDE DEF now, later
<1>. QED
  BY <1>1, <1>3, <1>4, WaitCounted

(* @notify.  The chosen waiters stop waiting; nothing else changes.        *)
LEMMA NotifiedSame ==
  ASSUME NEW T \in SUBSET TaskType, NEW s \in Semaphores, NEW chosen
  PROVE  /\ NotifiedIn(T, s, chosen) \in SUBSET TaskType
         /\ \A u \in NotifiedIn(T, s, chosen) : \E t \in T :
              /\ u = AfterNotify(t, s, chosen)
              /\ u.m_Ticket = t.m_Ticket
              /\ u.fpTask = "Task_SemaphoreTimeout" => u = t
         /\ WaitersIn(NotifiedIn(T, s, chosen), s) \in SUBSET (WaitersIn(T, s) \ chosen)
         /\ \A r \in Semaphores :
              WaitersIn(NotifiedIn(T, s, chosen), r) \in SUBSET WaitersIn(T, r)
<1>. DEFINE N == NotifiedIn(T, s, chosen)
<1>1. ASSUME NEW t \in T
      PROVE  /\ Notified(t) \in TaskType
             /\ Notified(t).m_Ticket = t.m_Ticket
             /\ Notified(t).fpTask = "Task_RunQueueEntry"
  BY PriorityType, NowAssumption DEF Notified, TaskType
<1>2. ASSUME NEW u \in N
      PROVE  \E t \in T :
               /\ u = AfterNotify(t, s, chosen)
               /\ u.m_Ticket = t.m_Ticket
               /\ u.fpTask = "Task_SemaphoreTimeout" =>
                    u = t /\ ~(IsWaiter(t, s) /\ t.m_Ticket \in chosen)
               /\ u \in TaskType
  BY <1>1 DEF NotifiedIn, AfterNotify
<1>3. ASSUME NEW r, NEW k \in WaitersIn(N, r)
      PROVE  k \in WaitersIn(T, r) /\ (r = s => k \notin chosen)
  <2>1. PICK u \in N : IsWaiter(u, r) /\ k = u.m_Ticket
    BY DEF WaitersIn
  <2>2. u \in T /\ ~(IsWaiter(u, s) /\ u.m_Ticket \in chosen)
    BY <1>2, <2>1 DEF IsWaiter
  <2>. QED
    BY <2>1, <2>2 DEF WaitersIn
<1>. QED
  BY <1>2, <1>3

(* The heaps after NotifyWaiters, if the counts are still right. *)
LEMMA NotifyHeaps ==
  ASSUME HeapInv, NEW s \in Semaphores, NEW chosen, NotifyWaiters(s, chosen),
         Counted(NotifiedIn(Tasks, s, chosen), semaphore')
  PROVE  HeapInv'
<1>1. Tasks' = NotifiedIn(Tasks, s, chosen)
  BY DEF Tasks, NotifyWaiters, NotifiedIn
<1>2. WaitersCounted'
  BY <1>1 DEF WaitersCounted, Waiters, Counted
<1>0. m_WhenHeap \in SUBSET TaskType /\ m_PriorityHeap \in SUBSET TaskType
  BY DEF HeapInv
<1>3. /\ \A u \in m_WhenHeap' : \E t \in m_WhenHeap : u = AfterNotify(t, s, chosen) /\ u.m_Ticket = t.m_Ticket
      /\ \A u \in m_PriorityHeap' :
           \E t \in m_PriorityHeap : u = AfterNotify(t, s, chosen) /\ u.m_Ticket = t.m_Ticket
      /\ m_WhenHeap' \subseteq TaskType /\ m_PriorityHeap' \subseteq TaskType
  <2>1. /\ m_WhenHeap' = NotifiedIn(m_WhenHeap, s, chosen)
        /\ m_PriorityHeap' = NotifiedIn(m_PriorityHeap, s, chosen)
    BY DEF NotifyWaiters
  <2>2. ASSUME NEW T \in SUBSET TaskType
        PROVE  /\ NotifiedIn(T, s, chosen) \subseteq TaskType
               /\ \A u \in NotifiedIn(T, s, chosen) :
                    \E t \in T : u = AfterNotify(t, s, chosen) /\ u.m_Ticket = t.m_Ticket
    <3>1. NotifiedIn(T, s, chosen) \in SUBSET TaskType
      BY NotifiedSame
    <3>2. \A u \in NotifiedIn(T, s, chosen) : \E t \in T :
            /\ u = AfterNotify(t, s, chosen)
            /\ u.m_Ticket = t.m_Ticket
            /\ u.fpTask = "Task_SemaphoreTimeout" => u = t
      BY NotifiedSame
    <3>. QED
      BY <3>1, <3>2
  <2>. QED
    BY <1>0, <2>1, <2>2
<1>4. \A u \in Tasks' : \E t \in Tasks :
        /\ u = AfterNotify(t, s, chosen) /\ u.m_Ticket = t.m_Ticket
        /\ u.fpTask = "Task_SemaphoreTimeout" => u = t
  BY <1>1, NotifiedSame, HeapFacts
<1>5. m_WhenHeap' \cap m_PriorityHeap' = {}
  BY <1>3 DEF HeapInv, TicketsUnique, Tasks
<1>6. \A u, v \in Tasks' : u.m_Ticket = v.m_Ticket => u = v
  BY <1>4 DEF HeapInv, TicketsUnique
<1>7. \A u \in Tasks' : u.fpTask = "Task_SemaphoreTimeout" => u.arg.sem \in Semaphores
  BY <1>4 DEF HeapInv
<1>. QED
  BY <1>2, <1>3, <1>5, <1>6, <1>7 DEF HeapInv, TicketsUnique

(* Counts of the other semaphores, when that of s becomes k. *)
LEMMA CountChanged ==
  ASSUME HeapInv, AccountInv, NEW s \in Semaphores, NEW k \in Int,
         NEW T \in SUBSET TaskType,
         \A r \in Semaphores : WaitersIn(T, r) \in SUBSET Waiters(r),
         WaitersIn(T, s) = {} \/ Cardinality(WaitersIn(T, s)) <= k
  PROVE  Counted(T, [semaphore EXCEPT ![s] = k])
<1>. SUFFICES ASSUME NEW r \in Semaphores \ {s}, WaitersIn(T, r) # {}
              PROVE  Cardinality(WaitersIn(T, r)) <= semaphore[r]
  BY DEF Counted, AccountInv
<1>1. /\ Cardinality(Waiters(r)) <= semaphore[r]
      /\ Cardinality(Waiters(r)) \in Nat /\ IsFiniteSet(Waiters(r))
      /\ Cardinality(WaitersIn(T, r)) \in Nat
  BY HeapFacts, WaitersFinite DEF Counted, Waiters
<1>2. Cardinality(WaitersIn(T, r)) <= Cardinality(Waiters(r))
  BY <1>1, FS_Subset
<1>. QED
  BY <1>1, <1>2 DEF AccountInv

(* A semaphore whose count is not positive has no waiters. *)
LEMMA NobodyWaits ==
  ASSUME HeapInv, AccountInv, NEW s \in Semaphores, ~(semaphore[s] > 0)
  PROVE  Waiters(s) = {}
<1>1. Waiters(s) = {} \/ Cardinality(Waiters(s)) <= semaphore[s]
  BY HeapFacts DEF Counted, Waiters
<1>2. IsFiniteSet(Waiters(s)) /\ Cardinality(Waiters(s)) \in Nat
  BY HeapFacts, WaitersFinite DEF Waiters
<1>3. Cardinality(Waiters(s)) <= 0 => Waiters(s) = {}
  BY <1>2, FS_EmptySet
<1>. QED
  BY <1>1, <1>2, <1>3 DEF AccountInv

LEMMA NotifyInv ==
  ASSUME Inv, NEW x, NEW e, NEW s \in Semaphores, NEW count \in Counts, Notify(x, e, s, count)
  PROVE  Inv'
<1>1. HeapInv /\ AccountInv /\ ObjectInv /\ count \in Nat \ {0} /\ semaphore[s] \in Int
  BY QueueAssumption DEF Inv, AccountInv
<1>2. /\ semaphore' = [semaphore EXCEPT ![s] = semaphore[s] - count]
      /\ semaphore' \in [Semaphores -> Int]
  <2>1. semaphore[s] + (-count) = semaphore[s] - count /\ semaphore[s] - count \in Int
    BY <1>1
  <2>2. semaphore' = [semaphore EXCEPT ![s] = semaphore[s] + (-count)]
    BY DEF Notify, add_to
  <2>. QED
    BY <1>1, <2>1, <2>2 DEF AccountInv
<1>3. CASE semaphore[s] > 0
  <2>1. PICK first \in SUBSET Waiters(s) :
          AreFirstWaiters(first, s, count) /\ NotifyWaiters(s, first)
    BY <1>3 DEF Notify
  <2>. DEFINE N == NotifiedIn(Tasks, s, first)
  <2>2. /\ N \in SUBSET TaskType
        /\ WaitersIn(N, s) \in SUBSET (Waiters(s) \ first)
        /\ \A r \in Semaphores : WaitersIn(N, r) \in SUBSET Waiters(r)
    <3>1. Tasks \in SUBSET TaskType
      BY <1>1, HeapFacts
    <3>. QED
      BY <3>1, NotifiedSame DEF Waiters
  <2>3. /\ IsFiniteSet(Waiters(s)) /\ Cardinality(Waiters(s)) \in Nat
        /\ Cardinality(WaitersIn(N, s)) \in Nat
    BY <1>1, <2>2, HeapFacts, WaitersFinite DEF Waiters
  <2>. HIDE DEF N
  <2>4. WaitersIn(N, s) = {} \/ Cardinality(WaitersIn(N, s)) <= semaphore[s] - count
    <3>1. CASE first = Waiters(s)
      BY <2>2, <3>1
    <3>2. CASE Cardinality(first) = count /\ Waiters(s) # {}
      <4>1. Cardinality(Waiters(s)) <= semaphore[s]
        BY <1>1, <3>2, HeapFacts DEF Counted, Waiters
      <4>2. Waiters(s) \cap first = first
        OBVIOUS
      <4>3. /\ IsFiniteSet(Waiters(s) \ first)
            /\ Cardinality(Waiters(s) \ first) = Cardinality(Waiters(s)) - count
        BY <2>3, <3>2, <4>2, FS_Difference
      <4>4. Cardinality(WaitersIn(N, s)) <= Cardinality(Waiters(s) \ first)
        BY <2>2, <4>3, FS_Subset
      <4>. QED
        BY <1>1, <2>3, <4>1, <4>3, <4>4
    <3>. QED
      BY <2>1, <2>2, <3>1, <3>2 DEF AreFirstWaiters
  <2>5. Counted(N, semaphore')
    BY <1>1, <1>2, <2>2, <2>4, CountChanged
  <2>6. HeapInv'
    BY <1>1, <2>1, <2>5, NotifyHeaps DEF N
  <2>. QED
    BY <1>1, <1>2, <2>1, <2>6
    DEF Inv, AccountInv, ObjectInv, Notify, NotifyWaiters, objectVars
<1>4. CASE ~(semaphore[s] > 0)
  <2>1. UNCHANGED <<schedulerVars, money, queue>>
    BY <1>4 DEF Notify
  <2>2. Counted(Tasks, semaphore')
    BY <1>1, <1>2, <1>4, CountChanged, NobodyWaits, HeapFacts DEF Waiters
  <2>3. Tasks' = Tasks
    BY <2>1 DEF Tasks, schedulerVars
  <2>4. HeapInv'
    BY <1>1, <2>1, <2>2, <2>3
    DEF HeapInv, TicketsUnique, WaitersCounted, Waiters, Counted, schedulerVars
  <2>. QED
    BY <1>1, <1>2, <2>1, <2>4
    DEF Inv, AccountInv, ObjectInv, Notify, schedulerVars, objectVars
<1>. QED
  BY <1>3, <1>4

LEMMA NotifyAllInv ==
  ASSUME Inv, NEW x, NEW e, NEW s \in Semaphores, NotifyAll(x, e, s)
  PROVE  Inv'
<1>1. HeapInv /\ AccountInv /\ ObjectInv
  BY DEF Inv
<1>2. /\ semaphore' = [semaphore EXCEPT ![s] = 0]
      /\ semaphore' \in [Semaphores -> Int]
  BY <1>1 DEF NotifyAll, AccountInv
<1>3. CASE semaphore[s] > 0
  <2>1. NotifyWaiters(s, Waiters(s))
    BY <1>3 DEF NotifyAll
  <2>. DEFINE N == NotifiedIn(Tasks, s, Waiters(s))
  <2>2. /\ N \in SUBSET TaskType
        /\ WaitersIn(N, s) = {}
        /\ \A r \in Semaphores : WaitersIn(N, r) \in SUBSET Waiters(r)
    <3>1. Tasks \in SUBSET TaskType
      BY <1>1, HeapFacts
    <3>. QED
      BY <3>1, NotifiedSame DEF Waiters
  <2>. HIDE DEF N
  <2>3. Counted(N, semaphore')
    BY <1>1, <1>2, <2>2, CountChanged
  <2>4. HeapInv'
    BY <1>1, <2>1, <2>3, NotifyHeaps DEF N
  <2>. QED
    BY <1>1, <1>2, <2>1, <2>4
    DEF Inv, AccountInv, ObjectInv, NotifyAll, NotifyWaiters, objectVars
<1>4. CASE ~(semaphore[s] > 0)
  <2>1. UNCHANGED <<schedulerVars, money, queue>>
    BY <1>4 DEF NotifyAll
  <2>2. Counted(Tasks, semaphore')
    BY <1>1, <1>2, <1>4, CountChanged, NobodyWaits, HeapFacts DEF Waiters
  <2>3. Tasks' = Tasks
    BY <2>1 DEF Tasks, schedulerVars
  <2>4. HeapInv'
    BY <1>1, <2>1, <2>2, <2>3
    DEF HeapInv, TicketsUnique, WaitersCounted, Waiters, Counted, schedulerVars
  <2>. QED
    BY <1>1, <1>2, <2>1, <2>4
    DEF Inv, AccountInv, ObjectInv, NotifyAll, schedulerVars, objectVars
<1>. QED
  BY <1>3, <1>4

(* Entries thrown away, with refunds and whatever counts are given. *)
LEMMA DiscardHeaps ==
  ASSUME HeapInv, AccountInv,
         NEW gone \in SUBSET Tasks, NEW back \in SUBSET Tasks,
         NEW purses \in [Players -> Int],
         NEW counts \in [Semaphores -> Int], Counted(Tasks \ gone, counts),
         Discard(gone, back, purses, counts)
  PROVE  HeapInv' /\ AccountInv'
<1>1. gone \in SUBSET TaskType /\ back \in SUBSET TaskType
  BY HeapFacts
<1>2. AccountInv'
  BY <1>1, RefundType DEF AccountInv, Discard
<1>3. HeapInv'
  BY HeapsLess DEF Discard
<1>. QED
  BY <1>2, <1>3

LEMMA DrainInv ==
  ASSUME Inv, NEW x, NEW e, NEW s \in Semaphores, Drain(x, e, s)
  PROVE  Inv'
<1>1. HeapInv /\ AccountInv /\ ObjectInv
  BY DEF Inv
<1>. DEFINE gone == IF semaphore[s] > 0 THEN TasksWaiting(s) ELSE {}
            counts == [semaphore EXCEPT ![s] = 0]
<1>2. gone \in SUBSET Tasks /\ Tasks \ gone \in SUBSET TaskType
  BY <1>1, HeapFacts DEF TasksWaiting
<1>3. counts \in [Semaphores -> Int] /\ money \in [Players -> Int]
  BY <1>1 DEF AccountInv
<1>4. \A r \in Semaphores : WaitersIn(Tasks \ gone, r) \in SUBSET Waiters(r)
  BY DEF WaitersIn, Waiters
<1>5. WaitersIn(Tasks \ gone, s) = {}
  <2>1. CASE semaphore[s] > 0
    BY <2>1 DEF WaitersIn, TasksWaiting
  <2>2. CASE ~(semaphore[s] > 0)
    BY <1>1, <1>4, <2>2, NobodyWaits
  <2>. QED
    BY <2>1, <2>2
<1>6. Discard(gone, Refunded(gone), money, counts) /\ Refunded(gone) \in SUBSET Tasks
  BY <1>2 DEF Drain, Refunded
<1>. HIDE DEF gone
<1>7. Counted(Tasks \ gone, counts)
  <2>1. 0 \in Int
    OBVIOUS
  <2>. DEFINE T == Tasks \ gone
  <2>2. T \in SUBSET TaskType /\ WaitersIn(T, s) = {}
    BY <1>2, <1>5
  <2>3. \A r \in Semaphores : WaitersIn(T, r) \in SUBSET Waiters(r)
    BY <1>4
  <2>. HIDE DEF T
  <2>4. Counted(T, [semaphore EXCEPT ![s] = 0])
    BY <1>1, <2>1, <2>2, <2>3, CountChanged
  <2>. QED
    BY <2>4 DEF T
<1>. HIDE DEF counts
<1>8. HeapInv' /\ AccountInv'
  BY <1>1, <1>2, <1>3, <1>6, <1>7, DiscardHeaps
<1>. QED
  BY <1>1, <1>8 DEF Inv, ObjectInv, Drain, objectVars

LEMMA HaltInv ==
  ASSUME Inv, NEW gone \in SUBSET Tasks, halt_que(gone, money, semaphore),
         halted' \subseteq Objects,
         UNCHANGED <<m_Ticket, m_minPriority, owner, gratis, going, garbage, drift, running>>
  PROVE  Inv'
<1>1. HeapInv' /\ AccountInv'
  BY HaltQue, HeapFacts DEF Inv, AccountInv
<1>. QED
  BY <1>1 DEF Inv, ObjectInv

LEMMA ChownInv ==
  ASSUME Inv, NEW x, NEW e, NEW thing \in Things, NEW new \in Players, Chown(x, e, thing, new)
  PROVE  Inv'
<1>. DEFINE cost == OBJECT_DEPOSIT
            old == owner[thing]
            paid == payfor(new, cost)
            gone == RunFrom(thing)
            n == Cardinality({t.m_Ticket : t \in gone})
            credited == IF old \in Free THEN paid ELSE [paid EXCEPT ![old] = @ + cost]
<1>1. /\ HeapInv /\ AccountInv /\ ObjectInv
      /\ cost \in Int /\ -cost \in Int
  BY QueueAssumption DEF Inv
<1>2. gone \in SUBSET Tasks /\ gone \in SUBSET TaskType
  BY <1>1, HeapFacts DEF RunFrom
<1>3. n \in Nat
  <2>1. {t.m_Ticket : t \in gone} \in SUBSET (0 .. TicketMod - 1)
    BY <1>2, TaskFields
  <2>. QED
    BY <2>1, TicketsFinite
<1>4. paid \in [Players -> Int]
  BY <1>1, PlusType DEF payfor, AccountInv
<1>5. credited \in [Players -> Int]
  BY <1>1, <1>4, CreditType
<1>6. /\ m_WhenHeap' = m_WhenHeap \ gone
      /\ m_PriorityHeap' = m_PriorityHeap \ gone
      /\ money' = IF new \in Free THEN credited ELSE [credited EXCEPT ![new] = @ + waitcost * n]
      /\ queue' = [queue EXCEPT ![new] = @ - n]
      /\ semaphore' = [s \in Semaphores |-> semaphore[s] - Cardinality(WaitersIn(gone, s))]
      /\ owner' = [owner EXCEPT ![thing] = new]
      /\ gratis' \in {gratis, gratis \ {thing}}
      /\ halted' = halted \cup {thing}
      /\ drift' = [p \in Players |->
                     drift[p] + (IF p = old THEN n ELSE 0) - (IF p = new THEN n ELSE 0)]
      /\ UNCHANGED <<m_Ticket, m_minPriority, going, garbage, running>>
  BY DEF Chown
<1>. HIDE DEF n, paid, credited, gone, old, cost
<1>7. Counted(Tasks \ gone, semaphore')
  BY <1>1, <1>2, <1>6, HeapFacts, HaltedCounted DEF AccountInv
<1>8. HeapInv'
  BY <1>1, <1>2, <1>6, <1>7, HeapsLess
<1>9. AccountInv'
  <2>1. waitcost * n \in Int
    BY <1>3, QueueAssumption
  <2>2. money' \in [Players -> Int]
    BY <1>5, <1>6, <2>1, CreditType
  <2>3. queue' \in [Players -> Int]
    BY <1>1, <1>3, <1>6, CreditType DEF AccountInv
  <2>4. semaphore' \in [Semaphores -> Int]
    BY <1>1, <1>2, <1>6, HaltType DEF AccountInv
  <2>. QED
    BY <2>2, <2>3, <2>4 DEF AccountInv
<1>10. ObjectInv'
  <2>1. drift' \in [Players -> Int]
    BY <1>1, <1>3, <1>6 DEF ObjectInv
  <2>. QED
    BY <1>1, <1>6, <2>1 DEF ObjectInv, Objects
<1>. QED
  BY <1>8, <1>9, <1>10 DEF Inv

LEMMA DestroyObjInv ==
  ASSUME Inv, NEW thing \in Things, destroy_obj(thing)
  PROVE  Inv'
<1>. DEFINE halts == RunFrom(thing)
            drained == {t \in Tasks : \E s \in Semaphores : s[1] = thing /\ IsWaiter(t, s)}
            gone == halts \cup drained
            back == halts \cup Refunded(drained)
            halved == [s \in Semaphores |-> semaphore[s] - Cardinality(WaitersIn(halts, s))]
            counts == [s \in Semaphores |->
                         IF s[1] = thing THEN 0
                         ELSE semaphore[s] - Cardinality(WaitersIn(halts, s))]
<1>1. /\ HeapInv /\ AccountInv /\ ObjectInv
      /\ Tasks \in SUBSET TaskType /\ UniqueIn(Tasks) /\ Counted(Tasks, semaphore)
  BY HeapFacts DEF Inv
<1>2. /\ halts \in SUBSET Tasks /\ gone \in SUBSET Tasks /\ halts \in SUBSET TaskType
      /\ back \in SUBSET Tasks
  BY <1>1 DEF RunFrom, Refunded
<1>3. halved \in [Semaphores -> Int] /\ counts \in [Semaphores -> Int]
  <2>1. \A s \in Semaphores : Cardinality(WaitersIn(halts, s)) \in Nat
    BY <1>2, WaitersFinite
  <2>. QED
    BY <1>1, <2>1 DEF AccountInv
<1>4. Counted(Tasks \ halts, halved)
  BY <1>1, <1>2, HaltedCounted DEF AccountInv
<1>5. Counted(Tasks \ gone, counts)
  <2>. SUFFICES ASSUME NEW s \in Semaphores, WaitersIn(Tasks \ gone, s) # {}
                PROVE  Cardinality(WaitersIn(Tasks \ gone, s)) <= counts[s]
    BY DEF Counted
  <2>1. s[1] # thing
    BY DEF WaitersIn
  <2>2. /\ Tasks \ halts \in SUBSET TaskType
        /\ Tasks \ gone \in SUBSET (Tasks \ halts)
    BY <1>1
  <2>3. Counted(Tasks \ gone, halved)
    BY <1>3, <1>4, <2>2, FewerCounted
  <2>4. Cardinality(WaitersIn(Tasks \ gone, s)) <= halved[s]
    BY <2>3 DEF Counted
  <2>. QED
    BY <2>1, <2>4
<1>6. giveto(Owner(thing), OBJECT_DEPOSIT) \in [Players -> Int]
  BY <1>1, QueueAssumption, PlusType DEF giveto, AccountInv
<1>7. Discard(gone, back, giveto(Owner(thing), OBJECT_DEPOSIT), counts)
  BY DEF destroy_obj
<1>. HIDE DEF gone, back, counts
<1>8. HeapInv' /\ AccountInv'
  BY <1>1, <1>2, <1>3, <1>5, <1>6, <1>7, DiscardHeaps
<1>9. ObjectInv'
  BY <1>1 DEF ObjectInv, destroy_obj
<1>. QED
  BY <1>8, <1>9 DEF Inv

LEMMA WarpInv ==
  ASSUME Inv, NEW x, NEW e, NEW warp \in Warps, CallBack_Warp(x, e, warp)
  PROVE  Inv'
<1>1. /\ HeapInv /\ AccountInv /\ ObjectInv /\ warp \in Int
      /\ m_WhenHeap \in SUBSET TaskType /\ m_PriorityHeap \in SUBSET TaskType
      /\ Tasks \in SUBSET TaskType
  BY HeapFacts, QueueAssumption DEF Inv, HeapInv
<1>2. /\ m_WhenHeap' = WarpedHeap(m_WhenHeap, warp)
      /\ m_PriorityHeap' = WarpedHeap(m_PriorityHeap, warp)
      /\ Tasks' = WarpedHeap(Tasks, warp)
      /\ UNCHANGED <<m_Ticket, m_minPriority, objectVars, accountVars, running>>
  BY DEF CallBack_Warp, Tasks, WarpedHeap
<1>3. WaitersCounted'
  <2>1. \A s : WaitersIn(Tasks', s) = WaitersIn(Tasks, s)
    BY <1>1, <1>2, WarpedSame
  <2>. QED
    BY <1>1, <1>2, <2>1 DEF HeapInv, WaitersCounted, Waiters, accountVars
<1>4. \A u \in Tasks' : \E t \in Tasks :
        /\ u = Warped(t, warp)
        /\ u.m_Ticket = t.m_Ticket /\ u.fpTask = t.fpTask /\ u.arg = t.arg
  BY <1>1, <1>2, WarpedSame
<1>5. m_WhenHeap' \cap m_PriorityHeap' = {}
  <2>1. ASSUME NEW u \in m_WhenHeap', u \in m_PriorityHeap' PROVE FALSE
    <3>1. PICK t \in m_WhenHeap : t.m_Ticket = u.m_Ticket
      BY <1>1, <1>2, WarpedSame
    <3>2. PICK v \in m_PriorityHeap : v.m_Ticket = u.m_Ticket
      BY <1>1, <1>2, <2>1, WarpedSame
    <3>. QED
      BY <1>1, <3>1, <3>2 DEF HeapInv, TicketsUnique, Tasks
  <2>. QED
    BY <2>1
<1>6. \A u, v \in Tasks' : u.m_Ticket = v.m_Ticket => u = v
  BY <1>1, <1>4 DEF HeapInv, TicketsUnique
<1>7. /\ m_WhenHeap' \subseteq TaskType /\ m_PriorityHeap' \subseteq TaskType
      /\ \A u \in Tasks' : u.fpTask = "Task_SemaphoreTimeout" => u.arg.sem \in Semaphores
  <2>1. m_WhenHeap' \in SUBSET TaskType
    BY <1>1, <1>2, WarpedSame
  <2>2. m_PriorityHeap' \in SUBSET TaskType
    BY <1>1, <1>2, WarpedSame
  <2>. QED
    BY <1>1, <1>4, <2>1, <2>2 DEF HeapInv
<1>. QED
  BY <1>1, <1>2, <1>3, <1>5, <1>6, <1>7
  DEF Inv, HeapInv, TicketsUnique, AccountInv, ObjectInv, objectVars, accountVars

LEMMA TickInv ==
  ASSUME Inv, Tick
  PROVE  Inv'
<1>1. /\ HeapInv /\ AccountInv /\ ObjectInv
      /\ m_WhenHeap \in SUBSET TaskType /\ m_PriorityHeap \in SUBSET TaskType
      /\ Tasks \in SUBSET TaskType
  BY HeapFacts DEF Inv, HeapInv
<1>2. /\ m_WhenHeap' = AgedHeap(m_WhenHeap)
      /\ m_PriorityHeap' = AgedHeap(m_PriorityHeap)
      /\ Tasks' = AgedHeap(Tasks)
      /\ UNCHANGED <<m_Ticket, m_minPriority, objectVars, accountVars, running>>
  BY DEF Tick, SchedulerTick, Tasks, AgedHeap
<1>3. WaitersCounted'
  <2>1. \A s : WaitersIn(Tasks', s) = WaitersIn(Tasks, s)
    BY <1>1, <1>2, AgedSame
  <2>. QED
    BY <1>1, <1>2, <2>1 DEF HeapInv, WaitersCounted, Waiters, accountVars
<1>4. \A u \in Tasks' : \E t \in Tasks :
        /\ u = AgedTask(t)
        /\ u.m_Ticket = t.m_Ticket /\ u.fpTask = t.fpTask /\ u.arg = t.arg
  BY <1>1, <1>2, AgedSame
<1>5. m_WhenHeap' \cap m_PriorityHeap' = {}
  <2>1. ASSUME NEW u \in m_WhenHeap', u \in m_PriorityHeap' PROVE FALSE
    <3>1. PICK t \in m_WhenHeap : t.m_Ticket = u.m_Ticket
      BY <1>1, <1>2, AgedSame
    <3>2. PICK v \in m_PriorityHeap : v.m_Ticket = u.m_Ticket
      BY <1>1, <1>2, <2>1, AgedSame
    <3>. QED
      BY <1>1, <3>1, <3>2 DEF HeapInv, TicketsUnique, Tasks
  <2>. QED
    BY <2>1
<1>6. \A u, v \in Tasks' : u.m_Ticket = v.m_Ticket => u = v
  BY <1>1, <1>4 DEF HeapInv, TicketsUnique
<1>7. /\ m_WhenHeap' \subseteq TaskType /\ m_PriorityHeap' \subseteq TaskType
      /\ \A u \in Tasks' : u.fpTask = "Task_SemaphoreTimeout" => u.arg.sem \in Semaphores
  <2>1. m_WhenHeap' \in SUBSET TaskType
    BY <1>1, <1>2, AgedSame
  <2>2. m_PriorityHeap' \in SUBSET TaskType
    BY <1>1, <1>2, AgedSame
  <2>. QED
    BY <1>1, <1>4, <2>1, <2>2 DEF HeapInv
<1>. QED
  BY <1>1, <1>2, <1>3, <1>5, <1>6, <1>7
  DEF Inv, HeapInv, TicketsUnique, AccountInv, ObjectInv, objectVars, accountVars

LEMMA ReadyInv ==
  ASSUME Inv, Ready
  PROVE  Inv'
<1>1. /\ HeapInv /\ AccountInv /\ ObjectInv /\ Tasks \in SUBSET TaskType
  BY HeapFacts DEF Inv
<1>2. {t \in Due : t.fpTask # NoTask} = Due
  BY <1>1, TaskFields DEF Due, NoTask, Tasks
<1>3. /\ m_WhenHeap' = m_WhenHeap \ Due
      /\ m_PriorityHeap' = m_PriorityHeap \cup Due
      /\ UNCHANGED <<m_Ticket, m_minPriority, objectVars, accountVars, running>>
  BY <1>2 DEF Ready, ReadyTasks, ReadiedWhenHeap, ReadiedPriorityHeap
<1>4. Due \in SUBSET m_WhenHeap
  BY DEF Due
<1>5. Tasks' = Tasks
  BY <1>3, <1>4 DEF Tasks
<1>6. m_WhenHeap' \cap m_PriorityHeap' = {}
  BY <1>1, <1>3, <1>4 DEF HeapInv, TicketsUnique
<1>7. HeapInv'
  BY <1>1, <1>3, <1>4, <1>5, <1>6
  DEF HeapInv, TicketsUnique, WaitersCounted, Waiters, accountVars
<1>. QED
  BY <1>1, <1>3, <1>7 DEF Inv, AccountInv, ObjectInv, objectVars, accountVars

LEMMA RunEntryInv ==
  ASSUME Inv, NEW t \in m_PriorityHeap, RunEntry(t)
  PROVE  Inv'
<1>. DEFINE x == t.arg.executor
            expired == t.fpTask = "Task_SemaphoreTimeout"
<1>1. /\ HeapInv /\ AccountInv /\ ObjectInv
      /\ Tasks \in SUBSET TaskType /\ UniqueIn(Tasks) /\ Counted(Tasks, semaphore)
      /\ t \in Tasks /\ {t} \in SUBSET Tasks
  BY HeapFacts DEF Inv, Tasks
<1>2. t \in TaskType /\ x \in Objects /\ t.arg.enactor \in Objects
  <2>1. t.arg \in EntryType
    BY <1>1, TaskFields
  <2>. QED
    BY <1>1, <2>1 DEF EntryType
<1>3. m_WhenHeap' = m_WhenHeap \ {t} /\ m_PriorityHeap' = m_PriorityHeap \ {t}
  BY <1>1 DEF RunEntry, HeapInv, TicketsUnique
<1>4. semaphore' \in [Semaphores -> Int] /\ Counted(Tasks \ {t}, semaphore')
  <2>1. CASE expired
    <3>1. t.arg.sem \in Semaphores /\ semaphore' = add_to(t.arg.sem, -1)
      BY <1>1, <2>1 DEF HeapInv, RunEntry
    <3>2. /\ semaphore' \in [Semaphores -> Int]
          /\ semaphore'[t.arg.sem] = semaphore[t.arg.sem] + (-1)
          /\ \A s \in Semaphores \ {t.arg.sem} : semaphore'[s] = semaphore[s]
      BY <1>1, <3>1, AddToType DEF AccountInv
    <3>3. WaitersIn({t}, t.arg.sem) = {t.m_Ticket}
      BY <2>1 DEF WaitersIn, IsWaiter
    <3>4. \A s \in Semaphores \ {t.arg.sem} : WaitersIn({t}, s) = {}
      BY DEF WaitersIn, IsWaiter
    <3>5. ASSUME NEW s \in Semaphores
          PROVE  semaphore'[s] = semaphore[s] - Cardinality(WaitersIn({t}, s))
      <4>1. CASE s = t.arg.sem
        <5>1. Cardinality(WaitersIn({t}, s)) = 1
          BY <3>3, <4>1, FS_Singleton
        <5>. QED
          BY <1>1, <3>2, <4>1, <5>1 DEF AccountInv
      <4>2. CASE s # t.arg.sem
        <5>1. Cardinality(WaitersIn({t}, s)) = 0
          BY <3>4, <4>2, FS_EmptySet
        <5>. QED
          BY <1>1, <3>2, <4>2, <5>1 DEF AccountInv
      <4>. QED
        BY <4>1, <4>2
    <3>6. semaphore' = [s \in Semaphores |-> semaphore[s] - Cardinality(WaitersIn({t}, s))]
      BY <3>2, <3>5
    <3>. QED
      BY <1>1, <3>2, <3>6, HaltedCounted DEF AccountInv
  <2>2. CASE ~expired
    <3>1. semaphore' = semaphore
      BY <2>2 DEF RunEntry
    <3>2. Tasks \ {t} \in SUBSET Tasks /\ \A s \in Semaphores : semaphore[s] >= semaphore[s]
      BY <1>1 DEF AccountInv
    <3>. QED
      BY <1>1, <3>1, <3>2, FewerCounted DEF AccountInv
  <2>. QED
    BY <2>1, <2>2
<1>5. HeapInv'
  BY <1>1, <1>3, <1>4, HeapsLess
<1>6. /\ money' \in [Players -> Int] /\ queue' \in [Players -> Int]
      /\ drift' \in [Players -> Int]
      /\ running' \in {Idle} \cup [executor : Objects, enactor : Objects]
  <2>1. CASE x \in going
    <3>1. drift' = [drift EXCEPT ![Owner(x)] = @ + 1] /\ UNCHANGED <<money, queue, running>>
      BY <2>1 DEF RunEntry
    <3>2. 1 \in Int /\ drift \in [Players -> Int]
      BY <1>1 DEF ObjectInv
    <3>3. drift' \in [Players -> Int]
      BY <3>1, <3>2, CreditType
    <3>. QED
      BY <1>1, <3>1, <3>3 DEF AccountInv, ObjectInv
  <2>2. CASE x \notin going
    <3>1. money' = giveto(x, waitcost) /\ queue' = [queue EXCEPT ![Owner(x)] = @ - 1]
      BY <2>2 DEF RunEntry
    <3>2. money' \in [Players -> Int] /\ queue' \in [Players -> Int]
      BY <1>1, <3>1, QueueAssumption, PlusType, CountType DEF giveto, AccountInv
    <3>3. /\ running' = IF x \in halted THEN Idle ELSE [executor |-> x, enactor |-> t.arg.enactor]
          /\ UNCHANGED drift
      BY <2>2 DEF RunEntry
    <3>. QED
      BY <1>1, <1>2, <3>2, <3>3 DEF ObjectInv
  <2>. QED
    BY <2>1, <2>2
<1>7. UNCHANGED <<m_Ticket, m_minPriority, owner, gratis, halted, going, garbage>>
  BY DEF RunEntry, objectVars
<1>. QED
  BY <1>1, <1>4, <1>5, <1>6, <1>7 DEF Inv, AccountInv, ObjectInv

-----------------------------------------------------------------------------
(* The theorems.                                                           *)

LEMMA InitInv == Init => Inv
<1>. SUFFICES ASSUME Init PROVE Inv
  OBVIOUS
<1>1. Tasks = {} /\ \A s \in Semaphores : Waiters(s) = {}
  BY DEF Init, Tasks, Waiters, WaitersIn
<1>2. HeapInv
  BY <1>1 DEF HeapInv, TicketsUnique, WaitersCounted, Init
<1>3. AccountInv
  <2>1. money \in [Players -> Int]
    <3>1. Purses \subseteq Int /\ money \in [Players -> Purses]
      BY QueueAssumption DEF Init
    <3>. QED
      BY <3>1
  <2>. QED
    BY <2>1 DEF AccountInv, Init
<1>4. ObjectInv
  BY TicketAssumption DEF ObjectInv, Init
<1>. QED
  BY <1>2, <1>3, <1>4 DEF Inv

(* One command of an entry or of a player. *)
LEMMA CommandInv ==
  ASSUME Inv, NEW x \in Objects, NEW e \in Objects, Command(x, e)
  PROVE  Inv'
<1>1. ASSUME NEW victim \in Objects, QueueNow(x, e, victim) PROVE Inv'
  BY <1>1, QueueNowInv
<1>2. ASSUME NEW delay \in Delays, WaitTimed(x, e, delay) PROVE Inv'
  BY <1>2, WaitTimedInv
<1>3. ASSUME NEW s \in Semaphores, WaitSemaphore(x, e, s) PROVE Inv'
  BY <1>3, WaitSemaphoreInv
<1>4. ASSUME NEW s \in Semaphores, NEW delay \in Delays, WaitSemaphoreTimed(x, e, s, delay)
      PROVE  Inv'
  BY <1>4, WaitSemaphoreTimedInv
<1>5. ASSUME NEW s \in Semaphores, NEW count \in Counts, Notify(x, e, s, count) PROVE Inv'
  BY <1>5, NotifyInv
<1>6. ASSUME NEW s \in Semaphores, NotifyAll(x, e, s) PROVE Inv'
  BY <1>6, NotifyAllInv
<1>7. ASSUME NEW s \in Semaphores, Drain(x, e, s) PROVE Inv'
  BY <1>7, DrainInv
<1>8. ASSUME NEW target \in Objects, Halt(x, e, target) PROVE Inv'
  <2>. DEFINE gone == IF target \in Players THEN OwnedBy(target) ELSE RunFrom(target)
  <2>1. gone \in SUBSET Tasks
    BY DEF OwnedBy, RunFrom
  <2>2. /\ halt_que(gone, money, semaphore)
        /\ UNCHANGED <<m_Ticket, m_minPriority, owner, gratis, halted, going, garbage, drift, running>>
    BY <1>8 DEF Halt, objectVars
  <2>3. halted' \subseteq Objects
    BY <2>2 DEF Inv, ObjectInv
  <2>. HIDE DEF gone
  <2>. QED
    BY <2>1, <2>2, <2>3, HaltInv
<1>9. ASSUME HaltAll(x, e) PROVE Inv'
  <2>1. Tasks \in SUBSET Tasks
    OBVIOUS
  <2>2. /\ halt_que(Tasks, money, semaphore)
        /\ UNCHANGED <<m_Ticket, m_minPriority, owner, gratis, halted, going, garbage, drift, running>>
    BY <1>9 DEF HaltAll, objectVars
  <2>3. halted' \subseteq Objects
    BY <2>2 DEF Inv, ObjectInv
  <2>. QED
    BY <2>1, <2>2, <2>3, HaltInv
<1>10. ASSUME UNCHANGED <<m_WhenHeap, m_PriorityHeap, m_Ticket, owner, accountVars, running>>,
              m_minPriority' = m_minPriority \/ m_minPriority' \in MinPriorities,
              gratis' \subseteq Things, halted' \subseteq Objects, going' \subseteq Things,
              UNCHANGED <<garbage, drift>>
       PROVE  Inv'
  <2>1. Tasks' = Tasks
    BY <1>10 DEF Tasks
  <2>2. HeapInv'
    BY <1>10, <2>1 DEF Inv, HeapInv, TicketsUnique, WaitersCounted, Waiters, accountVars
  <2>3. AccountInv'
    BY <1>10 DEF Inv, AccountInv, accountVars
  <2>4. ObjectInv'
    BY <1>10, QueueAssumption DEF Inv, ObjectInv
  <2>. QED
    BY <2>2, <2>3, <2>4 DEF Inv
<1>11. ASSUME NEW target \in Objects, SetHalted(x, e, target) PROVE Inv'
  BY <1>10, <1>11 DEF SetHalted, schedulerVars, Inv, ObjectInv
<1>12. ASSUME NEW warp \in Warps, CallBack_Warp(x, e, warp) PROVE Inv'
  BY <1>12, WarpInv
<1>13. ASSUME SetMinPriority(x, e) PROVE Inv'
  BY <1>10, <1>13 DEF SetMinPriority, objectVars, Inv, ObjectInv
<1>14. ASSUME NEW thing \in Things, NEW new \in Players, Chown(x, e, thing, new) PROVE Inv'
  BY <1>14, ChownInv
<1>15. ASSUME NEW thing \in Things, Destroy(x, e, thing) PROVE Inv'
  BY <1>10, <1>15 DEF Destroy, schedulerVars, Inv, ObjectInv
<1>16. ASSUME NEW thing \in Things, DestroyInstant(x, e, thing) PROVE Inv'
  BY <1>16, DestroyObjInv DEF DestroyInstant
<1>17. ASSUME NEW thing \in Things, SetGratis(x, e, thing) PROVE Inv'
  BY <1>10, <1>17 DEF SetGratis, schedulerVars, Inv, ObjectInv
<1>. QED
  BY <1>1, <1>2, <1>3, <1>4, <1>5, <1>6, <1>7, <1>8, <1>9, <1>11, <1>12, <1>13, <1>14, <1>15,
     <1>16, <1>17
  DEF Command

LEMMA NextInv == Inv /\ [Next]_vars => Inv'
<1>. SUFFICES ASSUME Inv, [Next]_vars PROVE Inv'
  OBVIOUS
<1>1. ASSUME NEW x \in Objects, NEW e \in Objects, Command(x, e) PROVE Inv'
  BY <1>1, CommandInv
<1>2. ASSUME NEW thing \in Things, purge_going(thing) PROVE Inv'
  BY <1>2, DestroyObjInv DEF purge_going
<1>3. CASE Ready
  BY <1>3, ReadyInv
<1>4. ASSUME NEW t \in m_PriorityHeap, RunEntry(t) PROVE Inv'
  BY <1>4, RunEntryInv
<1>5. ASSUME UNCHANGED <<schedulerVars, objectVars, accountVars>>,
             running' \in {Idle} \cup [executor : Objects, enactor : Objects]
      PROVE  Inv'
  <2>1. Tasks' = Tasks
    BY <1>5 DEF Tasks, schedulerVars
  <2>2. HeapInv'
    BY <1>5, <2>1
    DEF Inv, HeapInv, TicketsUnique, WaitersCounted, Waiters, schedulerVars, accountVars
  <2>3. AccountInv' /\ ObjectInv'
    BY <1>5 DEF Inv, AccountInv, ObjectInv, schedulerVars, objectVars, accountVars
  <2>. QED
    BY <2>2, <2>3 DEF Inv
<1>6. CASE EndEntry
  BY <1>5, <1>6 DEF EndEntry
<1>7. CASE Alarm
  <2>. DEFINE gone == OwnedBy(running.enactor) \cup OwnedBy(running.executor)
  <2>1. gone \in SUBSET Tasks
    BY DEF OwnedBy
  <2>2. running \in [executor : Objects, enactor : Objects]
    BY <1>7 DEF Alarm, Inv, ObjectInv
  <2>3. halted' \subseteq Objects
    BY <1>7, <2>2 DEF Alarm, Inv, ObjectInv
  <2>4. /\ halt_que(gone, money, semaphore)
        /\ UNCHANGED <<m_Ticket, m_minPriority, owner, gratis, going, garbage, drift, running>>
    BY <1>7 DEF Alarm
  <2>. HIDE DEF gone
  <2>. QED
    BY <2>1, <2>3, <2>4, HaltInv
<1>10. ASSUME NEW player \in Players, AlarmTyped(player) PROVE Inv'
  <2>1. OwnedBy(player) \in SUBSET Tasks
    BY DEF OwnedBy
  <2>2. /\ halt_que(OwnedBy(player), money, semaphore)
        /\ halted' = halted \cup {player}
        /\ UNCHANGED <<m_Ticket, m_minPriority, owner, gratis, going, garbage, drift, running>>
    BY <1>10 DEF AlarmTyped
  <2>3. halted' \subseteq Objects
    BY <2>2 DEF Inv, ObjectInv, Objects
  <2>. QED
    BY <2>1, <2>2, <2>3, HaltInv
<1>8. CASE Tick
  BY <1>8, TickInv
<1>9. CASE UNCHANGED vars
  BY <1>5, <1>9 DEF vars, Inv, ObjectInv
<1>. QED
  BY <1>1, <1>2, <1>3, <1>4, <1>6, <1>7, <1>8, <1>9, <1>10 DEF Next, Dequeue

(* The inductive invariant holds of every reachable state. *)
THEOREM Invariant == Spec => []Inv
BY InitInv, NextInv, PTL DEF Spec

(* For any number of semaphores, waits, timeouts, notifications, halts,    *)
(* chowns and destructions: variables keep their types; as long as no task *)
(* outlives half the ticket space, no two queued tasks, in either heap,    *)
(* ever bear the same ticket; and a semaphore counts at least its waiters, *)
(* so that nfy_que never skips one.                                        *)
THEOREM QueueIsSound == Spec => []QueueSound
<1>1. Inv => QueueSound
  BY InvParts DEF QueueSound
<1>. QED
  BY <1>1, Invariant, PTL

-----------------------------------------------------------------------------
(* The order in which waiters are notified.                                *)

(* The rest of a difference of two tickets. *)
LEMMA DifferenceMod ==
  ASSUME NEW M \in Nat \ {0}, NEW a \in 0 .. M - 1, NEW b \in 0 .. M - 1
  PROVE  (a - b) % M = IF a >= b THEN a - b ELSE a - b + M
OBVIOUS

LEMMA SuccessorMod ==
  ASSUME NEW M \in Nat \ {0}, NEW a \in 0 .. M - 1
  PROVE  (a + 1) % M = IF a = M - 1 THEN 0 ELSE a + 1
OBVIOUS

LEMMA NextDifference ==
  ASSUME NEW M \in Nat \ {0}, NEW a \in 0 .. M - 1, NEW b \in 0 .. M - 1
  PROVE  (((a + 1) % M) - b) % M = IF (a - b) % M < M - 1 THEN ((a - b) % M) + 1 ELSE 0
<1>. DEFINE c == (a + 1) % M
<1>1. c = IF a = M - 1 THEN 0 ELSE a + 1
  BY SuccessorMod
<1>2. c \in 0 .. M - 1
  BY <1>1
<1>. HIDE DEF c
<1>3. (c - b) % M = IF c >= b THEN c - b ELSE c - b + M
  BY <1>2, DifferenceMod
<1>4. (a - b) % M = IF a >= b THEN a - b ELSE a - b + M
  BY DifferenceMod
<1>5. (c - b) % M = IF (a - b) % M < M - 1 THEN ((a - b) % M) + 1 ELSE 0
  BY <1>1, <1>3, <1>4
<1>. QED
  BY <1>5 DEF c

(* Of two tickets at most half the space old, the signed difference tells  *)
(* which is older, across a rollover too.                                  *)
LEMMA SignedDifference ==
  ASSUME NEW M \in Nat \ {0}, NEW m \in 0 .. M - 1, NEW a \in 0 .. M - 1, NEW b \in 0 .. M - 1,
         (m - a) % M \in 1 .. M \div 2, (m - b) % M \in 1 .. M \div 2,
         (a - b) % M >= (M + 1) \div 2
  PROVE  (m - b) % M < (m - a) % M
<1>1. /\ (m - a) % M = IF m >= a THEN m - a ELSE m - a + M
      /\ (m - b) % M = IF m >= b THEN m - b ELSE m - b + M
      /\ (a - b) % M = IF a >= b THEN a - b ELSE a - b + M
  BY DifferenceMod
<1>2. 2 * (M \div 2) <= M /\ 2 * ((M + 1) \div 2) >= M /\ M \div 2 \in Nat /\ (M + 1) \div 2 \in Nat
  OBVIOUS
<1>. QED
  BY <1>1, <1>2

(* No task is older than half the ticket space; what waits untimed in the  *)
(* when-heap is younger than whatever is in the priority heap, since       *)
(* ReadyTasks moves all of it; and waiters without a timeout are due at    *)
(* once but suspended, all alike.                                          *)
AgeAt(m, t) == (m - t.m_Ticket) % TicketMod

Patient(t) == t.fpTask = "Task_SemaphoreTimeout" /\ ~t.arg.IsTimed

Queued(W, P, m) ==
  /\ \A t \in W \cup P : AgeAt(m, t) \in 1 .. TicketMod \div 2
  /\ \A u \in W, t \in P : u.ltaWhen = Immediately => AgeAt(m, u) < AgeAt(m, t)
  /\ \A t \in W \cup P : Patient(t) => t.ltaWhen = Immediately /\ t.iPriority = PRIORITY_SUSPEND

OrderInv == Inv /\ Queued(m_WhenHeap, m_PriorityHeap, m_Ticket)

InOrder ==
  \A s \in Semaphores : \A t, u \in TasksWaiting(s) :
    ~t.arg.IsTimed /\ ~u.arg.IsTimed /\ Age(u) > Age(t) /\ WasNotified(t) => WasNotified(u)

NoneNotified == \A t \in Tasks : ~WasNotified(t)

(* What a step does to the order, and to the waiters. *)
Keeps == Queued(m_WhenHeap, m_PriorityHeap, m_Ticket)' /\ InOrder

LEMMA NoneInOrder ==
  ASSUME NoneNotified PROVE InOrder
BY DEF NoneNotified, InOrder, TasksWaiting

LEMMA OrderedTasks ==
  ASSUME OrderInv
  PROVE  /\ m_WhenHeap \subseteq TaskType /\ m_PriorityHeap \subseteq TaskType
         /\ Tasks \in SUBSET TaskType /\ UniqueIn(Tasks) /\ m_Ticket \in 0 .. TicketMod - 1
         /\ Queued(m_WhenHeap, m_PriorityHeap, m_Ticket)
BY HeapFacts DEF OrderInv, Inv, HeapInv, ObjectInv

LEMMA FewerQueued ==
  ASSUME OrderInv, m_WhenHeap' \subseteq m_WhenHeap, m_PriorityHeap' \subseteq m_PriorityHeap,
         m_Ticket' = m_Ticket
  PROVE  Keeps
<1>1. Queued(m_WhenHeap', m_PriorityHeap', m_Ticket')
  BY DEF OrderInv, Queued
<1>2. NoneNotified
  BY OrderedTasks DEF NoneNotified, WasNotified, Tasks, UniqueIn
<1>. QED
  BY <1>1, <1>2, NoneInOrder DEF Keeps, Queued, AgeAt, Patient

(* u is what became of t. *)
Rewrites(u, t) ==
  /\ u.m_Ticket = t.m_Ticket
  /\ u.ltaWhen = Immediately => t.ltaWhen = Immediately
  /\ Patient(u) => Patient(t) /\ u.iPriority = t.iPriority
                              /\ (t.ltaWhen = Immediately => u.ltaWhen = Immediately)

LEMMA RewrittenQueued ==
  ASSUME OrderInv, m_Ticket' = m_Ticket,
         \A u \in m_WhenHeap' : \E t \in m_WhenHeap : Rewrites(u, t),
         \A u \in m_PriorityHeap' : \E t \in m_PriorityHeap : Rewrites(u, t)
  PROVE  Queued(m_WhenHeap, m_PriorityHeap, m_Ticket)'
<1>. DEFINE m == m_Ticket
            V == m_WhenHeap'
            Q == m_PriorityHeap'
<1>1. Queued(m_WhenHeap, m_PriorityHeap, m)
  BY DEF OrderInv
<1>2. \A u, t : Rewrites(u, t) => AgeAt(m, u) = AgeAt(m, t)
  BY DEF Rewrites, AgeAt
<1>3. \A u \in V \cup Q : \E t \in m_WhenHeap \cup m_PriorityHeap : Rewrites(u, t)
  OBVIOUS
<1>4. \A u \in V \cup Q : AgeAt(m, u) \in 1 .. TicketMod \div 2
  BY <1>1, <1>2, <1>3 DEF Queued
<1>5. ASSUME NEW u \in V, NEW t \in Q, u.ltaWhen = Immediately
      PROVE  AgeAt(m, u) < AgeAt(m, t)
  <2>1. PICK v \in m_WhenHeap : Rewrites(u, v)
    OBVIOUS
  <2>2. PICK w \in m_PriorityHeap : Rewrites(t, w)
    OBVIOUS
  <2>3. AgeAt(m, v) < AgeAt(m, w)
    BY <1>1, <1>5, <2>1 DEF Queued, Rewrites
  <2>. QED
    BY <1>2, <2>1, <2>2, <2>3
<1>6. \A u \in V \cup Q : Patient(u) => u.ltaWhen = Immediately /\ u.iPriority = PRIORITY_SUSPEND
  BY <1>1, <1>3 DEF Queued, Rewrites
<1>7. Queued(V, Q, m)
  BY <1>4, <1>5, <1>6 DEF Queued
<1>. QED
  BY <1>7 DEF Queued, AgeAt, Patient

(* Neither time nor @timewarp notifies. *)
LEMMA MovedQueued ==
  ASSUME OrderInv, m_Ticket' = m_Ticket,
         \A u \in m_WhenHeap' : \E t \in m_WhenHeap : Rewrites(u, t) /\ u.fpTask = t.fpTask,
         \A u \in m_PriorityHeap' : \E t \in m_PriorityHeap : Rewrites(u, t) /\ u.fpTask = t.fpTask
  PROVE  Keeps
<1>1. Queued(m_WhenHeap, m_PriorityHeap, m_Ticket)'
  BY RewrittenQueued
<1>2. NoneNotified
  <2>1. \A u \in Tasks' : \E t \in Tasks : u.m_Ticket = t.m_Ticket /\ u.fpTask = t.fpTask
    BY DEF Tasks, Rewrites
  <2>. QED
    BY <2>1, OrderedTasks DEF NoneNotified, WasNotified, UniqueIn
<1>. QED
  BY <1>1, <1>2, NoneInOrder DEF Keeps

(* A new task: the others grow a ticket older, and it is the youngest.     *)
LEMMA AddedQueued ==
  ASSUME OrderInv, TicketFree(0), NEW n \in TaskType, n.m_Ticket = m_Ticket,
         Patient(n) => n.ltaWhen = Immediately /\ n.iPriority = PRIORITY_SUSPEND,
         m_WhenHeap' = m_WhenHeap \cup {n}, m_PriorityHeap' = m_PriorityHeap, TicketTaken
  PROVE  Keeps
<1>. DEFINE m == m_Ticket
            k == (m_Ticket + 1) % TicketMod
            W == m_WhenHeap
            P == m_PriorityHeap
<1>0. /\ TicketMod \in Nat /\ TicketMod > 3 /\ TicketMod \div 2 \in Nat
      /\ TicketMod \div 2 >= 1 /\ TicketMod \div 2 < TicketMod
      /\ m \in 0 .. TicketMod - 1 /\ Queued(W, P, m) /\ TicketMod \in Nat \ {0}
  BY OrderedTasks, TicketAssumption
<1>1. \A t \in W \cup P : AgeAt(m, t) \in 1 .. TicketMod \div 2 - 1
  BY <1>0 DEF TicketFree, AgeAt, Tasks
<1>2. ASSUME NEW t \in W \cup P PROVE AgeAt(k, t) = AgeAt(m, t) + 1
  <2>1. t.m_Ticket \in 0 .. TicketMod - 1
    BY OrderedTasks, TaskFields
  <2>2. AgeAt(m, t) < TicketMod - 1
    BY <1>0, <1>1
  <2>. QED
    BY <1>0, <2>1, <2>2, NextDifference DEF AgeAt
<1>3. AgeAt(k, n) = 1
  <2>1. (m - m) % TicketMod = 0
    BY <1>0
  <2>. QED
    BY <1>0, <2>1, NextDifference DEF AgeAt
<1>. HIDE DEF k, W, P
<1>4. Queued(W \cup {n}, P, k)
  <2>1. \A t \in W \cup {n} \cup P : AgeAt(k, t) \in 1 .. TicketMod \div 2
    BY <1>0, <1>1, <1>2, <1>3
  <2>2. \A u \in W \cup {n}, t \in P : u.ltaWhen = Immediately => AgeAt(k, u) < AgeAt(k, t)
    <3>. SUFFICES ASSUME NEW u \in W \cup {n}, NEW t \in P, u.ltaWhen = Immediately
                  PROVE  AgeAt(k, u) < AgeAt(k, t)
      OBVIOUS
    <3>1. AgeAt(m, t) \in Nat /\ AgeAt(m, t) >= 1 /\ AgeAt(k, t) = AgeAt(m, t) + 1
      BY <1>0, <1>1, <1>2
    <3>2. CASE u \in W
      <4>1. AgeAt(m, u) < AgeAt(m, t) /\ AgeAt(m, u) \in Nat /\ AgeAt(k, u) = AgeAt(m, u) + 1
        BY <1>0, <1>1, <1>2, <3>2 DEF Queued
      <4>. QED
        BY <3>1, <4>1
    <3>3. CASE u = n
      BY <1>3, <3>1, <3>3
    <3>. QED
      BY <3>2, <3>3
  <2>3. \A t \in W \cup {n} \cup P : Patient(t) => t.ltaWhen = Immediately /\ t.iPriority = PRIORITY_SUSPEND
    BY <1>0 DEF Queued
  <2>. QED
    BY <2>1, <2>2, <2>3 DEF Queued
<1>5. Queued(m_WhenHeap, m_PriorityHeap, m_Ticket)'
  BY <1>4 DEF W, P, k, Queued, AgeAt, Patient, TicketTaken
<1>6. NoneNotified
  <2>1. \A t \in Tasks : t.m_Ticket # n.m_Ticket
    BY FreshTicket DEF OrderInv, Inv
  <2>2. Tasks' = Tasks \cup {n}
    BY DEF Tasks
  <2>. QED
    BY <2>1, <2>2, OrderedTasks DEF NoneNotified, WasNotified, UniqueIn
<1>. QED
  BY <1>5, <1>6, NoneInOrder DEF Keeps

(* A command put into the queue, or not. *)
LEMMA WaitQueOrder ==
  ASSUME OrderInv, NEW x, NEW n \in TaskType, n.m_Ticket = m_Ticket,
         Patient(n) => n.ltaWhen = Immediately /\ n.iPriority = PRIORITY_SUSPEND,
         NEW counts, wait_que(x, {n}, counts)
  PROVE  Keeps
<1>1. CASE UNCHANGED schedulerVars
  BY <1>1, FewerQueued DEF schedulerVars
<1>2. ASSUME NEW gone, NEW purses, halt_que(gone, purses, counts), UNCHANGED m_Ticket
      PROVE  Keeps
  BY <1>2, FewerQueued DEF halt_que
<1>3. CASE /\ TicketFree(0) /\ m_WhenHeap' = m_WhenHeap \cup {n}
           /\ TicketTaken /\ UNCHANGED m_PriorityHeap
  BY <1>3, AddedQueued
<1>. QED
  BY <1>1, <1>2, <1>3 DEF wait_que

LEMMA QueueNowOrder ==
  ASSUME OrderInv, NEW x, NEW e \in Objects, NEW victim \in Objects, QueueNow(x, e, victim)
  PROVE  Keeps
<1>. DEFINE n == TaskRecord(Immediately, Priority(e), "Task_RunQueueEntry",
                            BQUE(victim, e, FALSE, NoSemaphore))
<1>1. n \in TaskType /\ n.m_Ticket = m_Ticket /\ ~Patient(n)
  BY PriorityType
  DEF Immediately, OrderInv, Inv, ObjectInv, TaskRecord, BQUE, TaskType, EntryType, Patient
<1>2. wait_que(victim, {n}, semaphore)
  BY DEF QueueNow, DeferImmediateTask
<1>. HIDE DEF n
<1>. QED
  BY <1>1, <1>2, WaitQueOrder

LEMMA WaitTimedOrder ==
  ASSUME OrderInv, NEW x \in Objects, NEW e \in Objects, NEW delay \in Delays,
         WaitTimed(x, e, delay)
  PROVE  Keeps
<1>. DEFINE n == TaskRecord(Now + delay, Priority(e), "Task_RunQueueEntry",
                            BQUE(x, e, TRUE, NoSemaphore))
<1>1. Now + delay \in Nat
  BY NowAssumption, QueueAssumption
<1>2. n \in TaskType /\ n.m_Ticket = m_Ticket /\ ~Patient(n)
  BY <1>1, PriorityType
  DEF OrderInv, Inv, ObjectInv, TaskRecord, BQUE, TaskType, EntryType, Patient
<1>3. wait_que(x, {n}, semaphore)
  BY DEF WaitTimed, DeferTask
<1>. HIDE DEF n
<1>. QED
  BY <1>2, <1>3, WaitQueOrder

(* Only a @wait without a timeout makes a patient task. *)
LEMMA WaitSemaphoreOrder ==
  ASSUME OrderInv, NEW x \in Objects, NEW e \in Objects, NEW s \in Semaphores,
         WaitSemaphore(x, e, s)
  PROVE  Keeps
<1>. DEFINE now == TaskRecord(Immediately, Priority(e), "Task_RunQueueEntry",
                              BQUE(x, e, FALSE, NoSemaphore))
            later == TaskRecord(Immediately, PRIORITY_SUSPEND, "Task_SemaphoreTimeout",
                                BQUE(x, e, FALSE, s))
<1>1. now \in TaskType /\ now.m_Ticket = m_Ticket /\ ~Patient(now)
  BY PriorityType
  DEF Immediately, OrderInv, Inv, ObjectInv, TaskRecord, BQUE, TaskType, EntryType, Patient
<1>2. /\ later \in TaskType /\ later.m_Ticket = m_Ticket
      /\ later.ltaWhen = Immediately /\ later.iPriority = PRIORITY_SUSPEND
  BY PriorityType
  DEF Immediately, OrderInv, Inv, ObjectInv, TaskRecord, BQUE, TaskType, EntryType
<1>3. wait_que(x, {now}, add_to(s, 1)) \/ wait_que(x, {later}, add_to(s, 1))
  BY DEF WaitSemaphore, DeferImmediateTask
<1>. HIDE DEF now, later
<1>. QED
  BY <1>1, <1>2, <1>3, WaitQueOrder

LEMMA WaitSemaphoreTimedOrder ==
  ASSUME OrderInv, NEW x \in Objects, NEW e \in Objects, NEW s \in Semaphores,
         NEW delay \in Delays, WaitSemaphoreTimed(x, e, s, delay)
  PROVE  Keeps
<1>. DEFINE now == TaskRecord(Immediately, Priority(e), "Task_RunQueueEntry",
                              BQUE(x, e, FALSE, NoSemaphore))
            later == TaskRecord(Now + delay, Priority(e), "Task_SemaphoreTimeout",
                                BQUE(x, e, TRUE, s))
<1>1. now \in TaskType /\ now.m_Ticket = m_Ticket /\ ~Patient(now)
  BY PriorityType
  DEF Immediately, OrderInv, Inv, ObjectInv, TaskRecord, BQUE, TaskType, EntryType, Patient
<1>2. Now + delay \in Nat
  BY NowAssumption, QueueAssumption
<1>3. later \in TaskType /\ later.m_Ticket = m_Ticket /\ ~Patient(later)
  BY <1>2, PriorityType
  DEF OrderInv, Inv, ObjectInv, TaskRecord, BQUE, TaskType, EntryType, Patient
<1>4. wait_que(x, {now}, add_to(s, 1)) \/ wait_que(x, {later}, add_to(s, 1))
  BY DEF WaitSemaphoreTimed, DeferImmediateTask, DeferTask
<1>. HIDE DEF now, later
<1>. QED
  BY <1>1, <1>3, <1>4, WaitQueOrder

(* The clock moves no time to Immediately, nor away from it; @timewarp     *)
(* moves only what is timed, and never to Immediately.                     *)
LEMMA TickOrder ==
  ASSUME OrderInv, Tick
  PROVE  Keeps
<1>1. ASSUME NEW t \in TaskType
      PROVE  Rewrites(AgedTask(t), t) /\ AgedTask(t).fpTask = t.fpTask
  BY DEF TaskType, AgedTask, Aged, Rewrites, Patient, Immediately
<1>2. /\ m_WhenHeap' = {AgedTask(t) : t \in m_WhenHeap}
      /\ m_PriorityHeap' = {AgedTask(t) : t \in m_PriorityHeap} /\ m_Ticket' = m_Ticket
  BY DEF Tick, SchedulerTick, AgedHeap
<1>3. m_WhenHeap \subseteq TaskType /\ m_PriorityHeap \subseteq TaskType
  BY OrderedTasks
<1>4. \A u \in m_WhenHeap' : \E t \in m_WhenHeap : Rewrites(u, t) /\ u.fpTask = t.fpTask
  BY <1>1, <1>2, <1>3
<1>5. \A u \in m_PriorityHeap' : \E t \in m_PriorityHeap : Rewrites(u, t) /\ u.fpTask = t.fpTask
  BY <1>1, <1>2, <1>3
<1>. QED
  BY <1>2, <1>4, <1>5, MovedQueued

LEMMA WarpOrder ==
  ASSUME OrderInv, NEW x, NEW e, NEW warp \in Warps, CallBack_Warp(x, e, warp)
  PROVE  Keeps
<1>1. ASSUME NEW t \in TaskType
      PROVE  Rewrites(Warped(t, warp), t) /\ Warped(t, warp).fpTask = t.fpTask
  <2>1. (IF t.ltaWhen - warp < 1 THEN 1 ELSE t.ltaWhen - warp) \in Nat \ {0}
    BY TaskFields, QueueAssumption
  <2>2. CASE t.arg.IsTimed
    <3>. DEFINE w == IF t.ltaWhen - warp < 1 THEN 1 ELSE t.ltaWhen - warp
    <3>1. Warped(t, warp) = [t EXCEPT !.ltaWhen = w] /\ w # Immediately
      BY <2>1, <2>2 DEF Warped, Immediately
    <3>. HIDE DEF w
    <3>. QED
      BY <2>2, <3>1 DEF TaskType, Rewrites, Patient
  <2>3. CASE ~t.arg.IsTimed
    BY <2>3 DEF Warped, Rewrites
  <2>. QED
    BY <2>2, <2>3
<1>2. /\ m_WhenHeap' = {Warped(t, warp) : t \in m_WhenHeap}
      /\ m_PriorityHeap' = {Warped(t, warp) : t \in m_PriorityHeap} /\ m_Ticket' = m_Ticket
  BY DEF CallBack_Warp, WarpedHeap
<1>3. m_WhenHeap \subseteq TaskType /\ m_PriorityHeap \subseteq TaskType
  BY OrderedTasks
<1>4. \A u \in m_WhenHeap' : \E t \in m_WhenHeap : Rewrites(u, t) /\ u.fpTask = t.fpTask
  BY <1>1, <1>2, <1>3
<1>5. \A u \in m_PriorityHeap' : \E t \in m_PriorityHeap : Rewrites(u, t) /\ u.fpTask = t.fpTask
  BY <1>1, <1>2, <1>3
<1>. QED
  BY <1>2, <1>4, <1>5, MovedQueued

(* ReadyTasks leaves nothing untimed in the when-heap. *)
LEMMA ReadyOrder ==
  ASSUME OrderInv, Ready
  PROVE  Keeps
<1>1. /\ m_WhenHeap' = m_WhenHeap \ Due
      /\ m_PriorityHeap' = m_PriorityHeap \cup {t \in Due : t.fpTask # NoTask}
      /\ m_Ticket' = m_Ticket
  BY DEF Ready, ReadyTasks, ReadiedWhenHeap, ReadiedPriorityHeap
<1>2. \A u \in m_WhenHeap' : u.ltaWhen # Immediately
  BY <1>1, NowAssumption DEF Due, Immediately
<1>3. Tasks' \subseteq Tasks
  BY <1>1 DEF Tasks, Due
<1>4. Queued(m_WhenHeap', m_PriorityHeap', m_Ticket)
  BY <1>2, <1>3 DEF OrderInv, Queued, Tasks
<1>5. NoneNotified
  BY <1>3, OrderedTasks DEF NoneNotified, WasNotified, UniqueIn
<1>. QED
  BY <1>1, <1>4, <1>5, NoneInOrder DEF Keeps, Queued, AgeAt, Patient

(* The traversal comes to the older of two patient waiters first, whether  *)
(* they are in one heap or in both.                                        *)
LEMMA OlderVisitedFirst ==
  ASSUME OrderInv, NEW t \in Tasks, NEW u \in Tasks, Patient(t), Patient(u), VisitedBefore(t, u)
  PROVE  ~(Age(u) > Age(t))
<1>1. /\ TicketMod \in Nat \ {0} /\ m_Ticket \in 0 .. TicketMod - 1
      /\ t.m_Ticket \in 0 .. TicketMod - 1 /\ u.m_Ticket \in 0 .. TicketMod - 1
      /\ Queued(m_WhenHeap, m_PriorityHeap, m_Ticket)
  BY OrderedTasks, TaskFields, TicketAssumption
<1>2. Age(t) = AgeAt(m_Ticket, t) /\ Age(u) = AgeAt(m_Ticket, u)
  BY DEF Age, AgeAt
<1>3. /\ AgeAt(m_Ticket, t) \in 1 .. TicketMod \div 2 /\ AgeAt(m_Ticket, u) \in 1 .. TicketMod \div 2
      /\ t.ltaWhen = Immediately /\ t.iPriority = PRIORITY_SUSPEND
      /\ u.ltaWhen = Immediately /\ u.iPriority = PRIORITY_SUSPEND
  BY <1>1 DEF Queued, Tasks
<1>4. CASE t \in m_PriorityHeap /\ u \in m_WhenHeap
  <2>1. AgeAt(m_Ticket, u) < AgeAt(m_Ticket, t)
    BY <1>1, <1>3, <1>4 DEF Queued
  <2>. QED
    BY <1>1, <1>2, <1>3, <2>1
<1>5. CASE TicketBefore(t.m_Ticket, u.m_Ticket)
  <2>1. AgeAt(m_Ticket, u) < AgeAt(m_Ticket, t)
    BY <1>1, <1>3, <1>5, SignedDifference DEF TicketBefore, AgeAt
  <2>. QED
    BY <1>1, <1>2, <1>3, <2>1
<1>. QED
  BY <1>3, <1>4, <1>5 DEF VisitedBefore, ComparePriority, CompareWhen, Immediately, PRIORITY_SUSPEND

(* nfy_que notifies those it chose, and no others. *)
LEMMA ChosenNotified ==
  ASSUME OrderInv, NEW s, NEW chosen, NotifyWaiters(s, chosen), NEW t \in Tasks
  PROVE  WasNotified(t) <=> IsWaiter(t, s) /\ t.m_Ticket \in chosen
<1>1. Tasks \in SUBSET TaskType /\ UniqueIn(Tasks)
  BY OrderedTasks
<1>2. Tasks' = {AfterNotify(u, s, chosen) : u \in Tasks}
  BY DEF NotifyWaiters, NotifiedIn, Tasks
<1>3. ASSUME NEW u \in Tasks
      PROVE  /\ AfterNotify(u, s, chosen).m_Ticket = u.m_Ticket
             /\ AfterNotify(u, s, chosen).fpTask # u.fpTask
                  <=> IsWaiter(u, s) /\ u.m_Ticket \in chosen
  BY <1>1 DEF AfterNotify, Notified, IsWaiter, TaskType
<1>4. ASSUME WasNotified(t) PROVE IsWaiter(t, s) /\ t.m_Ticket \in chosen
  <2>1. PICK v \in Tasks' : v.m_Ticket = t.m_Ticket /\ t.fpTask # v.fpTask
    BY <1>4 DEF WasNotified
  <2>2. PICK w \in Tasks : v = AfterNotify(w, s, chosen)
    BY <1>2
  <2>3. w = t
    BY <1>1, <1>3, <2>1, <2>2 DEF UniqueIn
  <2>. QED
    BY <1>3, <2>1, <2>2, <2>3
<1>5. ASSUME IsWaiter(t, s), t.m_Ticket \in chosen PROVE WasNotified(t)
  BY <1>2, <1>3, <1>5 DEF WasNotified
<1>. QED
  BY <1>4, <1>5

LEMMA NotifyWaitersOrder ==
  ASSUME OrderInv, NEW s, NEW chosen, NotifyWaiters(s, chosen),
         \A t, u \in TasksWaiting(s) :
           t.m_Ticket \in chosen /\ u.m_Ticket \notin chosen => VisitedBefore(t, u)
  PROVE  Keeps
<1>1. ASSUME NEW t \in TaskType PROVE Rewrites(AfterNotify(t, s, chosen), t)
  BY NowAssumption DEF AfterNotify, Notified, Rewrites, Patient, TaskType, Immediately
<1>2. /\ m_WhenHeap' = {AfterNotify(t, s, chosen) : t \in m_WhenHeap}
      /\ m_PriorityHeap' = {AfterNotify(t, s, chosen) : t \in m_PriorityHeap}
      /\ m_Ticket' = m_Ticket
  BY DEF NotifyWaiters, NotifiedIn
<1>3. m_WhenHeap \subseteq TaskType /\ m_PriorityHeap \subseteq TaskType
  BY OrderedTasks
<1>4. \A u \in m_WhenHeap' : \E t \in m_WhenHeap : Rewrites(u, t)
  BY <1>1, <1>2, <1>3
<1>5. \A u \in m_PriorityHeap' : \E t \in m_PriorityHeap : Rewrites(u, t)
  BY <1>1, <1>2, <1>3
<1>6. Queued(m_WhenHeap, m_PriorityHeap, m_Ticket)'
  BY <1>2, <1>4, <1>5, RewrittenQueued
<1>7. ASSUME NEW r \in Semaphores, NEW t \in TasksWaiting(r), NEW u \in TasksWaiting(r),
             ~t.arg.IsTimed, ~u.arg.IsTimed, Age(u) > Age(t), WasNotified(t)
      PROVE  WasNotified(u)
  <2>1. t \in Tasks /\ u \in Tasks /\ Patient(t) /\ Patient(u)
    BY <1>7 DEF TasksWaiting, IsWaiter, Patient
  <2>2. IsWaiter(t, s) /\ t.m_Ticket \in chosen
    BY <1>7, <2>1, ChosenNotified
  <2>3. IsWaiter(u, s) /\ t \in TasksWaiting(s) /\ u \in TasksWaiting(s)
    BY <2>1, <2>2 DEF IsWaiter, TasksWaiting
  <2>4. u.m_Ticket \in chosen
    BY <1>7, <2>1, <2>2, <2>3, OlderVisitedFirst
  <2>. QED
    BY <2>1, <2>3, <2>4, ChosenNotified
<1>8. InOrder
  BY <1>7 DEF InOrder
<1>. QED
  BY <1>6, <1>8 DEF Keeps

LEMMA NotifyOrder ==
  ASSUME OrderInv, NEW x, NEW e, NEW s, NEW count, Notify(x, e, s, count)
  PROVE  Keeps
<1>1. CASE semaphore[s] > 0
  <2>1. PICK first \in SUBSET Waiters(s) : AreFirstWaiters(first, s, count) /\ NotifyWaiters(s, first)
    BY <1>1 DEF Notify
  <2>. QED
    BY <2>1, NotifyWaitersOrder DEF AreFirstWaiters
<1>2. CASE ~(semaphore[s] > 0)
  BY <1>2, FewerQueued DEF Notify, schedulerVars
<1>. QED
  BY <1>1, <1>2

LEMMA NotifyAllOrder ==
  ASSUME OrderInv, NEW x, NEW e, NEW s, NotifyAll(x, e, s)
  PROVE  Keeps
<1>1. CASE semaphore[s] > 0
  <2>1. NotifyWaiters(s, Waiters(s))
    BY <1>1 DEF NotifyAll
  <2>2. \A u \in TasksWaiting(s) : u.m_Ticket \in Waiters(s)
    BY DEF TasksWaiting, Waiters, WaitersIn
  <2>. QED
    BY <2>1, <2>2, NotifyWaitersOrder
<1>2. CASE ~(semaphore[s] > 0)
  BY <1>2, FewerQueued DEF NotifyAll, schedulerVars
<1>. QED
  BY <1>1, <1>2

(* What only takes tasks away, or touches none. *)
LEMMA RemovalOrder ==
  ASSUME OrderInv, m_Ticket' = m_Ticket,
         \E gone, purses, counts :
           halt_que(gone, purses, counts) \/ \E back : Discard(gone, back, purses, counts)
  PROVE  Keeps
BY FewerQueued DEF halt_que, Discard

LEMMA CommandOrder ==
  ASSUME OrderInv, NEW x \in Objects, NEW e \in Objects, Command(x, e)
  PROVE  Keeps
<1>1. ASSUME NEW victim \in Objects, QueueNow(x, e, victim) PROVE Keeps
  BY <1>1, QueueNowOrder
<1>2. ASSUME NEW delay \in Delays, WaitTimed(x, e, delay) PROVE Keeps
  BY <1>2, WaitTimedOrder
<1>3. ASSUME NEW s \in Semaphores, WaitSemaphore(x, e, s) PROVE Keeps
  BY <1>3, WaitSemaphoreOrder
<1>4. ASSUME NEW s \in Semaphores, NEW delay \in Delays, WaitSemaphoreTimed(x, e, s, delay)
      PROVE  Keeps
  BY <1>4, WaitSemaphoreTimedOrder
<1>5. ASSUME NEW s \in Semaphores, NEW count \in Counts, Notify(x, e, s, count) PROVE Keeps
  BY <1>5, NotifyOrder
<1>6. ASSUME NEW s \in Semaphores, NotifyAll(x, e, s) PROVE Keeps
  BY <1>6, NotifyAllOrder
<1>7. ASSUME NEW s \in Semaphores, Drain(x, e, s) PROVE Keeps
  BY <1>7, RemovalOrder DEF Drain
<1>8. ASSUME NEW target \in Objects, Halt(x, e, target) PROVE Keeps
  BY <1>8, RemovalOrder DEF Halt
<1>9. ASSUME HaltAll(x, e) PROVE Keeps
  BY <1>9, RemovalOrder DEF HaltAll
<1>10. ASSUME NEW target \in Objects, SetHalted(x, e, target) PROVE Keeps
  BY <1>10, FewerQueued DEF SetHalted, schedulerVars
<1>11. ASSUME NEW warp \in Warps, CallBack_Warp(x, e, warp) PROVE Keeps
  BY <1>11, WarpOrder
<1>12. ASSUME SetMinPriority(x, e) PROVE Keeps
  BY <1>12, FewerQueued DEF SetMinPriority
<1>13. ASSUME NEW thing \in Things, NEW new \in Players, Chown(x, e, thing, new) PROVE Keeps
  BY <1>13, FewerQueued DEF Chown
<1>14. ASSUME NEW thing \in Things, Destroy(x, e, thing) PROVE Keeps
  BY <1>14, FewerQueued DEF Destroy, schedulerVars
<1>15. ASSUME NEW thing \in Things, DestroyInstant(x, e, thing) PROVE Keeps
  BY <1>15, RemovalOrder DEF DestroyInstant, destroy_obj
<1>16. ASSUME NEW thing \in Things, SetGratis(x, e, thing) PROVE Keeps
  BY <1>16, FewerQueued DEF SetGratis, schedulerVars
<1>. QED
  BY <1>1, <1>2, <1>3, <1>4, <1>5, <1>6, <1>7, <1>8, <1>9, <1>10, <1>11, <1>12, <1>13, <1>14,
     <1>15, <1>16
  DEF Command

LEMMA NextOrder == OrderInv /\ [Next]_vars => Keeps
<1>. SUFFICES ASSUME OrderInv, [Next]_vars PROVE Keeps
  OBVIOUS
<1>1. ASSUME NEW x \in Objects, NEW e \in Objects, Command(x, e) PROVE Keeps
  BY <1>1, CommandOrder
<1>2. ASSUME NEW thing \in Things, purge_going(thing) PROVE Keeps
  BY <1>2, RemovalOrder DEF purge_going, destroy_obj
<1>3. CASE Ready
  BY <1>3, ReadyOrder
<1>4. ASSUME NEW t \in m_PriorityHeap, RunEntry(t) PROVE Keeps
  BY <1>4, FewerQueued DEF RunEntry
<1>5. CASE EndEntry \/ UNCHANGED vars
  BY <1>5, FewerQueued DEF EndEntry, vars, schedulerVars
<1>6. CASE Alarm
  BY <1>6, RemovalOrder DEF Alarm
<1>7. ASSUME NEW player \in Players, AlarmTyped(player) PROVE Keeps
  BY <1>7, RemovalOrder DEF AlarmTyped
<1>8. CASE Tick
  BY <1>8, TickOrder
<1>. QED
  BY <1>1, <1>2, <1>3, <1>4, <1>5, <1>6, <1>7, <1>8 DEF Next, Dequeue

LEMMA InitOrder == Init => OrderInv
BY InitInv DEF Init, OrderInv, Queued

(* No task is older than half the ticket space, what waits untimed in the  *)
(* when-heap is younger than whatever is in the priority heap, and waiters *)
(* without a timeout are alike.                                            *)
THEOREM OrderInvariant == Spec => []OrderInv
<1>1. OrderInv /\ [Next]_vars => OrderInv'
  BY NextInv, NextOrder DEF OrderInv, Keeps
<1>. QED
  BY <1>1, InitOrder, PTL DEF Spec

(* Of two commands that wait on a semaphore without a timeout the one that *)
(* waited first is notified first, whichever heaps nfy_que's traversal     *)
(* finds them in, and although the tickets roll over.                      *)
THEOREM WaitersInOrder == Spec => NotifiedInOrder
<1>1. OrderInv /\ [Next]_vars => InOrder
  BY NextOrder DEF Keeps
<1>2. Spec => [][InOrder]_vars
  BY <1>1, OrderInvariant, PTL DEF Spec
<1>. QED
  BY <1>2 DEF NotifiedInOrder, InOrder

-----------------------------------------------------------------------------
(* Sums.  Every unit of a number is counted, those below zero too.         *)

LEMMA Apart ==
  ASSUME NEW S, IsFiniteSet(S), NEW T, IsFiniteSet(T), S \cap T = {}
  PROVE  /\ IsFiniteSet(S \cup T) /\ Cardinality(S \cup T) = Cardinality(S) + Cardinality(T)
         /\ Cardinality(S) \in Nat /\ Cardinality(T) \in Nat
<1>1. Cardinality(S \cap T) = 0
  BY FS_EmptySet
<1>2. Cardinality(S) \in Nat /\ Cardinality(T) \in Nat
  BY FS_CardinalityType
<1>3. IsFiniteSet(S \cup T)
      /\ Cardinality(S \cup T) = Cardinality(S) + Cardinality(T) - Cardinality(S \cap T)
  BY FS_Union
<1>. QED
  BY <1>1, <1>2, <1>3

Opposite(f) == [x \in DOMAIN f |-> -f[x]]

LEMMA OppositeType ==
  ASSUME NEW S, NEW f \in [S -> Int]
  PROVE  /\ Opposite(f) \in [S -> Int] /\ \A x \in S : Opposite(f)[x] = -f[x]
         /\ Sum(f) = Cardinality(Units(f)) - Cardinality(Units(Opposite(f)))
BY DEF Opposite, Sum, Total

LEMMA UnitOf ==
  ASSUME NEW S, NEW f \in [S -> Int], NEW u
  PROVE  u \in Units(f) <=> u = <<u[1], u[2]>> /\ u[1] \in S /\ u[2] \in 1 .. f[u[1]]
<1>1. DOMAIN f = S
  OBVIOUS
<1>2. u \in Units(f) <=> \E i \in S : u \in {i} \X (1 .. f[i])
  BY <1>1 DEF Units
<1>3. \A i : u \in {i} \X (1 .. f[i]) <=> u = <<u[1], u[2]>> /\ u[1] = i /\ u[2] \in 1 .. f[i]
  OBVIOUS
<1>. QED
  BY <1>2, <1>3

LEMMA UnitsAreFinite ==
  ASSUME NEW S, IsFiniteSet(S), NEW f \in [S -> Int]
  PROVE  IsFiniteSet(Units(f)) /\ Cardinality(Units(f)) \in Nat
<1>. DEFINE columns == {{i} \X (1 .. f[i]) : i \in DOMAIN f}
            c == [i \in S |-> {i} \X (1 .. f[i])]
<1>1. c \in Surjection(S, columns)
  BY DEF Surjection
<1>2. IsFiniteSet(columns)
  BY <1>1, FS_Surjection
<1>3. \A k \in columns : IsFiniteSet(k)
  <2>. SUFFICES ASSUME NEW i \in S PROVE IsFiniteSet({i} \X (1 .. f[i]))
    OBVIOUS
  <2>1. f[i] \in Int /\ 1 \in Int
    OBVIOUS
  <2>2. IsFiniteSet({i}) /\ IsFiniteSet(1 .. f[i])
    BY <2>1, FS_Singleton, FS_Interval
  <2>. QED
    BY <2>2, FS_Product
<1>4. IsFiniteSet(UNION columns)
  BY <1>2, <1>3, FS_UNION
<1>. QED
  BY <1>4, FS_CardinalityType DEF Units

(* What g has over f, each unit with its height. *)
Between(f, g) == {u \in (DOMAIN f) \X Int : f[u[1]] < u[2] /\ u[2] <= g[u[1]]}

(* The units above zero are new in g, those below are missing from what    *)
(* the opposite of g has.                                                  *)
LEMMA SumBetween ==
  ASSUME NEW S, IsFiniteSet(S), NEW f \in [S -> Int], NEW g \in [S -> Int],
         \A p \in S : f[p] <= g[p]
  PROVE  /\ IsFiniteSet(Between(f, g)) /\ Cardinality(Between(f, g)) \in Nat
         /\ Sum(f) \in Int /\ Sum(g) = Sum(f) + Cardinality(Between(f, g))
<1>. DEFINE B == Between(f, g)
            above == {u \in B : u[2] > 0}
            below == {u \in B : u[2] <= 0}
            nf == Opposite(f)
            ng == Opposite(g)
            lost == Units(nf) \ Units(ng)
<1>1. \A u : u \in B <=> u = <<u[1], u[2]>> /\ u[1] \in S /\ u[2] \in Int
                           /\ f[u[1]] < u[2] /\ u[2] <= g[u[1]]
  BY DEF Between
<1>2. /\ nf \in [S -> Int] /\ ng \in [S -> Int]
      /\ \A p \in S : nf[p] = -f[p] /\ ng[p] = -g[p]
  BY OppositeType
<1>3. /\ IsFiniteSet(Units(f)) /\ IsFiniteSet(Units(g))
      /\ IsFiniteSet(Units(nf)) /\ IsFiniteSet(Units(ng))
  BY <1>2, UnitsAreFinite
<1>. HIDE DEF B, nf, ng
<1>4. Cardinality(Units(g)) = Cardinality(Units(f)) + Cardinality(above) /\ IsFiniteSet(above)
  <2>1. \A u : u \in Units(g) <=> u \in Units(f) \/ u \in above
    <3>. TAKE u
    <3>1. /\ u \in Units(f) <=> u = <<u[1], u[2]>> /\ u[1] \in S /\ u[2] \in 1 .. f[u[1]]
          /\ u \in Units(g) <=> u = <<u[1], u[2]>> /\ u[1] \in S /\ u[2] \in 1 .. g[u[1]]
      BY UnitOf
    <3>2. u[1] \in S => f[u[1]] \in Int /\ g[u[1]] \in Int /\ f[u[1]] <= g[u[1]]
      OBVIOUS
    <3>. QED
      BY <1>1, <3>1, <3>2
  <2>2. Units(f) \cap above = {}
    BY <1>1, UnitOf
  <2>3. IsFiniteSet(above)
    BY <1>3, <2>1, FS_Subset
  <2>. QED
    BY <1>3, <2>1, <2>2, <2>3, Apart
<1>5. Cardinality(Units(nf)) = Cardinality(Units(ng)) + Cardinality(lost) /\ IsFiniteSet(lost)
  <2>1. Units(ng) \subseteq Units(nf)
    <3>. SUFFICES ASSUME NEW u \in Units(ng) PROVE u \in Units(nf)
      OBVIOUS
    <3>1. u = <<u[1], u[2]>> /\ u[1] \in S /\ u[2] \in 1 .. ng[u[1]]
      BY <1>2, UnitOf
    <3>2. ng[u[1]] <= nf[u[1]] /\ ng[u[1]] \in Int /\ nf[u[1]] \in Int
      BY <1>2, <3>1
    <3>3. u[2] \in 1 .. nf[u[1]]
      BY <3>1, <3>2
    <3>. QED
      BY <1>2, <3>1, <3>3, UnitOf
  <2>2. IsFiniteSet(lost)
    BY <1>3, FS_Subset
  <2>3. Units(ng) \cup lost = Units(nf) /\ Units(ng) \cap lost = {}
    BY <2>1
  <2>. HIDE DEF lost
  <2>. QED
    BY <1>3, <2>2, <2>3, Apart
<1>6. ExistsBijection(lost, below)
  <2>. DEFINE m == [u \in lost |-> <<u[1], 1 - u[2]>>]
  <2>1. \A u : u \in lost <=> /\ u = <<u[1], u[2]>> /\ u[1] \in S /\ u[2] \in Nat /\ u[2] > 0
                              /\ -g[u[1]] < u[2] /\ u[2] <= -f[u[1]]
    <3>. TAKE u
    <3>1. /\ u \in Units(nf) <=> u = <<u[1], u[2]>> /\ u[1] \in S /\ u[2] \in 1 .. nf[u[1]]
          /\ u \in Units(ng) <=> u = <<u[1], u[2]>> /\ u[1] \in S /\ u[2] \in 1 .. ng[u[1]]
      BY <1>2, UnitOf
    <3>2. u[1] \in S => /\ nf[u[1]] = -f[u[1]] /\ ng[u[1]] = -g[u[1]]
                        /\ f[u[1]] \in Int /\ g[u[1]] \in Int
      BY <1>2
    <3>. QED
      BY <3>1, <3>2
  <2>. HIDE DEF lost
  <2>2. m \in [lost -> below]
    <3>. SUFFICES ASSUME NEW u \in lost PROVE <<u[1], 1 - u[2]>> \in below
      OBVIOUS
    <3>1. /\ u[1] \in S /\ u[2] \in Nat /\ u[2] > 0 /\ -g[u[1]] < u[2] /\ u[2] <= -f[u[1]]
          /\ f[u[1]] \in Int /\ g[u[1]] \in Int
      BY <2>1
    <3>2. f[u[1]] < 1 - u[2] /\ 1 - u[2] <= g[u[1]] /\ 1 - u[2] \in Int /\ 1 - u[2] <= 0
      BY <3>1
    <3>. QED
      BY <1>1, <3>1, <3>2
  <2>3. \A u, v \in lost : m[u] = m[v] => u = v
    <3>. SUFFICES ASSUME NEW u \in lost, NEW v \in lost, m[u] = m[v] PROVE u = v
      OBVIOUS
    <3>1. u[1] = v[1] /\ 1 - u[2] = 1 - v[2]
      OBVIOUS
    <3>2. u[2] = v[2]
      BY <2>1, <3>1
    <3>. QED
      BY <2>1, <3>1, <3>2
  <2>4. \A v \in below : \E u \in lost : m[u] = v
    <3>. SUFFICES ASSUME NEW v \in below PROVE \E u \in lost : m[u] = v
      OBVIOUS
    <3>. DEFINE w == <<v[1], 1 - v[2]>>
    <3>1. /\ v = <<v[1], v[2]>> /\ v[1] \in S /\ v[2] \in Int /\ v[2] <= 0
          /\ f[v[1]] < v[2] /\ v[2] <= g[v[1]] /\ f[v[1]] \in Int /\ g[v[1]] \in Int
      BY <1>1
    <3>2. 1 - v[2] \in Nat /\ 1 - v[2] > 0 /\ -g[v[1]] < 1 - v[2] /\ 1 - v[2] <= -f[v[1]]
      BY <3>1
    <3>3. w \in lost
      BY <2>1, <3>1, <3>2
    <3>4. m[w] = <<v[1], 1 - (1 - v[2])>> /\ 1 - (1 - v[2]) = v[2]
      BY <3>1, <3>3
    <3>. QED
      BY <3>1, <3>3, <3>4
  <2>. HIDE DEF m, below
  <2>5. m \in Bijection(lost, below)
    BY <2>2, <2>3, <2>4, Fun_IsBij
  <2>. QED
    BY <2>5 DEF ExistsBijection
<1>7. IsFiniteSet(below) /\ Cardinality(below) = Cardinality(lost)
  BY <1>5, <1>6, FS_Bijection
<1>8. IsFiniteSet(B) /\ Cardinality(B) = Cardinality(above) + Cardinality(below)
      /\ Cardinality(above) \in Nat /\ Cardinality(below) \in Nat
  <2>1. above \cup below = B /\ above \cap below = {}
    BY <1>1
  <2>. HIDE DEF above, below
  <2>. QED
    BY <1>4, <1>7, <2>1, Apart
<1>9. /\ Cardinality(Units(f)) \in Nat /\ Cardinality(Units(g)) \in Nat
      /\ Cardinality(Units(nf)) \in Nat /\ Cardinality(Units(ng)) \in Nat
  BY <1>3, FS_CardinalityType
<1>10. /\ Sum(f) = Cardinality(Units(f)) - Cardinality(Units(nf))
       /\ Sum(g) = Cardinality(Units(g)) - Cardinality(Units(ng))
  BY OppositeType DEF nf, ng
<1>. HIDE DEF above, below, lost
<1>. QED
  BY <1>4, <1>5, <1>7, <1>8, <1>9, <1>10 DEF B

(* The things of D that h gives to p. *)
Share(D, h, p) == {d \in D : h[d] = p}

SharedOut(S, f, g, D, h) == \A p \in S : g[p] = f[p] + Cardinality(Share(D, h, p))

(* If g has over f what h gives to each, it has all of D over f. *)
LEMMA SumShares ==
  ASSUME NEW S, IsFiniteSet(S), NEW f \in [S -> Int], NEW g \in [S -> Int],
         NEW D, IsFiniteSet(D), NEW h \in [D -> S],
         SharedOut(S, f, g, D, h)
  PROVE  /\ Sum(f) \in Int /\ Sum(g) = Sum(f) + Cardinality(D)
         /\ Cardinality(D) \in Nat
<1>. DEFINE n(p) == Cardinality(Share(D, h, p))
            b == [p \in S |-> CHOOSE m : m \in Bijection(1 .. n(p), Share(D, h, p))]
            k == [u \in Between(f, g) |-> b[u[1]][u[2] - f[u[1]]]]
<1>1. ASSUME NEW p \in S
      PROVE  /\ n(p) \in Nat /\ b[p] \in Bijection(1 .. n(p), Share(D, h, p))
             /\ f[p] \in Int /\ g[p] = f[p] + n(p)
  <2>1. IsFiniteSet(Share(D, h, p))
    BY FS_Subset DEF Share
  <2>2. n(p) \in Nat /\ ExistsBijection(1 .. n(p), Share(D, h, p))
    BY <2>1, FS_CardinalityType
  <2>. QED
    BY <2>2 DEF ExistsBijection, SharedOut
<1>. HIDE DEF n, b
<1>2. ASSUME NEW p \in S
      PROVE  /\ b[p] \in [1 .. n(p) -> Share(D, h, p)]
             /\ \A i, j \in 1 .. n(p) : b[p][i] = b[p][j] => i = j
             /\ \A d \in Share(D, h, p) : \E i \in 1 .. n(p) : b[p][i] = d
  <2>. DEFINE I == 1 .. n(p)
              T == Share(D, h, p)
              m == b[p]
  <2>1. m \in Bijection(I, T)
    BY <1>1
  <2>. HIDE DEF I, T, m
  <2>2. /\ m \in [I -> T] /\ \A i, j \in I : m[i] = m[j] => i = j
        /\ \A d \in T : \E i \in I : m[i] = d
    BY <2>1, Fun_BijectionProperties
  <2>. QED
    BY <2>2 DEF I, T, m
<1>3. \A u : u \in Between(f, g) <=>
             /\ u = <<u[1], u[2]>> /\ u[1] \in S /\ u[2] \in Int
             /\ f[u[1]] < u[2] /\ u[2] <= g[u[1]]
  BY DEF Between
<1>4. ASSUME NEW u \in Between(f, g)
      PROVE  u[1] \in S /\ u[2] \in Int /\ u[2] - f[u[1]] \in 1 .. n(u[1])
             /\ k[u] \in D /\ h[k[u]] = u[1] /\ k[u] = b[u[1]][u[2] - f[u[1]]]
  <2>1. u[1] \in S /\ u[2] \in Int /\ f[u[1]] < u[2] /\ u[2] <= g[u[1]]
    BY <1>3
  <2>2. u[2] - f[u[1]] \in 1 .. n(u[1])
    BY <1>1, <2>1
  <2>3. b[u[1]][u[2] - f[u[1]]] \in Share(D, h, u[1])
    BY <1>2, <2>1, <2>2
  <2>. QED
    BY <2>1, <2>2, <2>3 DEF Share
<1>5. k \in [Between(f, g) -> D]
  BY <1>4
<1>. HIDE DEF k
<1>6. \A u, v \in Between(f, g) : k[u] = k[v] => u = v
  <2>. SUFFICES ASSUME NEW u \in Between(f, g), NEW v \in Between(f, g), k[u] = k[v]
                PROVE  u = v
    OBVIOUS
  <2>1. u[1] = v[1]
    BY <1>4
  <2>. DEFINE q == u[1]
              i == u[2] - f[u[1]]
              j == v[2] - f[v[1]]
  <2>0. q \in S /\ i \in 1 .. n(q) /\ j \in 1 .. n(q) /\ b[q][i] = b[q][j]
    BY <1>4, <2>1
  <2>. HIDE DEF q, i, j
  <2>5. i = j
    BY <1>2, <2>0
  <2>2. u[2] - f[u[1]] = v[2] - f[u[1]]
    BY <2>1, <2>5 DEF i, j
  <2>6. u[2] \in Int /\ v[2] \in Int /\ f[u[1]] \in Int
    BY <1>1, <1>4
  <2>3. u[2] = v[2]
    BY <2>2, <2>6
  <2>. QED
    BY <1>3, <2>1, <2>3
<1>7. \A d \in D : \E u \in Between(f, g) : k[u] = d
  <2>. SUFFICES ASSUME NEW d \in D PROVE \E u \in Between(f, g) : k[u] = d
    OBVIOUS
  <2>1. h[d] \in S /\ d \in Share(D, h, h[d])
    BY DEF Share
  <2>2. PICK i \in 1 .. n(h[d]) : b[h[d]][i] = d
    BY <1>2, <2>1
  <2>. DEFINE u == <<h[d], f[h[d]] + i>>
  <2>3. /\ f[h[d]] + i \in Int /\ f[h[d]] < f[h[d]] + i /\ f[h[d]] + i <= g[h[d]]
        /\ f[h[d]] + i - f[h[d]] = i
    BY <1>1, <2>1, <2>2
  <2>4. u \in Between(f, g)
    BY <1>3, <2>1, <2>3
  <2>5. k[u] = b[h[d]][f[h[d]] + i - f[h[d]]]
    BY <1>4, <2>4
  <2>. QED
    BY <2>2, <2>3, <2>4, <2>5
<1>8. k \in Bijection(Between(f, g), D)
  BY <1>5, <1>6, <1>7, Fun_IsBij
<1>9. \A p \in S : f[p] <= g[p]
  BY <1>1
<1>10. /\ IsFiniteSet(Between(f, g)) /\ Cardinality(Between(f, g)) \in Nat
       /\ Sum(f) \in Int /\ Sum(g) = Sum(f) + Cardinality(Between(f, g))
  BY <1>9, SumBetween
<1>11. Cardinality(D) = Cardinality(Between(f, g))
  BY <1>8, <1>10, FS_Bijection DEF ExistsBijection
<1>. QED
  BY <1>10, <1>11

(* Adding to one number adds to the sum. *)
RaisedBy(f, g, p, n) == g = [f EXCEPT ![p] = f[p] + n]

LEMMA SumMore ==
  ASSUME NEW S, IsFiniteSet(S), NEW f \in [S -> Int], NEW g \in [S -> Int],
         NEW p \in S, NEW n \in Nat, RaisedBy(f, g, p, n)
  PROVE  Sum(f) \in Int /\ Sum(g) = Sum(f) + n
<1>. DEFINE D == 1 .. n
            h == [d \in D |-> p]
<1>1. IsFiniteSet(D) /\ Cardinality(D) = n /\ h \in [D -> S]
  BY FS_Interval
<1>2. Share(D, h, p) = D /\ \A q \in S : q # p => Share(D, h, q) = {}
  BY DEF Share
<1>. HIDE DEF D, h
<1>3. SharedOut(S, f, g, D, h)
  <2>. SUFFICES ASSUME NEW q \in S PROVE g[q] = f[q] + Cardinality(Share(D, h, q))
    BY DEF SharedOut
  <2>1. CASE q = p
    BY <1>1, <1>2, <2>1 DEF RaisedBy
  <2>2. CASE q # p
    <3>1. Cardinality(Share(D, h, q)) = 0
      BY <1>2, <2>2, FS_EmptySet
    <3>2. f[q] \in Int /\ g[q] = f[q]
      BY <2>2 DEF RaisedBy
    <3>. QED
      BY <3>1, <3>2
  <2>. QED
    BY <2>1, <2>2
<1>4. Sum(f) \in Int /\ Sum(g) = Sum(f) + Cardinality(D)
  BY <1>1, <1>3, SumShares
<1>. QED
  BY <1>1, <1>4

LEMMA SumChange ==
  ASSUME NEW S, IsFiniteSet(S), NEW f \in [S -> Int], NEW g, NEW p \in S, NEW n \in Int,
         RaisedBy(f, g, p, n)
  PROVE  g \in [S -> Int] /\ Sum(f) \in Int /\ Sum(g) = Sum(f) + n
<1>1. f[p] \in Int /\ f[p] + n \in Int
  OBVIOUS
<1>2. g \in [S -> Int] /\ g[p] = f[p] + n
  BY <1>1 DEF RaisedBy
<1>3. CASE n >= 0
  <2>1. n \in Nat
    BY <1>3
  <2>2. Sum(f) \in Int /\ Sum(g) = Sum(f) + n
    BY <1>2, <2>1, SumMore
  <2>. QED
    BY <1>2, <2>2
<1>4. CASE n < 0
  <2>1. PICK m \in Nat : n = -m
    <3>1. -n \in Nat /\ n = -(-n)
      BY <1>4
    <3>. QED
      BY <3>1
  <2>2. RaisedBy(g, f, p, m)
    <3>1. g[p] + m = f[p]
      BY <1>1, <1>2, <2>1
    <3>2. [g EXCEPT ![p] = f[p]] = f
      BY DEF RaisedBy
    <3>. QED
      BY <3>1, <3>2 DEF RaisedBy
  <2>3. Sum(g) \in Int /\ Sum(f) = Sum(g) + m
    BY <1>2, <2>1, <2>2, SumMore
  <2>4. Sum(g) = Sum(f) + n /\ Sum(f) \in Int
    BY <2>1, <2>3
  <2>. QED
    BY <1>2, <2>4
<1>. QED
  BY <1>3, <1>4

-----------------------------------------------------------------------------
(* Counting tasks: by their tickets, by those who own their executors.     *)

Tickets(T) == {t.m_Ticket : t \in T}

By(T, p) == {t \in T : Owner(t.arg.executor) = p}

(* The tasks that would be paid back for if they were halted. *)
Held(T) == {t \in T : Pays(t.arg.executor)}

LEMMA TasksCount ==
  ASSUME NEW T \in SUBSET TaskType, UniqueIn(T)
  PROVE  /\ IsFiniteSet(T) /\ Cardinality(T) \in Nat
         /\ Cardinality(Tickets(T)) = Cardinality(T)
<1>. DEFINE f == [t \in T |-> t.m_Ticket]
<1>1. Tickets(T) \in SUBSET (0 .. TicketMod - 1)
  BY TaskFields DEF Tickets
<1>2. IsFiniteSet(Tickets(T))
  BY <1>1, TicketsFinite
<1>3. f \in [T -> Tickets(T)] /\ \A k \in Tickets(T) : \E t \in T : f[t] = k
  BY DEF Tickets
<1>4. \A t, u \in T : f[t] = f[u] => t = u
  BY DEF UniqueIn
<1>. HIDE DEF f
<1>5. f \in Bijection(T, Tickets(T))
  BY <1>3, <1>4, Fun_IsBij
<1>6. f \in Injection(T, Tickets(T))
  BY <1>5, Fun_BijectionProperties
<1>7. IsFiniteSet(T)
  BY <1>2, <1>6, FS_Injection
<1>8. Cardinality(Tickets(T)) = Cardinality(T)
  BY <1>5, <1>7, FS_Bijection DEF ExistsBijection
<1>. QED
  BY <1>7, <1>8, FS_CardinalityType

LEMMA SubsetCount ==
  ASSUME NEW T \in SUBSET TaskType, UniqueIn(T), NEW U \in SUBSET T
  PROVE  /\ U \in SUBSET TaskType /\ UniqueIn(U)
         /\ IsFiniteSet(U) /\ Cardinality(U) \in Nat /\ Cardinality(U) <= Cardinality(T)
         /\ Cardinality(Tickets(U)) = Cardinality(U)
         /\ IsFiniteSet(T \ U) /\ Cardinality(T \ U) = Cardinality(T) - Cardinality(U)
         /\ Cardinality(T \ U) \in Nat
<1>1. U \in SUBSET TaskType /\ UniqueIn(U) /\ IsFiniteSet(T) /\ T \cap U = U
  BY TasksCount DEF UniqueIn
<1>2. IsFiniteSet(U) /\ Cardinality(U) \in Nat /\ Cardinality(Tickets(U)) = Cardinality(U)
  BY <1>1, TasksCount
<1>3. Cardinality(U) <= Cardinality(T)
  BY <1>1, FS_Subset
<1>4. IsFiniteSet(T \ U) /\ Cardinality(T \ U) = Cardinality(T) - Cardinality(U)
  BY <1>1, FS_Difference
<1>5. Cardinality(T \ U) \in Nat
  BY <1>4, FS_CardinalityType
<1>. QED
  BY <1>1, <1>2, <1>3, <1>4, <1>5

LEMMA EntriesCount ==
  ASSUME NEW T \in SUBSET TaskType, UniqueIn(T), NEW p
  PROVE  /\ Cardinality(EntriesIn(T, p)) = Cardinality(By(T, p))
         /\ Cardinality(EntriesIn(T, p)) \in Nat
<1>1. EntriesIn(T, p) = Tickets(By(T, p)) /\ By(T, p) \in SUBSET T
  BY DEF EntriesIn, Tickets, By
<1>2. Cardinality(Tickets(By(T, p))) = Cardinality(By(T, p)) /\ Cardinality(By(T, p)) \in Nat
  BY <1>1, SubsetCount
<1>. QED
  BY <1>1, <1>2

LEMMA EntriesLess ==
  ASSUME NEW T \in SUBSET TaskType, UniqueIn(T), NEW gone \in SUBSET T, NEW p
  PROVE  /\ Cardinality(EntriesIn(T \ gone, p))
              = Cardinality(EntriesIn(T, p)) - Cardinality(EntriesIn(gone, p))
         /\ Cardinality(EntriesIn(T, p)) \in Nat /\ Cardinality(EntriesIn(gone, p)) \in Nat
<1>. DEFINE B == By(T, p)
            G == By(gone, p)
<1>1. B \in SUBSET T /\ G \in SUBSET B /\ By(T \ gone, p) = B \ G
  BY DEF By
<1>2. /\ gone \in SUBSET TaskType /\ UniqueIn(gone)
      /\ T \ gone \in SUBSET TaskType /\ UniqueIn(T \ gone)
  BY DEF UniqueIn
<1>3. /\ Cardinality(EntriesIn(T, p)) = Cardinality(B) /\ Cardinality(EntriesIn(T, p)) \in Nat
      /\ Cardinality(EntriesIn(gone, p)) = Cardinality(G) /\ Cardinality(EntriesIn(gone, p)) \in Nat
      /\ Cardinality(EntriesIn(T \ gone, p)) = Cardinality(By(T \ gone, p))
  BY <1>2, EntriesCount
<1>. HIDE DEF B, G
<1>4. B \in SUBSET TaskType /\ UniqueIn(B)
  BY <1>1, SubsetCount
<1>5. Cardinality(B \ G) = Cardinality(B) - Cardinality(G)
  BY <1>1, <1>4, SubsetCount
<1>. QED
  BY <1>1, <1>3, <1>5

-----------------------------------------------------------------------------
(* Entries leave.                                                          *)

(* What is given back for them, and what that adds up to. *)
LEMMA RefundSum ==
  ASSUME NEW gone \in SUBSET TaskType, UniqueIn(gone), NEW purses \in [Players -> Int],
         NEW after \in [Players -> Int],
         \A p \in Players : after[p] = purses[p] + IF p \in Free THEN 0
                                      ELSE waitcost * Cardinality(EntriesIn(gone, p))
  PROVE  /\ Sum(purses) \in Int
         /\ \E paid \in SUBSET Held(gone) : Sum(after) = Sum(purses) + waitcost * Cardinality(paid)
<1>. DEFINE paid == {t \in gone : Owner(t.arg.executor) \in Players \ Free}
            D == (1 .. waitcost) \X paid
            h == [d \in D |-> Owner(d[2].arg.executor)]
<1>1. paid \in SUBSET Held(gone) /\ paid \in SUBSET gone
  BY DEF Held, Pays
<1>2. IsFiniteSet(paid) /\ Cardinality(paid) \in Nat
  BY <1>1, SubsetCount
<1>3. waitcost \in Nat /\ IsFiniteSet(1 .. waitcost) /\ Cardinality(1 .. waitcost) = waitcost
  BY QueueAssumption, FS_Interval
<1>4. IsFiniteSet(D) /\ Cardinality(D) = waitcost * Cardinality(paid)
  BY <1>2, <1>3, FS_Product
<1>5. h \in [D -> Players]
  OBVIOUS
<1>6. ASSUME NEW p \in Players
      PROVE  after[p] = purses[p] + Cardinality(Share(D, h, p))
  <2>1. CASE p \in Free
    <3>1. Share(D, h, p) = {}
      BY <2>1 DEF Share
    <3>2. Cardinality(Share(D, h, p)) = 0
      BY <3>1, FS_EmptySet
    <3>. QED
      BY <2>1, <3>2
  <2>2. CASE p \notin Free
    <3>1. Share(D, h, p) = (1 .. waitcost) \X By(gone, p)
      BY <2>2 DEF Share, By
    <3>2. By(gone, p) \in SUBSET gone
      BY DEF By
    <3>3. IsFiniteSet(By(gone, p)) /\ Cardinality(EntriesIn(gone, p)) = Cardinality(By(gone, p))
      BY <3>2, SubsetCount, EntriesCount
    <3>4. Cardinality((1 .. waitcost) \X By(gone, p)) = waitcost * Cardinality(EntriesIn(gone, p))
      <4>1. Cardinality((1 .. waitcost) \X By(gone, p))
              = Cardinality(1 .. waitcost) * Cardinality(By(gone, p))
        BY <1>3, <3>3, FS_Product
      <4>. QED
        BY <1>3, <3>3, <4>1
    <3>. QED
      BY <2>2, <3>1, <3>4
  <2>. QED
    BY <2>1, <2>2
<1>. HIDE DEF D, h, paid
<1>7. SharedOut(Players, purses, after, D, h)
  BY <1>6 DEF SharedOut
<1>8. Sum(purses) \in Int /\ Sum(after) = Sum(purses) + Cardinality(D)
  BY <1>4, <1>5, <1>7, FiniteAssumption, SumShares
<1>. QED
  BY <1>1, <1>4, <1>8

LEMMA CountSum ==
  ASSUME NEW gone \in SUBSET TaskType, UniqueIn(gone), NEW before \in [Players -> Int],
         NEW after \in [Players -> Int],
         \A p \in Players : after[p] = before[p] - Cardinality(EntriesIn(gone, p))
  PROVE  /\ Sum(before) \in Int /\ Sum(after) \in Int
         /\ Sum(after) >= Sum(before) - Cardinality(gone)
<1>. DEFINE D == {t \in gone : Owner(t.arg.executor) \in Players}
            h == [d \in D |-> Owner(d.arg.executor)]
<1>1. D \in SUBSET gone /\ h \in [D -> Players]
  OBVIOUS
<1>2. IsFiniteSet(D) /\ Cardinality(D) \in Nat /\ Cardinality(D) <= Cardinality(gone)
      /\ Cardinality(gone) \in Nat
  <2>1. D \in SUBSET gone
    BY <1>1
  <2>. HIDE DEF D
  <2>2. IsFiniteSet(D) /\ Cardinality(D) \in Nat /\ Cardinality(D) <= Cardinality(gone)
    BY <2>1, SubsetCount
  <2>3. Cardinality(gone) \in Nat
    BY TasksCount
  <2>. QED
    BY <2>2, <2>3
<1>3. ASSUME NEW p \in Players
      PROVE  before[p] = after[p] + Cardinality(Share(D, h, p))
  <2>1. Share(D, h, p) = By(gone, p)
    BY DEF Share, By
  <2>2. Cardinality(EntriesIn(gone, p)) = Cardinality(By(gone, p)) /\ Cardinality(By(gone, p)) \in Nat
    BY EntriesCount
  <2>3. before[p] \in Int /\ after[p] = before[p] - Cardinality(By(gone, p))
    BY <2>2
  <2>. HIDE DEF D, h
  <2>. QED
    BY <2>1, <2>2, <2>3
<1>. HIDE DEF D, h
<1>4. SharedOut(Players, after, before, D, h)
  BY <1>3 DEF SharedOut
<1>5. Sum(after) \in Int /\ Sum(before) = Sum(after) + Cardinality(D)
  BY <1>1, <1>2, <1>4, FiniteAssumption, SumShares
<1>. QED
  BY <1>2, <1>5

-----------------------------------------------------------------------------
(* The inductive invariant.  That a command counts for somebody needs that *)
(* whatever can run one is owned by a player.                              *)

Owned == \A x \in Things \ garbage : owner[x] \in Players

AccountsInv == Inv /\ Owned /\ CountsAgree

(* A step that keeps it, and mints no penny. *)
NoneMinted ==
  (\A x \in Things \ garbage' : owner[x] \in Free <=> owner'[x] \in Free)
    => Pennies' <= Pennies + waitcost * Cardinality(QueuedFree)

Accounted == AccountsInv' /\ NoneMinted

(* The tasks that stay, stay whose they were. *)
OwnersStay(T) ==
  \A t \in T : t.arg.executor \in Players \/ owner'[t.arg.executor] = owner[t.arg.executor]

LEMMA PenniesParts ==
  ASSUME Inv
  PROVE  /\ Pennies = Sum(money) + waitcost * Cardinality(Held(Tasks))
                        + OBJECT_DEPOSIT * Cardinality(Things \ garbage)
         /\ Sum(money) \in Int /\ Sum(queue) \in Int
         /\ waitcost \in Nat /\ Cardinality(Held(Tasks)) \in Nat
         /\ waitcost * Cardinality(Held(Tasks)) \in Int
         /\ OBJECT_DEPOSIT \in Nat /\ IsFiniteSet(Things \ garbage)
         /\ Cardinality(Things \ garbage) \in Nat
         /\ OBJECT_DEPOSIT * Cardinality(Things \ garbage) \in Int
<1>1. money \in [Players -> Int] /\ queue \in [Players -> Int]
  BY DEF Inv, AccountInv
<1>2. \A f \in [Players -> Int] : \A p \in Players : f[p] <= f[p]
  OBVIOUS
<1>3. Sum(money) \in Int /\ Sum(queue) \in Int
  BY <1>1, <1>2, FiniteAssumption, SumBetween
<1>4. Tasks \in SUBSET TaskType /\ UniqueIn(Tasks) /\ Held(Tasks) \in SUBSET Tasks
  BY HeapFacts DEF Inv, Held
<1>5. Cardinality(Held(Tasks)) \in Nat
  BY <1>4, SubsetCount
<1>6. IsFiniteSet(Things \ garbage)
  BY FiniteAssumption, FS_Difference
<1>7. Cardinality(Things \ garbage) \in Nat
  BY <1>6, FS_CardinalityType
<1>8. waitcost \in Nat /\ OBJECT_DEPOSIT \in Nat
  BY QueueAssumption
<1>9. /\ waitcost * Cardinality(Held(Tasks)) \in Int
      /\ OBJECT_DEPOSIT * Cardinality(Things \ garbage) \in Int
  BY <1>5, <1>7, <1>8
<1>. QED
  BY <1>3, <1>5, <1>6, <1>7, <1>8, <1>9 DEF Pennies, Held

(* The same of the next state, and of what was queued free. *)
LEMMA PenniesNext ==
  ASSUME Inv'
  PROVE  /\ Pennies' \in Int
         /\ waitcost * Cardinality(QueuedFree) \in Nat
<1>. DEFINE T == Tasks'
            H == {t \in T : Pays(t.arg.executor)'}
            k == Cardinality(H)
            l == Cardinality(Things \ garbage')
<1>1. T \in SUBSET TaskType /\ UniqueIn(T)
  BY DEF Inv, HeapInv, Tasks, TicketsUnique, UniqueIn
<1>2. H \in SUBSET T /\ QueuedFree \in SUBSET T
  BY DEF QueuedFree
<1>. HIDE DEF T, H
<1>3. Cardinality(H) \in Nat /\ Cardinality(QueuedFree) \in Nat
  BY <1>1, <1>2, SubsetCount
<1>4. money' \in [Players -> Int]
  BY DEF Inv, AccountInv
<1>5. Sum(money') \in Int
  <2>1. \A p \in Players : money'[p] <= money'[p]
    BY <1>4
  <2>. QED
    BY <1>4, <2>1, FiniteAssumption, SumBetween
<1>6. IsFiniteSet(Things \ garbage')
  BY FiniteAssumption, FS_Difference
<1>7. Cardinality(Things \ garbage') \in Nat
  BY <1>6, FS_CardinalityType
<1>8. waitcost \in Nat /\ OBJECT_DEPOSIT \in Nat
  BY QueueAssumption
<1>9. Pennies' = Sum(money') + waitcost * k + OBJECT_DEPOSIT * l
  BY DEF Pennies, H, T
<1>10. waitcost * k \in Int /\ OBJECT_DEPOSIT * l \in Int
  BY <1>3, <1>7, <1>8
<1>11. waitcost * Cardinality(QueuedFree) \in Nat
  BY <1>3, <1>8
<1>. HIDE DEF k, l
<1>. QED
  BY <1>5, <1>9, <1>10, <1>11

(* Most steps do not add to the pennies at all. *)
LEMMA NotMore ==
  ASSUME Inv, Inv', Pennies' <= Pennies
  PROVE  NoneMinted
<1>1. Pennies \in Int
  BY PenniesParts
<1>2. Pennies' \in Int /\ waitcost * Cardinality(QueuedFree) \in Nat
  BY PenniesNext
<1>. DEFINE more == waitcost * Cardinality(QueuedFree)
<1>3. Pennies' <= Pennies + more
  <2>. HIDE DEF more
  <2>1. more \in Nat
    BY <1>2 DEF more
  <2>. QED
    BY <1>1, <1>2, <2>1
<1>. QED
  BY <1>3 DEF NoneMinted

(* Counts after entries were taken away and uncounted. *)
LEMMA CountsHalted ==
  ASSUME Inv, Inv', CountsAgree, NEW gone \in SUBSET Tasks, Tasks' = Tasks \ gone,
         OwnersStay(Tasks \ gone), drift' = drift,
         queue' = [p \in Players |-> queue[p] - Cardinality(EntriesIn(gone, p))]
  PROVE  CountsAgree'
<1>1. Tasks \in SUBSET TaskType /\ UniqueIn(Tasks) /\ gone \in SUBSET TaskType /\ UniqueIn(gone)
  BY HeapFacts DEF Inv, UniqueIn
<1>2. /\ queue \in [Players -> Int] /\ queue' \in [Players -> Int] /\ drift \in [Players -> Int]
  BY DEF Inv, AccountInv, ObjectInv
<1>3. QueueCountsEntries'
  <2>. SUFFICES ASSUME NEW p \in Players
                PROVE  queue'[p] = Cardinality(Entries(p)') + drift'[p]
    BY DEF QueueCountsEntries
  <2>1. Entries(p)' = EntriesIn(Tasks \ gone, p)
    BY DEF Entries, EntriesIn, Owner, OwnersStay
  <2>2. /\ Cardinality(EntriesIn(Tasks \ gone, p))
             = Cardinality(Entries(p)) - Cardinality(EntriesIn(gone, p))
        /\ Cardinality(Entries(p)) \in Nat /\ Cardinality(EntriesIn(gone, p)) \in Nat
    BY <1>1, EntriesLess DEF Entries
  <2>3. queue[p] = Cardinality(Entries(p)) + drift[p] /\ drift[p] \in Int /\ drift'[p] = drift[p]
    BY <1>2 DEF CountsAgree, QueueCountsEntries
  <2>4. queue'[p] = queue[p] - Cardinality(EntriesIn(gone, p))
    OBVIOUS
  <2>. QED
    BY <2>1, <2>2, <2>3, <2>4
<1>4. QueueTotal'
  <2>1. \A p \in Players : queue'[p] = queue[p] - Cardinality(EntriesIn(gone, p))
    OBVIOUS
  <2>2. Sum(queue) \in Int /\ Sum(queue') \in Int /\ Sum(queue') >= Sum(queue) - Cardinality(gone)
    BY <1>1, <1>2, <2>1, CountSum
  <2>3. Cardinality(Tasks') = Cardinality(Tasks) - Cardinality(gone)
        /\ Cardinality(Tasks) \in Nat /\ Cardinality(gone) \in Nat
    BY <1>1, SubsetCount, TasksCount
  <2>4. Sum(queue) >= Cardinality(Tasks)
    BY DEF CountsAgree, QueueTotal
  <2>5. Sum(queue') >= Cardinality(Tasks')
    BY <2>2, <2>3, <2>4
  <2>. QED
    BY <2>5 DEF QueueTotal
<1>. QED
  BY <1>3, <1>4 DEF CountsAgree

(* Pennies after entries were taken away and refunded. *)
LEMMA MoneyHalted ==
  ASSUME Inv, Inv', NEW gone \in SUBSET Tasks, NEW back \in SUBSET gone,
         Tasks' = Tasks \ gone, OwnersStay(Tasks \ gone),
         NEW purses \in [Players -> Int],
         money' = [p \in Players |-> purses[p] + IF p \in Free THEN 0
                                      ELSE waitcost * Cardinality(EntriesIn(back, p))]
  PROVE  /\ Sum(purses) \in Int
         /\ Sum(money') + waitcost * Cardinality(Held(Tasks)')
              <= Sum(purses) + waitcost * Cardinality(Held(Tasks))
<1>1. /\ Tasks \in SUBSET TaskType /\ UniqueIn(Tasks)
      /\ gone \in SUBSET TaskType /\ UniqueIn(gone)
      /\ back \in SUBSET TaskType /\ UniqueIn(back) /\ Held(back) \in SUBSET Held(gone)
      /\ Held(Tasks) \in SUBSET Tasks /\ Held(gone) \in SUBSET Held(Tasks)
  BY HeapFacts DEF Inv, UniqueIn, Held
<1>2. Held(Tasks)' = Held(Tasks) \ Held(gone)
  BY DEF Held, Pays, Owner, OwnersStay
<1>3. money' \in [Players -> Int]
  BY DEF Inv, AccountInv
<1>4. \A p \in Players : money'[p] = purses[p] + IF p \in Free THEN 0
                                      ELSE waitcost * Cardinality(EntriesIn(back, p))
  OBVIOUS
<1>5. Sum(purses) \in Int
      /\ \E paid \in SUBSET Held(back) : Sum(money') = Sum(purses) + waitcost * Cardinality(paid)
  BY <1>1, <1>3, <1>4, RefundSum
<1>. DEFINE H == Held(Tasks)
            G == Held(gone)
<1>6. PICK paid \in SUBSET G : Sum(money') = Sum(purses) + waitcost * Cardinality(paid)
  BY <1>1, <1>5
<1>. HIDE DEF H, G
<1>7. H \in SUBSET TaskType /\ UniqueIn(H) /\ paid \in SUBSET H /\ G \in SUBSET H
  BY <1>1, <1>6, SubsetCount DEF H, G
<1>8. G \in SUBSET TaskType /\ UniqueIn(G)
  BY <1>7, SubsetCount
<1>. DEFINE a == Cardinality(H)
            c == Cardinality(G)
            d == Cardinality(paid)
<1>9. a \in Nat /\ c \in Nat /\ d \in Nat /\ d <= c /\ c <= a /\ Cardinality(H \ G) = a - c
  BY <1>6, <1>7, <1>8, SubsetCount, TasksCount
<1>10. waitcost \in Nat
  BY QueueAssumption
<1>11. Held(Tasks)' = H \ G
  BY <1>2 DEF H, G
<1>. HIDE DEF a, c, d
<1>12. waitcost * d + waitcost * (a - c) <= waitcost * a
  <2>1. PICK k \in Nat : c = d + k
    <3>1. c - d \in Nat /\ c = d + (c - d)
      BY <1>9
    <3>. QED
      BY <3>1
  <2>2. waitcost * a = waitcost * (a - c) + waitcost * d + waitcost * k
    <3>1. a = (a - c) + d + k /\ a - c \in Int
      BY <1>9, <2>1
    <3>2. \A i, j, l \in Int : waitcost * (i + j + l) = waitcost * i + waitcost * j + waitcost * l
      BY <1>10
    <3>. QED
      BY <1>9, <2>1, <3>1, <3>2
  <2>3. waitcost * k \in Nat /\ waitcost * d \in Int /\ waitcost * (a - c) \in Int /\ waitcost * a \in Int
    BY <1>9, <1>10, <2>1
  <2>. QED
    BY <2>2, <2>3
<1>13. waitcost * d \in Int /\ waitcost * (a - c) \in Int /\ waitcost * a \in Int
  BY <1>9, <1>10
<1>14. /\ Sum(money') = Sum(purses) + waitcost * d
       /\ Cardinality(Held(Tasks)') = a - c /\ Cardinality(Held(Tasks)) = a
  BY <1>6, <1>9, <1>11 DEF a, d, H
<1>. HIDE DEF H, G
<1>15. Sum(money') + waitcost * Cardinality(Held(Tasks)')
         <= Sum(purses) + waitcost * Cardinality(Held(Tasks))
  <2>. DEFINE i == waitcost * d
              j == waitcost * (a - c)
              k == waitcost * a
  <2>1. i \in Int /\ j \in Int /\ k \in Int /\ i + j <= k /\ Sum(purses) \in Int
    BY <1>5, <1>12, <1>13
  <2>2. Sum(money') = Sum(purses) + i
    BY <1>14
  <2>3. waitcost * Cardinality(Held(Tasks)') = j /\ waitcost * Cardinality(Held(Tasks)) = k
    BY <1>14
  <2>. HIDE DEF i, j, k
  <2>. QED
    BY <2>1, <2>2, <2>3
<1>. QED
  BY <1>5, <1>15

LEMMA SumInt ==
  ASSUME NEW f \in [Players -> Int]
  PROVE  Sum(f) \in Int
<1>1. \A p \in Players : f[p] <= f[p]
  OBVIOUS
<1>. QED
  BY <1>1, FiniteAssumption, SumBetween

(* Paying one purse, if it is one. *)
LEMMA PlusSum ==
  ASSUME NEW purses \in [Players -> Int], NEW x, NEW n \in Int
  PROVE  /\ Plus(purses, x, n) \in [Players -> Int]
         /\ Sum(purses) \in Int
         /\ Sum(Plus(purses, x, n))
              = Sum(purses) + IF Owner(x) \in Players \ Free /\ x \notin gratis THEN n ELSE 0
<1>1. Plus(purses, x, n) \in [Players -> Int] /\ Sum(purses) \in Int
  BY PlusType, SumInt
<1>2. CASE Owner(x) \in Players \ Free /\ x \notin gratis
  <2>1. RaisedBy(purses, Plus(purses, x, n), Owner(x), n)
    BY <1>2 DEF Plus, Exempt, Pays, RaisedBy
  <2>2. Sum(Plus(purses, x, n)) = Sum(purses) + n
    BY <1>2, <2>1, FiniteAssumption, SumChange
  <2>. QED
    BY <1>1, <1>2, <2>1, <2>2
<1>3. CASE ~(Owner(x) \in Players \ Free /\ x \notin gratis)
  <2>1. Plus(purses, x, n) = purses
    BY <1>3 DEF Plus, Exempt, Pays
  <2>. QED
    BY <1>1, <1>3, <2>1
<1>. QED
  BY <1>1, <1>2, <1>3

(* Entries leave with their refunds and their places in the counts, and    *)
(* nothing changes hands.                                                  *)
LEMMA HaltStep ==
  ASSUME AccountsInv, Inv', NEW gone \in SUBSET Tasks, NEW back \in SUBSET gone,
         Tasks' = Tasks \ gone, UNCHANGED <<owner, garbage, drift>>,
         NEW purses \in [Players -> Int], Sum(purses) <= Sum(money),
         money' = [p \in Players |-> purses[p] + IF p \in Free THEN 0
                                      ELSE waitcost * Cardinality(EntriesIn(back, p))],
         queue' = [p \in Players |-> queue[p] - Cardinality(EntriesIn(gone, p))]
  PROVE  Accounted
<1>1. Inv /\ CountsAgree /\ OwnersStay(Tasks \ gone)
  BY DEF AccountsInv, OwnersStay
<1>2. CountsAgree'
  BY <1>1, CountsHalted
<1>3. Owned'
  BY DEF AccountsInv, Owned
<1>4. Pennies' <= Pennies
  <2>. DEFINE h == waitcost * Cardinality(Held(Tasks))
              i == waitcost * Cardinality(Held(Tasks)')
              d == OBJECT_DEPOSIT * Cardinality(Things \ garbage)
  <2>1. Sum(money') + i <= Sum(purses) + h /\ Sum(purses) \in Int
    BY <1>1, MoneyHalted
  <2>2. Pennies = Sum(money) + h + d /\ Sum(money) \in Int /\ h \in Int /\ d \in Int
    BY <1>1, PenniesParts
  <2>3. Pennies' = Sum(money') + i + d
    BY DEF Pennies, Held
  <2>4. Sum(money') \in Int
    BY SumInt DEF Inv, AccountInv
  <2>5. i \in Int
    <3>1. Cardinality(Held(Tasks)') \in Nat
      <4>1. Tasks \in SUBSET TaskType /\ UniqueIn(Tasks)
        BY <1>1, HeapFacts DEF Inv
      <4>2. Held(Tasks)' \in SUBSET Tasks
        BY DEF Held
      <4>. QED
        BY <4>1, <4>2, SubsetCount
    <3>. QED
      BY <3>1, QueueAssumption
  <2>. HIDE DEF h, i, d
  <2>. QED
    BY <2>1, <2>2, <2>3, <2>4, <2>5
<1>. QED
  BY <1>1, <1>2, <1>3, <1>4, NotMore DEF Accounted, AccountsInv

LEMMA HaltAccounted ==
  ASSUME AccountsInv, Inv', NEW gone \in SUBSET Tasks, NEW back \in SUBSET gone, NEW counts,
         NEW purses \in [Players -> Int], Sum(purses) <= Sum(money),
         (halt_que(gone, purses, counts) /\ back = gone) \/ Discard(gone, back, purses, counts),
         UNCHANGED <<owner, garbage, drift>>
  PROVE  Accounted
<1>1. Tasks' = Tasks \ gone
  BY DEF halt_que, Discard, Tasks
<1>2. /\ money' = [p \in Players |-> purses[p] + IF p \in Free THEN 0
                                      ELSE waitcost * Cardinality(EntriesIn(back, p))]
      /\ queue' = [p \in Players |-> queue[p] - Cardinality(EntriesIn(gone, p))]
  BY DEF halt_que, Discard
<1>. QED
  BY <1>1, <1>2, HaltStep

(* Halting with nothing paid before. *)
LEMMA HaltOnly ==
  ASSUME AccountsInv, Inv', NEW gone \in SUBSET Tasks, NEW counts,
         halt_que(gone, money, counts) \/ Discard(gone, Refunded(gone), money, counts),
         UNCHANGED <<owner, garbage, drift>>
  PROVE  Accounted
<1>1. money \in [Players -> Int]
  BY DEF AccountsInv, Inv, AccountInv
<1>2. Sum(money) \in Int
  BY <1>1, SumInt
<1>3. Sum(money) <= Sum(money)
  BY <1>2
<1>4. Refunded(gone) \in SUBSET gone /\ gone \in SUBSET gone
  BY DEF Refunded
<1>5. CASE halt_que(gone, money, counts)
  BY <1>1, <1>3, <1>4, <1>5, HaltAccounted
<1>6. CASE Discard(gone, Refunded(gone), money, counts)
  BY <1>1, <1>3, <1>4, <1>6, HaltAccounted
<1>. QED
  BY <1>5, <1>6

(* An entry that is run, or paid back because its executor is halted.      *)
LEMMA EntryAlone ==
  ASSUME NEW t, NEW p
  PROVE  Cardinality(EntriesIn({t}, p)) = IF Owner(t.arg.executor) = p THEN 1 ELSE 0
<1>1. EntriesIn({t}, p) = IF Owner(t.arg.executor) = p THEN {t.m_Ticket} ELSE {}
  BY DEF EntriesIn
<1>. QED
  BY <1>1, FS_Singleton, FS_EmptySet

GivenBack(t) ==
  /\ money' = giveto(t.arg.executor, waitcost)
  /\ queue' = [queue EXCEPT ![Owner(t.arg.executor)] = @ - 1]

LEMMA PaidBack ==
  ASSUME AccountsInv, Inv', NEW t \in Tasks, Tasks' = Tasks \ {t},
         UNCHANGED <<owner, garbage, drift>>, GivenBack(t)
  PROVE  Accounted
<1>. DEFINE o == Owner(t.arg.executor)
            n(p) == Cardinality(EntriesIn({t}, p))
            back == IF t.arg.executor \in gratis THEN {} ELSE {t}
            m(p) == Cardinality(EntriesIn(back, p))
<1>1. money \in [Players -> Int] /\ queue \in [Players -> Int]
  BY DEF AccountsInv, Inv, AccountInv
<1>2. \A p : n(p) = IF o = p THEN 1 ELSE 0
  BY EntryAlone
<1>3. waitcost \in Int
  BY QueueAssumption
<1>4. money' = [p \in Players |-> money[p] + IF p \in Free THEN 0 ELSE waitcost * m(p)]
  <2>1. money' = IF t.arg.executor \in gratis \/ o \in Free THEN money
                 ELSE [money EXCEPT ![o] = money[o] + waitcost]
    BY DEF GivenBack, giveto, Plus, Exempt, Pays
  <2>2. \A p : m(p) = IF o = p /\ t.arg.executor \notin gratis THEN 1 ELSE 0
    <3>1. CASE t.arg.executor \in gratis
      <4>1. \A p : EntriesIn({}, p) = {}
        BY DEF EntriesIn
      <4>. QED
        BY <3>1, <4>1, FS_EmptySet
    <3>2. CASE t.arg.executor \notin gratis
      BY <1>2, <3>2
    <3>. QED
      BY <3>1, <3>2
  <2>. HIDE DEF o, n, m
  <2>3. ASSUME NEW p \in Players
        PROVE  waitcost * m(p) = IF o = p /\ t.arg.executor \notin gratis THEN waitcost ELSE 0
    <3>1. CASE o = p /\ t.arg.executor \notin gratis
      <4>1. m(p) = 1
        BY <2>2, <3>1
      <4>. QED
        BY <1>3, <3>1, <4>1
    <3>2. CASE ~(o = p /\ t.arg.executor \notin gratis)
      <4>1. m(p) = 0
        BY <2>2, <3>2
      <4>. QED
        BY <1>3, <3>2, <4>1
    <3>. QED
      BY <3>1, <3>2
  <2>4. money' \in [Players -> Int]
    BY DEF Inv, AccountInv
  <2>5. \A p \in Players : money'[p] = money[p] + IF p \in Free THEN 0 ELSE waitcost * m(p)
    <3>. SUFFICES ASSUME NEW p \in Players
                  PROVE  money'[p] = money[p] + IF p \in Free THEN 0 ELSE waitcost * m(p)
      OBVIOUS
    <3>1. money[p] \in Int
      BY <1>1
    <3>2. CASE o = p
      BY <1>1, <1>3, <2>1, <2>3, <3>1, <3>2
    <3>3. CASE o # p
      BY <1>1, <2>1, <2>3, <3>1, <3>3
    <3>. QED
      BY <3>2, <3>3
  <2>. QED
    BY <2>4, <2>5
<1>5. queue' = [p \in Players |-> queue[p] - n(p)]
  <2>1. queue' = [queue EXCEPT ![o] = queue[o] - 1]
    BY DEF GivenBack
  <2>. HIDE DEF o, n
  <2>2. \A p \in Players : queue'[p] = queue[p] - n(p)
    BY <1>1, <1>2, <2>1
  <2>3. queue' \in [Players -> Int]
    BY DEF Inv, AccountInv
  <2>. QED
    BY <2>2, <2>3
<1>6. Sum(money) <= Sum(money)
  BY <1>1, SumInt
<1>. DEFINE gone == {t}
<1>7. /\ gone \in SUBSET Tasks /\ back \in SUBSET gone /\ Tasks' = Tasks \ gone
      /\ money' = [p \in Players |-> money[p] + IF p \in Free THEN 0
                                      ELSE waitcost * Cardinality(EntriesIn(back, p))]
      /\ queue' = [p \in Players |-> queue[p] - Cardinality(EntriesIn(gone, p))]
  BY <1>4, <1>5
<1>. HIDE DEF o, n, m, gone, back
<1>8. PICK G \in SUBSET Tasks, B \in SUBSET Tasks :
        /\ B \in SUBSET G /\ Tasks' = Tasks \ G
        /\ money' = [p \in Players |-> money[p] + IF p \in Free THEN 0
                                        ELSE waitcost * Cardinality(EntriesIn(B, p))]
        /\ queue' = [p \in Players |-> queue[p] - Cardinality(EntriesIn(G, p))]
  BY <1>7
<1>. QED
  BY <1>1, <1>6, <1>8, HaltStep

(* The entry of a going object, which stays counted. *)
LEMMA Forgotten ==
  ASSUME AccountsInv, Inv', NEW t \in Tasks, Tasks' = Tasks \ {t},
         UNCHANGED <<owner, garbage, money, queue>>,
         drift' = [drift EXCEPT ![Owner(t.arg.executor)] = @ + 1]
  PROVE  Accounted
<1>. DEFINE o == Owner(t.arg.executor)
            n(p) == Cardinality(EntriesIn({t}, p))
<1>1. /\ Inv /\ drift \in [Players -> Int] /\ queue \in [Players -> Int]
      /\ money \in [Players -> Int]
      /\ Tasks \in SUBSET TaskType /\ UniqueIn(Tasks) /\ {t} \in SUBSET Tasks
  BY HeapFacts DEF AccountsInv, Inv, AccountInv, ObjectInv
<1>2. QueueCountsEntries'
  <2>. SUFFICES ASSUME NEW p \in Players
                PROVE  queue'[p] = Cardinality(Entries(p)') + drift'[p]
    BY DEF QueueCountsEntries
  <2>1. Entries(p)' = EntriesIn(Tasks \ {t}, p)
    BY DEF Entries, EntriesIn, Owner
  <2>2. /\ Cardinality(EntriesIn(Tasks \ {t}, p)) = Cardinality(Entries(p)) - n(p)
        /\ Cardinality(Entries(p)) \in Nat
    BY <1>1, EntriesLess DEF Entries
  <2>3. n(p) = IF o = p THEN 1 ELSE 0
    BY EntryAlone
  <2>. HIDE DEF o, n
  <2>4. drift'[p] = drift[p] + n(p) /\ drift[p] \in Int
    BY <1>1, <2>3 DEF o
  <2>5. queue[p] = Cardinality(Entries(p)) + drift[p]
    BY DEF AccountsInv, CountsAgree, QueueCountsEntries
  <2>. QED
    BY <2>1, <2>2, <2>3, <2>4, <2>5
<1>3. QueueTotal'
  <2>1. Cardinality(Tasks \ {t}) <= Cardinality(Tasks)
        /\ Cardinality(Tasks \ {t}) \in Nat /\ Cardinality(Tasks) \in Nat
    BY <1>1, SubsetCount, TasksCount
  <2>2. Sum(queue) >= Cardinality(Tasks) /\ Sum(queue) \in Int
    BY <1>1, SumInt DEF AccountsInv, CountsAgree, QueueTotal
  <2>3. Sum(queue) >= Cardinality(Tasks \ {t})
    BY <2>1, <2>2
  <2>. QED
    BY <2>3 DEF QueueTotal
<1>4. Pennies' <= Pennies
  <2>. DEFINE h == Cardinality(Held(Tasks))
              i == Cardinality(Held(Tasks \ {t}))
              d == OBJECT_DEPOSIT * Cardinality(Things \ garbage)
  <2>1. Held(Tasks) \in SUBSET Tasks /\ Held(Tasks \ {t}) \in SUBSET Held(Tasks)
    BY DEF Held
  <2>2. Held(Tasks) \in SUBSET TaskType /\ UniqueIn(Held(Tasks))
    BY <1>1, <2>1, SubsetCount
  <2>3. h \in Nat /\ i \in Nat /\ i <= h
    <3>. DEFINE H == Held(Tasks)
                G == Held(Tasks \ {t})
    <3>1. H \in SUBSET TaskType /\ UniqueIn(H) /\ G \in SUBSET H
      BY <2>1, <2>2
    <3>. HIDE DEF H, G
    <3>2. Cardinality(H) \in Nat /\ Cardinality(G) \in Nat /\ Cardinality(G) <= Cardinality(H)
      BY <3>1, SubsetCount, TasksCount
    <3>. QED
      BY <3>2 DEF H, G
  <2>4. Pennies = Sum(money) + waitcost * h + d /\ Sum(money) \in Int /\ waitcost \in Nat /\ d \in Int
    BY <1>1, PenniesParts
  <2>5. Pennies' = Sum(money) + waitcost * i + d
    BY DEF Pennies, Held, Pays, Owner
  <2>. HIDE DEF h, i, d
  <2>6. waitcost * i <= waitcost * h /\ waitcost * i \in Int /\ waitcost * h \in Int
    <3>1. PICK k \in Nat : h = i + k
      <4>1. h - i \in Nat /\ h = i + (h - i)
        BY <2>3
      <4>. QED
        BY <4>1
    <3>2. waitcost * h = waitcost * i + waitcost * k /\ waitcost * k \in Nat
      BY <2>3, <2>4, <3>1
    <3>. QED
      BY <2>3, <2>4, <3>2
  <2>. QED
    BY <2>4, <2>5, <2>6
<1>5. Owned'
  BY DEF AccountsInv, Owned
<1>. QED
  BY <1>1, <1>2, <1>3, <1>4, <1>5, NotMore DEF Accounted, AccountsInv, CountsAgree

(* Steps that neither add nor remove an entry, and pay nothing. *)
LEMMA SameEntries ==
  ASSUME AccountsInv, Inv', UNCHANGED <<owner, garbage, drift, money, queue>>,
         \A u \in Tasks' : \E t \in Tasks :
           t.m_Ticket = u.m_Ticket /\ t.arg.executor = u.arg.executor,
         \A t \in Tasks : \E u \in Tasks' :
           t.m_Ticket = u.m_Ticket /\ t.arg.executor = u.arg.executor
  PROVE  Accounted
<1>1. /\ Inv /\ Tasks \in SUBSET TaskType /\ UniqueIn(Tasks)
      /\ Tasks' \in SUBSET TaskType /\ UniqueIn(Tasks')
  BY HeapFacts DEF AccountsInv, Inv, HeapInv, Tasks, TicketsUnique, UniqueIn
<1>2. Cardinality(Tasks') = Cardinality(Tasks)
  <2>1. Tickets(Tasks') = Tickets(Tasks)
    BY DEF Tickets
  <2>. QED
    BY <1>1, <2>1, TasksCount
<1>3. Cardinality(Held(Tasks)') = Cardinality(Held(Tasks))
  <2>1. Held(Tasks)' = Held(Tasks')
    BY DEF Held, Pays, Owner
  <2>2. Tickets(Held(Tasks')) = Tickets(Held(Tasks))
    BY DEF Tickets, Held, Pays
  <2>3. Held(Tasks) \in SUBSET Tasks /\ Held(Tasks') \in SUBSET Tasks'
    BY DEF Held
  <2>. QED
    BY <1>1, <2>1, <2>2, <2>3, SubsetCount
<1>4. \A p \in Players : Entries(p)' = Entries(p)
  BY DEF Entries, EntriesIn, Owner
<1>5. CountsAgree'
  BY <1>2, <1>4 DEF AccountsInv, CountsAgree, QueueCountsEntries, QueueTotal
<1>6. Pennies' = Pennies
  BY <1>3 DEF Pennies, Held
<1>7. Pennies \in Int
  BY <1>1, PenniesParts
<1>8. Owned'
  BY DEF AccountsInv, Owned
<1>. QED
  BY <1>1, <1>5, <1>6, <1>7, <1>8, NotMore DEF Accounted, AccountsInv

LEMMA SumOneMore ==
  ASSUME NEW f \in [Players -> Int], NEW p \in Players
  PROVE  Sum(f) \in Int /\ Sum([f EXCEPT ![p] = @ + 1]) = Sum(f) + 1
<1>. DEFINE g == [f EXCEPT ![p] = f[p] + 1]
<1>1. g \in [Players -> Int] /\ RaisedBy(f, g, p, 1)
  BY DEF RaisedBy
<1>. HIDE DEF g
<1>2. Sum(g) = Sum(f) + 1 /\ Sum(f) \in Int
  BY <1>1, FiniteAssumption, SumMore
<1>. QED
  BY <1>2 DEF g

(* A new entry is counted for somebody, and paid for unless it is free. *)
LEMMA OneMore ==
  ASSUME AccountsInv, Inv', NEW t \in TaskType, \A u \in Tasks : u.m_Ticket # t.m_Ticket,
         Owner(t.arg.executor) \in Players, NEW a \in Nat,
         Tasks' = Tasks \cup {t}, UNCHANGED <<owner, garbage, drift>>,
         money' = payfor(t.arg.executor, waitcost + a),
         queue' = [queue EXCEPT ![Owner(t.arg.executor)] = @ + 1]
  PROVE  Accounted
<1>. DEFINE x == t.arg.executor
            o == Owner(x)
            T == Tasks \cup {t}
<1>1. /\ Inv /\ drift \in [Players -> Int] /\ queue \in [Players -> Int]
      /\ money \in [Players -> Int]
      /\ Tasks \in SUBSET TaskType /\ UniqueIn(Tasks)
  BY HeapFacts DEF AccountsInv, Inv, AccountInv, ObjectInv
<1>2. /\ T \in SUBSET TaskType /\ UniqueIn(T) /\ {t} \in SUBSET T /\ T \ {t} = Tasks
      /\ t \notin Tasks
  BY <1>1 DEF UniqueIn
<1>3. Sum(queue') = Sum(queue) + 1 /\ Sum(queue) \in Int
  <2>1. o \in Players
    OBVIOUS
  <2>. HIDE DEF o
  <2>2. Sum([queue EXCEPT ![o] = @ + 1]) = Sum(queue) + 1 /\ Sum(queue) \in Int
    BY <1>1, <2>1, SumOneMore
  <2>. QED
    BY <2>2 DEF o
<1>. HIDE DEF T
<1>4. QueueCountsEntries'
  <2>. SUFFICES ASSUME NEW p \in Players
                PROVE  queue'[p] = Cardinality(Entries(p)') + drift'[p]
    BY DEF QueueCountsEntries
  <2>. DEFINE n == Cardinality(EntriesIn({t}, p))
  <2>1. Entries(p)' = EntriesIn(T, p)
    BY DEF T, Entries, EntriesIn, Owner
  <2>2. /\ Cardinality(Entries(p)) = Cardinality(EntriesIn(T, p)) - n
        /\ Cardinality(EntriesIn(T, p)) \in Nat
    BY <1>2, EntriesLess DEF Entries
  <2>3. n = IF o = p THEN 1 ELSE 0
    BY EntryAlone
  <2>. HIDE DEF o, n
  <2>4. queue'[p] = queue[p] + n /\ queue[p] \in Int
    BY <1>1, <2>3 DEF o
  <2>5. queue[p] = Cardinality(Entries(p)) + drift[p] /\ drift[p] \in Int /\ drift'[p] = drift[p]
    BY <1>1 DEF AccountsInv, CountsAgree, QueueCountsEntries
  <2>. QED
    BY <2>1, <2>2, <2>3, <2>4, <2>5
<1>5. QueueTotal'
  <2>1. Cardinality(Tasks) = Cardinality(T) - Cardinality({t}) /\ Cardinality(T) \in Nat
    BY <1>2, SubsetCount, TasksCount
  <2>2. Cardinality({t}) = 1
    BY FS_Singleton
  <2>3. Sum(queue) >= Cardinality(Tasks)
    BY DEF AccountsInv, CountsAgree, QueueTotal
  <2>4. Sum(queue') >= Cardinality(T)
    BY <1>3, <2>1, <2>2, <2>3
  <2>. QED
    BY <2>4 DEF QueueTotal, T
<1>6. Pennies' <= Pennies + waitcost * Cardinality(QueuedFree)
  <2>. DEFINE h == Cardinality(Held(Tasks))
              i == Cardinality(Held(T))
              d == OBJECT_DEPOSIT * Cardinality(Things \ garbage)
              q == Cardinality(QueuedFree)
              cost == waitcost + a
  <2>1. Pennies = Sum(money) + waitcost * h + d /\ Sum(money) \in Int /\ waitcost \in Nat
        /\ d \in Int /\ h \in Nat
    BY <1>1, PenniesParts
  <2>2. Pennies' = Sum(money') + waitcost * i + d
    BY DEF Pennies, Held, Pays, Owner, T
  <2>3. -cost \in Int /\ cost \in Int
    BY <2>1
  <2>. HIDE DEF x, cost
  <2>4. Sum(money') = Sum(money) + IF o \in Players \ Free /\ x \notin gratis THEN -cost ELSE 0
    BY <1>1, <2>3, PlusSum DEF payfor, cost, x
  <2>5. waitcost * q \in Nat
    BY PenniesNext
  <2>6. CASE ~Pays(x)
    <3>1. Held(T) = Held(Tasks)
      BY <2>6 DEF Held, T, x
    <3>2. Sum(money') = Sum(money) /\ i = h
      BY <2>1, <2>4, <2>6, <3>1 DEF Pays
    <3>3. waitcost * h \in Int
      BY <2>1
    <3>. HIDE DEF h, i, d, q
    <3>4. Pennies' = Pennies /\ Pennies \in Int
      BY <2>1, <2>2, <3>2, <3>3
    <3>5. Pennies' <= Pennies + waitcost * q
      BY <2>5, <3>4
    <3>. QED
      BY <3>5 DEF q
  <2>7. CASE Pays(x)
    <3>1. Held(T) = Held(Tasks) \cup {t} /\ t \notin Held(Tasks)
      BY <1>2, <2>7 DEF Held, T, x
    <3>2. i = h + 1
      <4>1. IsFiniteSet(Held(Tasks))
        <5>1. Held(Tasks) \in SUBSET Tasks
          BY DEF Held
        <5>. QED
          BY <1>1, <5>1, SubsetCount
      <4>. QED
        BY <3>1, <4>1, FS_AddElement
    <3>3. waitcost * i = waitcost * h + waitcost /\ waitcost * h \in Int
      <4>. HIDE DEF h, i
      <4>. QED
        BY <2>1, <3>2
    <3>4. CASE x \notin gratis
      <4>1. Sum(money') = Sum(money) - cost
        <5>1. o \in Players \ Free
          BY <2>7 DEF Pays, x
        <5>. QED
          BY <2>1, <2>3, <2>4, <3>4, <5>1
      <4>. HIDE DEF h, i, d, o, q
      <4>2. Pennies' <= Pennies /\ Pennies \in Int /\ Pennies' \in Int
        BY <2>1, <2>2, <3>3, <4>1 DEF cost
      <4>3. Pennies' <= Pennies + waitcost * q
        BY <2>5, <4>2
      <4>. QED
        BY <4>3 DEF q
    <3>5. CASE x \in gratis
      <4>1. QueuedFree = {t}
        BY <2>7, <3>5 DEF QueuedFree, x
      <4>2. q = 1
        BY <4>1, FS_Singleton
      <4>3. Sum(money') = Sum(money)
        BY <2>1, <2>4, <3>5
      <4>. HIDE DEF h, i, d, o, q
      <4>4. Pennies' <= Pennies + waitcost * q
        BY <2>1, <2>2, <3>3, <4>2, <4>3
      <4>. QED
        BY <4>4 DEF q
    <3>. QED
      BY <3>4, <3>5
  <2>. QED
    BY <2>6, <2>7
<1>7. Owned'
  BY DEF AccountsInv, Owned
<1>. QED
  BY <1>4, <1>5, <1>6, <1>7 DEF Accounted, AccountsInv, NoneMinted, CountsAgree

LEMMA SameTasks ==
  ASSUME AccountsInv, Inv', UNCHANGED <<owner, garbage, drift, money, queue>>, Tasks' = Tasks
  PROVE  Accounted
BY SameEntries

LEMMA WaitAccounted ==
  ASSUME AccountsInv, Inv', NEW x, Owner(x) \in Players,
         NEW t \in TaskType, t.m_Ticket = m_Ticket, t.arg.executor = x,
         NEW counts, wait_que(x, {t}, counts)
  PROVE  Accounted
<1>. PICK a \in Surcharges :
       LET cost == waitcost + a IN
       \/ /\ Refused(x, cost)
          /\ semaphore' = counts
          /\ UNCHANGED <<schedulerVars, objectVars, money, queue>>
       \/ /\ ~Refused(x, cost)
          /\ RunsAway(x)
          /\ halt_que(OwnedBy(Owner(x)), payfor(x, cost), counts)
          /\ halted' = halted \cup {x}
          /\ UNCHANGED <<m_Ticket, m_minPriority, owner, gratis, going, garbage, drift>>
       \/ /\ ~Refused(x, cost)
          /\ ~RunsAway(x)
          /\ TicketFree(0)
          /\ m_WhenHeap' = m_WhenHeap \cup {t}
          /\ TicketTaken
          /\ money' = payfor(x, cost)
          /\ queue' = [queue EXCEPT ![Owner(x)] = @ + 1]
          /\ semaphore' = counts
          /\ UNCHANGED <<m_PriorityHeap, m_minPriority, objectVars>>
  BY DEF wait_que
<1>. DEFINE cost == waitcost + a
<1>1. a \in Nat /\ cost \in Nat /\ -cost \in Int /\ -cost <= 0
  BY QueueAssumption
<1>. HIDE DEF cost
<1>2. CASE UNCHANGED <<schedulerVars, objectVars, money, queue>>
  <2>1. Tasks' = Tasks /\ UNCHANGED <<owner, garbage, drift, money, queue>>
    BY <1>2 DEF schedulerVars, objectVars, Tasks
  <2>. QED
    BY <2>1, SameTasks
<1>3. CASE halt_que(OwnedBy(Owner(x)), payfor(x, cost), counts) /\ UNCHANGED <<owner, garbage, drift>>
  <2>1. /\ payfor(x, cost) \in [Players -> Int] /\ Sum(money) \in Int
        /\ Sum(payfor(x, cost)) = Sum(money) + IF Owner(x) \in Players \ Free /\ x \notin gratis
                                               THEN -cost ELSE 0
    BY <1>1, PlusSum DEF payfor, AccountsInv, Inv, AccountInv
  <2>2. Sum(payfor(x, cost)) <= Sum(money)
    BY <1>1, <2>1
  <2>3. OwnedBy(Owner(x)) \in SUBSET Tasks
    BY DEF OwnedBy
  <2>. QED
    BY <1>3, <2>1, <2>2, <2>3, HaltAccounted
<1>4. CASE /\ TicketFree(0)
           /\ m_WhenHeap' = m_WhenHeap \cup {t}
           /\ money' = payfor(x, cost)
           /\ queue' = [queue EXCEPT ![Owner(x)] = @ + 1]
           /\ UNCHANGED <<m_PriorityHeap, objectVars>>
  <2>1. Tasks' = Tasks \cup {t} /\ UNCHANGED <<owner, garbage, drift>>
    BY <1>4 DEF Tasks, objectVars
  <2>2. \A u \in Tasks : u.m_Ticket # t.m_Ticket
    BY <1>4, FreshTicket DEF AccountsInv, Inv
  <2>. QED
    BY <1>1, <1>4, <2>1, <2>2, OneMore DEF cost
<1>. QED
  BY <1>2, <1>3, <1>4 DEF cost

-----------------------------------------------------------------------------
(* The actions.                                                            *)

(* Whatever is not garbage counts for a player. *)
LEMMA OwnerPlays ==
  ASSUME Owned, NEW x \in Objects, x \in Players \/ Good(x)
  PROVE  Owner(x) \in Players
BY DEF Owned, Owner, Good, Objects

LEMMA QueueNowAccounted ==
  ASSUME AccountsInv, Inv', NEW x, NEW e \in Objects, NEW victim \in Objects,
         QueueNow(x, e, victim)
  PROVE  Accounted
<1>. DEFINE t == TaskRecord(Immediately, Priority(e), "Task_RunQueueEntry",
                            BQUE(victim, e, FALSE, NoSemaphore))
<1>1. t \in TaskType /\ t.m_Ticket = m_Ticket /\ t.arg.executor = victim
  BY PriorityType
  DEF Immediately, AccountsInv, Inv, ObjectInv, TaskRecord, BQUE, TaskType, EntryType
<1>2. wait_que(victim, {t}, semaphore) /\ Good(victim)
  BY DEF QueueNow, DeferImmediateTask
<1>. HIDE DEF t
<1>3. Owner(victim) \in Players
  BY <1>2, OwnerPlays DEF AccountsInv
<1>. QED
  BY <1>1, <1>2, <1>3, WaitAccounted

LEMMA WaitTimedAccounted ==
  ASSUME AccountsInv, Inv', NEW x \in Objects, NEW e \in Objects, NEW delay \in Delays,
         WaitTimed(x, e, delay)
  PROVE  Accounted
<1>. DEFINE t == TaskRecord(Now + delay, Priority(e), "Task_RunQueueEntry",
                            BQUE(x, e, TRUE, NoSemaphore))
<1>1. Now + delay \in Nat
  BY NowAssumption, QueueAssumption
<1>2. t \in TaskType /\ t.m_Ticket = m_Ticket /\ t.arg.executor = x
  BY <1>1, PriorityType DEF AccountsInv, Inv, ObjectInv, TaskRecord, BQUE, TaskType, EntryType
<1>3. wait_que(x, {t}, semaphore) /\ Executes(x, e)
  BY DEF WaitTimed, DeferTask
<1>. HIDE DEF t
<1>4. Owner(x) \in Players
  BY <1>3, OwnerPlays DEF AccountsInv, Executes, Good
<1>. QED
  BY <1>2, <1>3, <1>4, WaitAccounted

LEMMA WaitSemaphoreAccounted ==
  ASSUME AccountsInv, Inv', NEW x \in Objects, NEW e \in Objects, NEW s \in Semaphores,
         WaitSemaphore(x, e, s)
  PROVE  Accounted
<1>. DEFINE now == TaskRecord(Immediately, Priority(e), "Task_RunQueueEntry",
                              BQUE(x, e, FALSE, NoSemaphore))
            later == TaskRecord(Immediately, PRIORITY_SUSPEND, "Task_SemaphoreTimeout",
                                BQUE(x, e, FALSE, s))
            t == IF semaphore[s] + 1 <= 0 THEN now ELSE later
<1>1. /\ now \in TaskType /\ now.m_Ticket = m_Ticket /\ now.arg.executor = x
      /\ later \in TaskType /\ later.m_Ticket = m_Ticket /\ later.arg.executor = x
  BY PriorityType
  DEF Immediately, AccountsInv, Inv, ObjectInv, TaskRecord, BQUE, TaskType, EntryType
<1>2. wait_que(x, IF semaphore[s] + 1 <= 0 THEN {now} ELSE {later}, add_to(s, 1)) /\ Executes(x, e)
  BY DEF WaitSemaphore, DeferImmediateTask
<1>. HIDE DEF now, later
<1>3. wait_que(x, {t}, add_to(s, 1)) /\ t \in TaskType /\ t.m_Ticket = m_Ticket
      /\ t.arg.executor = x
  BY <1>1, <1>2
<1>. HIDE DEF t
<1>4. Owner(x) \in Players
  BY <1>2, OwnerPlays DEF AccountsInv, Executes, Good
<1>. QED
  BY <1>3, <1>4, WaitAccounted

LEMMA WaitSemaphoreTimedAccounted ==
  ASSUME AccountsInv, Inv', NEW x \in Objects, NEW e \in Objects, NEW s \in Semaphores,
         NEW delay \in Delays, WaitSemaphoreTimed(x, e, s, delay)
  PROVE  Accounted
<1>. DEFINE now == TaskRecord(Immediately, Priority(e), "Task_RunQueueEntry",
                              BQUE(x, e, FALSE, NoSemaphore))
            later == TaskRecord(Now + delay, Priority(e), "Task_SemaphoreTimeout",
                                BQUE(x, e, TRUE, s))
            t == IF semaphore[s] + 1 <= 0 THEN now ELSE later
<1>0. Now + delay \in Nat
  BY NowAssumption, QueueAssumption
<1>1. /\ now \in TaskType /\ now.m_Ticket = m_Ticket /\ now.arg.executor = x
      /\ later \in TaskType /\ later.m_Ticket = m_Ticket /\ later.arg.executor = x
  BY <1>0, PriorityType
  DEF Immediately, AccountsInv, Inv, ObjectInv, TaskRecord, BQUE, TaskType, EntryType
<1>2. wait_que(x, IF semaphore[s] + 1 <= 0 THEN {now} ELSE {later}, add_to(s, 1)) /\ Executes(x, e)
  BY DEF WaitSemaphoreTimed, DeferImmediateTask, DeferTask
<1>. HIDE DEF now, later
<1>3. wait_que(x, {t}, add_to(s, 1)) /\ t \in TaskType /\ t.m_Ticket = m_Ticket
      /\ t.arg.executor = x
  BY <1>1, <1>2
<1>. HIDE DEF t
<1>4. Owner(x) \in Players
  BY <1>2, OwnerPlays DEF AccountsInv, Executes, Good
<1>. QED
  BY <1>3, <1>4, WaitAccounted

(* Notified entries stay queued, and stay paid for. *)
LEMMA NotifiedAccounted ==
  ASSUME AccountsInv, Inv', UNCHANGED objectVars, NEW s, NEW chosen, NotifyWaiters(s, chosen)
  PROVE  Accounted
<1>1. Tasks \in SUBSET TaskType
  BY HeapFacts DEF AccountsInv, Inv
<1>2. ASSUME NEW t \in Tasks
      PROVE  /\ AfterNotify(t, s, chosen).m_Ticket = t.m_Ticket
             /\ AfterNotify(t, s, chosen).arg = t.arg
  BY <1>1 DEF AfterNotify, Notified, TaskType
<1>3. Tasks' = {AfterNotify(t, s, chosen) : t \in Tasks}
  BY DEF NotifyWaiters, NotifiedIn, Tasks
<1>4. UNCHANGED <<owner, garbage, drift, money, queue>>
  BY DEF objectVars, NotifyWaiters
<1>5. \A u \in Tasks' : \E t \in Tasks :
        t.m_Ticket = u.m_Ticket /\ t.arg.executor = u.arg.executor
  BY <1>2, <1>3
<1>6. \A t \in Tasks : \E u \in Tasks' :
        t.m_Ticket = u.m_Ticket /\ t.arg.executor = u.arg.executor
  BY <1>2, <1>3
<1>. QED
  BY <1>4, <1>5, <1>6, SameEntries

LEMMA NotifyAccounted ==
  ASSUME AccountsInv, Inv', NEW x, NEW e, NEW s,
         NotifyAll(x, e, s) \/ \E count \in Counts : Notify(x, e, s, count)
  PROVE  Accounted
<1>1. UNCHANGED objectVars
  BY DEF Notify, NotifyAll
<1>2. CASE \E chosen : NotifyWaiters(s, chosen)
  BY <1>1, <1>2, NotifiedAccounted
<1>3. CASE UNCHANGED <<schedulerVars, money, queue>>
  <2>1. Tasks' = Tasks /\ UNCHANGED <<owner, garbage, drift, money, queue>>
    BY <1>1, <1>3 DEF schedulerVars, objectVars, Tasks
  <2>. QED
    BY <2>1, SameTasks
<1>. QED
  BY <1>2, <1>3 DEF Notify, NotifyAll

LEMMA DrainAccounted ==
  ASSUME AccountsInv, Inv', NEW x, NEW e, NEW s, Drain(x, e, s)
  PROVE  Accounted
<1>. DEFINE gone == IF semaphore[s] > 0 THEN TasksWaiting(s) ELSE {}
            counts == [semaphore EXCEPT ![s] = 0]
<1>1. gone \in SUBSET Tasks
  BY DEF TasksWaiting
<1>2. Discard(gone, Refunded(gone), money, counts) /\ UNCHANGED <<owner, garbage, drift>>
  BY DEF Drain, objectVars
<1>. HIDE DEF gone, counts
<1>. QED
  BY <1>1, <1>2, HaltOnly

(* Time passing and @timewarp. *)
LEMMA MovedAccounted ==
  ASSUME AccountsInv, Inv', Tick \/ \E x, e \in Objects : \E warp \in Warps : CallBack_Warp(x, e, warp)
  PROVE  Accounted
<1>1. Tasks \in SUBSET TaskType
  BY HeapFacts DEF AccountsInv, Inv
<1>2. UNCHANGED <<owner, garbage, drift, money, queue>>
  BY DEF Tick, CallBack_Warp, objectVars, accountVars
<1>3. CASE Tick
  <2>1. Tasks' = {AgedTask(t) : t \in Tasks}
    BY <1>3 DEF Tick, SchedulerTick, AgedHeap, Tasks
  <2>2. ASSUME NEW t \in Tasks
        PROVE  AgedTask(t).m_Ticket = t.m_Ticket /\ AgedTask(t).arg = t.arg
    BY <1>1 DEF AgedTask, TaskType
  <2>. QED
    BY <1>2, <2>1, <2>2, SameEntries
<1>4. ASSUME NEW x \in Objects, NEW e \in Objects, NEW warp \in Warps, CallBack_Warp(x, e, warp)
      PROVE  Accounted
  <2>1. Tasks' = {Warped(t, warp) : t \in Tasks}
    BY <1>4 DEF CallBack_Warp, WarpedHeap, Tasks
  <2>2. ASSUME NEW t \in Tasks
        PROVE  Warped(t, warp).m_Ticket = t.m_Ticket /\ Warped(t, warp).arg = t.arg
    BY <1>1 DEF Warped, TaskType
  <2>. QED
    BY <1>2, <2>1, <2>2, SameEntries
<1>. QED
  BY <1>3, <1>4

LEMMA ReadyAccounted ==
  ASSUME AccountsInv, Inv', Ready
  PROVE  Accounted
<1>1. {t \in Due : t.fpTask # NoTask} = Due /\ Due \in SUBSET m_WhenHeap
  <2>1. Tasks \in SUBSET TaskType
    BY HeapFacts DEF AccountsInv, Inv
  <2>. QED
    BY <2>1, TaskFields DEF Due, NoTask, Tasks
<1>2. Tasks' = Tasks
  BY <1>1 DEF Ready, ReadyTasks, ReadiedWhenHeap, ReadiedPriorityHeap, Tasks
<1>3. UNCHANGED <<owner, garbage, drift, money, queue>>
  BY DEF Ready, objectVars, accountVars
<1>. QED
  BY <1>2, <1>3, SameTasks

LEMMA RunEntryAccounted ==
  ASSUME AccountsInv, Inv', NEW t \in m_PriorityHeap, RunEntry(t)
  PROVE  Accounted
<1>1. t \in Tasks /\ Tasks' = Tasks \ {t} /\ UNCHANGED <<owner, garbage>>
  BY DEF RunEntry, Tasks, AccountsInv, Inv, HeapInv, TicketsUnique
<1>2. CASE t.arg.executor \in going
  BY <1>1, <1>2, Forgotten DEF RunEntry
<1>3. CASE t.arg.executor \notin going
  BY <1>1, <1>3, PaidBack DEF RunEntry, GivenBack
<1>. QED
  BY <1>2, <1>3

(* do_chown: the entries of the thing leave the new owner's count, and the *)
(* drift says from whose they are missing.                                 *)
LEMMA ChownCounts ==
  ASSUME AccountsInv, Inv', NEW thing \in Things, NEW new \in Players, NEW gone, NEW n,
         gone = RunFrom(thing), n = Cardinality(gone), owner[thing] \in Players,
         Tasks' = Tasks \ gone, owner' = [owner EXCEPT ![thing] = new],
         queue' = [queue EXCEPT ![new] = @ - n],
         drift' = [p \in Players |-> drift[p] + (IF p = owner[thing] THEN n ELSE 0)
                                              - (IF p = new THEN n ELSE 0)]
  PROVE  CountsAgree'
<1>1. /\ drift \in [Players -> Int] /\ queue \in [Players -> Int] /\ thing \notin Players
      /\ Tasks \in SUBSET TaskType /\ UniqueIn(Tasks) /\ gone \in SUBSET Tasks
      /\ n \in Nat /\ -n \in Int
  <2>1. Tasks \in SUBSET TaskType /\ UniqueIn(Tasks) /\ gone \in SUBSET Tasks
    BY HeapFacts DEF AccountsInv, Inv, RunFrom
  <2>2. Cardinality(gone) \in Nat
    BY <2>1, SubsetCount
  <2>. QED
    BY <2>1, <2>2, QueueAssumption DEF AccountsInv, Inv, AccountInv, ObjectInv
<1>2. OwnersStay(Tasks \ gone)
  BY DEF OwnersStay, RunFrom
<1>3. QueueCountsEntries'
  <2>. SUFFICES ASSUME NEW p \in Players
                PROVE  queue'[p] = Cardinality(Entries(p)') + drift'[p]
    BY DEF QueueCountsEntries
  <2>. DEFINE k == Cardinality(EntriesIn(gone, p))
  <2>1. Entries(p)' = EntriesIn(Tasks \ gone, p)
    BY <1>2 DEF Entries, EntriesIn, Owner, OwnersStay
  <2>2. /\ Cardinality(EntriesIn(Tasks \ gone, p)) = Cardinality(Entries(p)) - k
        /\ Cardinality(Entries(p)) \in Nat
    BY <1>1, EntriesLess DEF Entries
  <2>3. k = IF p = owner[thing] THEN n ELSE 0
    <3>1. EntriesIn(gone, p) = IF p = owner[thing] THEN Tickets(gone) ELSE {}
      BY <1>1 DEF EntriesIn, Tickets, Owner, RunFrom
    <3>2. Cardinality(Tickets(gone)) = n
      BY <1>1, SubsetCount
    <3>. QED
      BY <3>1, <3>2, FS_EmptySet
  <2>4. queue'[p] = queue[p] - (IF p = new THEN n ELSE 0) /\ queue[p] \in Int
    BY <1>1
  <2>5. drift'[p] = drift[p] + (IF p = owner[thing] THEN n ELSE 0) - (IF p = new THEN n ELSE 0)
        /\ drift[p] \in Int
    BY <1>1
  <2>6. queue[p] = Cardinality(Entries(p)) + drift[p]
    BY DEF AccountsInv, CountsAgree, QueueCountsEntries
  <2>. HIDE DEF k
  <2>. QED
    BY <1>1, <2>1, <2>2, <2>3, <2>4, <2>5, <2>6
<1>4. QueueTotal'
  <2>1. Sum(queue') = Sum(queue) - n /\ Sum(queue) \in Int
    <3>1. queue[new] + (-n) = queue[new] - n
      BY <1>1
    <3>2. RaisedBy(queue, queue', new, -n)
      BY <3>1 DEF RaisedBy
    <3>3. Sum(queue) \in Int /\ Sum(queue') = Sum(queue) + (-n)
      BY <1>1, <3>2, FiniteAssumption, SumChange
    <3>. QED
      BY <1>1, <3>3
  <2>2. Cardinality(Tasks \ gone) = Cardinality(Tasks) - n /\ Cardinality(Tasks) \in Nat
    BY <1>1, SubsetCount, TasksCount
  <2>3. Sum(queue) >= Cardinality(Tasks)
    BY DEF AccountsInv, CountsAgree, QueueTotal
  <2>4. Sum(queue') >= Cardinality(Tasks \ gone)
    BY <1>1, <2>1, <2>2, <2>3
  <2>. QED
    BY <2>4 DEF QueueTotal
<1>. QED
  BY <1>3, <1>4 DEF CountsAgree

LEMMA PurseChange ==
  ASSUME NEW f \in [Players -> Int], NEW g, NEW p \in Players, NEW w \in Int,
         RaisedBy(f, g, p, w)
  PROVE  Sum(f) \in Int /\ Sum(g) = Sum(f) + w
BY FiniteAssumption, SumChange

(* What the new owner pays the old one gets, and what the new owner gets   *)
(* back for the entries was held for them, if neither or both are free.    *)
LEMMA ChownMoney ==
  ASSUME AccountsInv, Inv', NEW x, NEW e, NEW thing \in Things, NEW new \in Players,
         Chown(x, e, thing, new), owner[thing] \in Players, owner[thing] \in Free <=> new \in Free,
         Cardinality({t.m_Ticket : t \in RunFrom(thing)}) = Cardinality(RunFrom(thing))
  PROVE  Pennies' <= Pennies
<1>. DEFINE old == owner[thing]
            paid == payfor(new, OBJECT_DEPOSIT)
            gone == RunFrom(thing)
            n == Cardinality(gone)
            credited == IF old \in Free THEN paid ELSE [paid EXCEPT ![old] = @ + OBJECT_DEPOSIT]
<1>0. /\ old \in Players /\ (old \in Free <=> new \in Free) /\ old = owner[thing]
      /\ paid = payfor(new, OBJECT_DEPOSIT) /\ gone = RunFrom(thing) /\ n = Cardinality(gone)
      /\ credited = IF old \in Free THEN paid ELSE [paid EXCEPT ![old] = @ + OBJECT_DEPOSIT]
      /\ Tasks' = Tasks \ gone /\ garbage' = garbage
      /\ owner' = [owner EXCEPT ![thing] = new]
      /\ money' = IF new \in Free THEN credited ELSE [credited EXCEPT ![new] = @ + waitcost * n]
  BY DEF Chown, Tasks
<1>. HIDE DEF old, paid, gone, n, credited
<1>. USE <1>0
<1>1. /\ money \in [Players -> Int] /\ thing \notin Players /\ IsFiniteSet(Players)
      /\ Tasks \in SUBSET TaskType /\ UniqueIn(Tasks) /\ gone \in SUBSET Tasks
      /\ n \in Nat /\ waitcost \in Nat /\ OBJECT_DEPOSIT \in Nat
  <2>1. Tasks \in SUBSET TaskType /\ UniqueIn(Tasks) /\ gone \in SUBSET Tasks
    BY HeapFacts DEF AccountsInv, Inv, RunFrom
  <2>2. Cardinality(gone) \in Nat
    BY <2>1, SubsetCount
  <2>. QED
    BY <2>1, <2>2, QueueAssumption, FiniteAssumption DEF AccountsInv, Inv, AccountInv
<1>2. Held(Tasks)' = Held(Tasks \ gone)
  BY DEF Held, Pays, Owner, RunFrom
<1>. DEFINE h == Cardinality(Held(Tasks))
            i == Cardinality(Held(Tasks \ gone))
            d == OBJECT_DEPOSIT * Cardinality(Things \ garbage)
<1>3. Pennies = Sum(money) + waitcost * h + d /\ Sum(money) \in Int /\ h \in Nat /\ d \in Int
  BY PenniesParts DEF AccountsInv
<1>4. Pennies' = Sum(money') + waitcost * i + d
  BY <1>2 DEF Pennies, Held
<1>5. CASE new \in Free
  <2>1. Held(Tasks \ gone) = Held(Tasks)
    BY <1>1, <1>5 DEF Held, Pays, Owner, RunFrom
  <2>2. money' = money
    BY <1>5 DEF payfor, Plus, Exempt, Pays, Owner
  <2>3. i = h /\ Sum(money') = Sum(money)
    BY <2>1, <2>2
  <2>4. waitcost * h \in Int
    BY <1>1, <1>3
  <2>. HIDE DEF h, i, d
  <2>. QED
    BY <1>3, <1>4, <2>3, <2>4
<1>6. CASE new \notin Free
  <2>1. gone \in SUBSET Held(Tasks) /\ Held(Tasks \ gone) = Held(Tasks) \ gone
    BY <1>1, <1>6 DEF Held, Pays, Owner, RunFrom
  <2>2. i = h - n
    <3>. DEFINE H == Held(Tasks)
    <3>1. H \in SUBSET Tasks
      BY DEF Held
    <3>2. H \in SUBSET TaskType /\ UniqueIn(H)
      BY <1>1, <3>1, SubsetCount
    <3>. HIDE DEF H
    <3>3. gone \in SUBSET H /\ Held(Tasks \ gone) = H \ gone
      BY <2>1 DEF H
    <3>4. Cardinality(H \ gone) = Cardinality(H) - Cardinality(gone)
      BY <3>2, <3>3, SubsetCount
    <3>. QED
      BY <3>3, <3>4 DEF H
  <2>3. paid \in [Players -> Int] /\ Sum(paid) = Sum(money) - OBJECT_DEPOSIT
    <3>1. paid = Plus(money, new, -OBJECT_DEPOSIT) /\ -OBJECT_DEPOSIT \in Int /\ Owner(new) = new
      BY <1>1 DEF payfor, Owner
    <3>3. new \notin gratis
      BY QueueAssumption DEF AccountsInv, Inv, ObjectInv
    <3>2. paid \in [Players -> Int] /\ Sum(paid) = Sum(money) + (-OBJECT_DEPOSIT)
      BY <1>1, <1>6, <3>1, <3>3, PlusSum
    <3>. QED
      BY <1>1, <1>3, <3>2
  <2>4. credited \in [Players -> Int] /\ Sum(credited) = Sum(paid) + OBJECT_DEPOSIT
        /\ Sum(paid) \in Int
    <3>1. RaisedBy(paid, credited, old, OBJECT_DEPOSIT) /\ OBJECT_DEPOSIT \in Int
      BY <1>1, <1>6 DEF RaisedBy
    <3>. QED
      BY <1>1, <2>3, <3>1, SumChange
  <2>5. Sum(money') = Sum(credited) + waitcost * n /\ Sum(credited) \in Int
    <3>1. PICK w \in Int : w = waitcost * n
      BY <1>1
    <3>2. RaisedBy(credited, money', new, w)
      BY <1>1, <1>6, <3>1 DEF RaisedBy
    <3>3. IsFiniteSet(Players) /\ credited \in [Players -> Int]
      BY <1>1, <2>4
    <3>4. Sum(money') = Sum(credited) + w /\ Sum(credited) \in Int
      <4>. HIDE <1>0
      <4>. QED
        BY <3>2, <3>3, PurseChange
    <3>. QED
      BY <3>1, <3>4
  <2>6. waitcost * i = waitcost * h - waitcost * n /\ waitcost * h \in Int /\ waitcost * n \in Int
    <3>. HIDE DEF h, i
    <3>. QED
      BY <1>1, <1>3, <2>2
  <2>. HIDE DEF h, i, d
  <2>. QED
    BY <1>1, <1>3, <1>4, <2>3, <2>4, <2>5, <2>6
<1>. QED
  BY <1>5, <1>6

LEMMA ChownAccounted ==
  ASSUME AccountsInv, Inv', NEW x, NEW e, NEW thing \in Things, NEW new \in Players,
         Chown(x, e, thing, new)
  PROVE  Accounted
<1>. DEFINE cost == OBJECT_DEPOSIT
            old == owner[thing]
            paid == payfor(new, cost)
            gone == RunFrom(thing)
            n == Cardinality({t.m_Ticket : t \in gone})
            credited == IF old \in Free THEN paid ELSE [paid EXCEPT ![old] = @ + cost]
<1>1. /\ Tasks' = Tasks \ gone
      /\ money' = IF new \in Free THEN credited ELSE [credited EXCEPT ![new] = @ + waitcost * n]
      /\ queue' = [queue EXCEPT ![new] = @ - n]
      /\ owner' = [owner EXCEPT ![thing] = new]
      /\ drift' = [p \in Players |->
                     drift[p] + (IF p = old THEN n ELSE 0) - (IF p = new THEN n ELSE 0)]
      /\ garbage' = garbage /\ thing \notin garbage
  BY DEF Chown, Tasks, Good
<1>2. old \in Players
  BY <1>1 DEF AccountsInv, Owned
<1>3. n = Cardinality(gone)
  <2>1. Tasks \in SUBSET TaskType /\ UniqueIn(Tasks) /\ gone \in SUBSET Tasks
    BY HeapFacts DEF AccountsInv, Inv, RunFrom
  <2>. QED
    BY <2>1, SubsetCount DEF Tickets
<1>4. Owned'
  BY <1>1 DEF AccountsInv, Owned, Inv, ObjectInv
<1>5. owner'[thing] = new
  BY <1>1 DEF AccountsInv, Inv, ObjectInv
<1>6. CountsAgree'
  <2>. HIDE DEF n
  <2>. QED
    BY <1>1, <1>2, <1>3, ChownCounts
<1>7. ASSUME owner[thing] \in Free <=> owner'[thing] \in Free
      PROVE  Pennies' <= Pennies
  <2>. QED
    BY <1>2, <1>3, <1>5, <1>7, ChownMoney
<1>. QED
  BY <1>1, <1>4, <1>6, <1>7, NotMore DEF Accounted, AccountsInv, NoneMinted

(* destroy_obj: the deposit was in the thing. *)
LEMMA DestroyAccounted ==
  ASSUME AccountsInv, Inv', NEW thing \in Things \ garbage, destroy_obj(thing)
  PROVE  Accounted
<1>. DEFINE halts == RunFrom(thing)
            drained == {t \in Tasks : \E s \in Semaphores : s[1] = thing /\ IsWaiter(t, s)}
            gone == halts \cup drained
            back == halts \cup Refunded(drained)
            purses == giveto(Owner(thing), OBJECT_DEPOSIT)
            counts == [s \in Semaphores |->
                         IF s[1] = thing THEN 0
                         ELSE semaphore[s] - Cardinality(WaitersIn(halts, s))]
<1>1. /\ Inv /\ CountsAgree /\ gone \in SUBSET Tasks /\ RunFrom(thing) \in SUBSET gone
      /\ back \in SUBSET gone /\ Discard(gone, back, purses, counts)
      /\ owner' = [owner EXCEPT ![thing] = GOD]
      /\ garbage' = garbage \cup {thing} /\ drift' = drift
  BY DEF destroy_obj, AccountsInv, RunFrom, Refunded
<1>. HIDE DEF gone, back, counts
<1>2. /\ Tasks' = Tasks \ gone
      /\ money' = [p \in Players |-> purses[p] + IF p \in Free THEN 0
                                      ELSE waitcost * Cardinality(EntriesIn(back, p))]
      /\ queue' = [p \in Players |-> queue[p] - Cardinality(EntriesIn(gone, p))]
  BY <1>1 DEF Discard, Tasks
<1>3. OwnersStay(Tasks \ gone)
  BY <1>1 DEF OwnersStay, RunFrom
<1>4. CountsAgree'
  BY <1>1, <1>2, <1>3, CountsHalted
<1>5. OBJECT_DEPOSIT \in Nat /\ OBJECT_DEPOSIT \in Int /\ money \in [Players -> Int]
  BY QueueAssumption DEF AccountsInv, Inv, AccountInv
<1>6. /\ purses \in [Players -> Int]
      /\ \/ Sum(purses) = Sum(money) + OBJECT_DEPOSIT
         \/ Sum(purses) = Sum(money) + 0
  BY <1>5, PlusSum DEF giveto
<1>. HIDE DEF purses
<1>7. Pennies' <= Pennies
  <2>. DEFINE h == waitcost * Cardinality(Held(Tasks))
              i == waitcost * Cardinality(Held(Tasks)')
              k == Cardinality(Things \ garbage)
              l == Cardinality(Things \ garbage')
  <2>1. Sum(money') + i <= Sum(purses) + h
    BY <1>1, <1>2, <1>3, <1>6, MoneyHalted
  <2>2. Pennies = Sum(money) + h + OBJECT_DEPOSIT * k /\ Sum(money) \in Int /\ h \in Int
        /\ IsFiniteSet(Things \ garbage) /\ k \in Nat
    BY <1>1, PenniesParts
  <2>3. Pennies' = Sum(money') + i + OBJECT_DEPOSIT * l
    BY DEF Pennies, Held
  <2>4. Sum(money') \in Int
    BY SumInt DEF Inv, AccountInv
  <2>5. i \in Int
    <3>1. Cardinality(Held(Tasks)') \in Nat
      <4>1. Tasks \in SUBSET TaskType /\ UniqueIn(Tasks)
        BY <1>1, HeapFacts DEF Inv
      <4>2. Held(Tasks)' \in SUBSET Tasks
        BY <1>2 DEF Held
      <4>. QED
        BY <4>1, <4>2, SubsetCount
    <3>. QED
      BY <3>1, QueueAssumption
  <2>6. l = k - 1
    <3>1. Things \ garbage' = (Things \ garbage) \ {thing}
      BY <1>1
    <3>. QED
      BY <2>2, <3>1, FS_RemoveElement
  <2>. HIDE DEF h, i, k, l
  <2>7. OBJECT_DEPOSIT * l = OBJECT_DEPOSIT * k - OBJECT_DEPOSIT /\ OBJECT_DEPOSIT * k \in Int
    BY <1>5, <2>2, <2>6
  <2>8. Sum(purses) <= Sum(money) + OBJECT_DEPOSIT /\ Sum(purses) \in Int
    BY <1>5, <1>6, <2>2
  <2>. QED
    BY <1>5, <2>1, <2>2, <2>3, <2>4, <2>5, <2>7, <2>8
<1>8. Owned'
  BY <1>1 DEF AccountsInv, Owned
<1>. QED
  BY <1>1, <1>4, <1>7, <1>8, NotMore DEF Accounted, AccountsInv

-----------------------------------------------------------------------------
(* The theorems.                                                           *)

LEMMA InitAccounts == Init => AccountsInv
<1>. SUFFICES ASSUME Init PROVE AccountsInv
  OBVIOUS
<1>1. Tasks = {} /\ \A p : Entries(p) = {}
  BY DEF Init, Tasks, Entries, EntriesIn
<1>2. Cardinality(Tasks) = 0 /\ \A p : Cardinality(Entries(p)) = 0
  BY <1>1, FS_EmptySet
<1>3. QueueCountsEntries
  BY <1>2 DEF QueueCountsEntries, Init
<1>4. Sum(queue) = 0
  <2>1. queue \in [Players -> Int] /\ Opposite(queue) = queue
    <3>1. queue \in [Players -> Int]
      BY DEF Init
    <3>2. /\ Opposite(queue) \in [Players -> Int]
          /\ \A p \in Players : Opposite(queue)[p] = -queue[p]
      BY <3>1, OppositeType
    <3>3. ASSUME NEW p \in Players PROVE Opposite(queue)[p] = queue[p]
      <4>1. PICK i \in Int : i = queue[p] /\ i <= 0 /\ i >= 0
        BY <3>1 DEF Init
      <4>2. PICK j \in Int : j = Opposite(queue)[p] /\ j = -i
        BY <3>2, <4>1
      <4>3. j = i
        BY <4>1, <4>2
      <4>. QED
        BY <4>1, <4>2, <4>3
    <3>. QED
      BY <3>1, <3>2, <3>3
  <2>2. Cardinality(Units(queue)) \in Nat
    BY <2>1, FiniteAssumption, UnitsAreFinite
  <2>3. Sum(queue) = Cardinality(Units(queue)) - Cardinality(Units(Opposite(queue)))
    BY <2>1, OppositeType
  <2>. QED
    BY <2>1, <2>2, <2>3
<1>5. QueueTotal
  BY <1>2, <1>4 DEF QueueTotal
<1>6. Owned
  BY DEF Owned, Init
<1>. QED
  BY <1>3, <1>5, <1>6, InitInv DEF AccountsInv, CountsAgree

LEMMA CommandAccounts ==
  ASSUME AccountsInv, Inv', NEW x \in Objects, NEW e \in Objects, Command(x, e)
  PROVE  Accounted
<1>1. ASSUME NEW victim \in Objects, QueueNow(x, e, victim) PROVE Accounted
  BY <1>1, QueueNowAccounted
<1>2. ASSUME NEW delay \in Delays, WaitTimed(x, e, delay) PROVE Accounted
  BY <1>2, WaitTimedAccounted
<1>3. ASSUME NEW s \in Semaphores, WaitSemaphore(x, e, s) PROVE Accounted
  BY <1>3, WaitSemaphoreAccounted
<1>4. ASSUME NEW s \in Semaphores, NEW delay \in Delays, WaitSemaphoreTimed(x, e, s, delay)
      PROVE  Accounted
  BY <1>4, WaitSemaphoreTimedAccounted
<1>5. ASSUME NEW s \in Semaphores,
             NotifyAll(x, e, s) \/ \E count \in Counts : Notify(x, e, s, count)
      PROVE  Accounted
  BY <1>5, NotifyAccounted
<1>6. ASSUME NEW s \in Semaphores, Drain(x, e, s) PROVE Accounted
  BY <1>6, DrainAccounted
<1>7. ASSUME NEW target \in Objects, Halt(x, e, target) PROVE Accounted
  <2>. DEFINE gone == IF target \in Players THEN OwnedBy(target) ELSE RunFrom(target)
  <2>1. gone \in SUBSET Tasks
    BY DEF OwnedBy, RunFrom
  <2>2. halt_que(gone, money, semaphore) /\ UNCHANGED <<owner, garbage, drift>>
    BY <1>7 DEF Halt, objectVars
  <2>. HIDE DEF gone
  <2>. QED
    BY <2>1, <2>2, HaltOnly
<1>8. ASSUME HaltAll(x, e) PROVE Accounted
  <2>1. halt_que(Tasks, money, semaphore) /\ UNCHANGED <<owner, garbage, drift>>
        /\ Tasks \in SUBSET Tasks
    BY <1>8 DEF HaltAll, objectVars
  <2>. QED
    BY <2>1, HaltOnly
<1>9. ASSUME UNCHANGED <<m_WhenHeap, m_PriorityHeap, owner, garbage, drift, accountVars>>
      PROVE  Accounted
  <2>1. Tasks' = Tasks /\ UNCHANGED <<owner, garbage, drift, money, queue>>
    BY <1>9 DEF Tasks, accountVars
  <2>. QED
    BY <2>1, SameTasks
<1>10. ASSUME NEW target \in Objects, SetHalted(x, e, target) PROVE Accounted
  BY <1>9, <1>10 DEF SetHalted, schedulerVars
<1>11. ASSUME NEW warp \in Warps, CallBack_Warp(x, e, warp) PROVE Accounted
  BY <1>11, MovedAccounted
<1>12. ASSUME SetMinPriority(x, e) PROVE Accounted
  BY <1>9, <1>12 DEF SetMinPriority, objectVars
<1>13. ASSUME NEW thing \in Things, NEW new \in Players, Chown(x, e, thing, new) PROVE Accounted
  BY <1>13, ChownAccounted
<1>14. ASSUME NEW thing \in Things, Destroy(x, e, thing) PROVE Accounted
  BY <1>9, <1>14 DEF Destroy, schedulerVars
<1>15. ASSUME NEW thing \in Things, DestroyInstant(x, e, thing) PROVE Accounted
  BY <1>15, DestroyAccounted DEF DestroyInstant
<1>16. ASSUME NEW thing \in Things, SetGratis(x, e, thing) PROVE Accounted
  BY <1>9, <1>16 DEF SetGratis, schedulerVars
<1>. QED
  BY <1>1, <1>2, <1>3, <1>4, <1>5, <1>6, <1>7, <1>8, <1>10, <1>11, <1>12, <1>13, <1>14, <1>15, <1>16
  DEF Command

LEMMA NextAccounts == AccountsInv /\ [Next]_vars => Accounted
<1>. SUFFICES ASSUME AccountsInv, [Next]_vars PROVE Accounted
  OBVIOUS
<1>. Inv'
  BY NextInv DEF AccountsInv
<1>1. ASSUME NEW x \in Objects, NEW e \in Objects, Command(x, e) PROVE Accounted
  BY <1>1, CommandAccounts
<1>2. ASSUME NEW thing \in Things, purge_going(thing) PROVE Accounted
  BY <1>2, DestroyAccounted DEF purge_going
<1>3. CASE Ready
  BY <1>3, ReadyAccounted
<1>4. ASSUME NEW t \in m_PriorityHeap, RunEntry(t) PROVE Accounted
  BY <1>4, RunEntryAccounted
<1>5. ASSUME UNCHANGED <<schedulerVars, objectVars, accountVars>> PROVE Accounted
  <2>1. Tasks' = Tasks /\ UNCHANGED <<owner, garbage, drift, money, queue>>
    BY <1>5 DEF Tasks, schedulerVars, objectVars, accountVars
  <2>. QED
    BY <2>1, SameTasks
<1>6. CASE EndEntry
  BY <1>5, <1>6 DEF EndEntry
<1>7. CASE Alarm
  <2>. DEFINE gone == OwnedBy(running.enactor) \cup OwnedBy(running.executor)
  <2>1. gone \in SUBSET Tasks
    BY DEF OwnedBy
  <2>2. halt_que(gone, money, semaphore) /\ UNCHANGED <<owner, garbage, drift>>
    BY <1>7 DEF Alarm
  <2>. HIDE DEF gone
  <2>. QED
    BY <2>1, <2>2, HaltOnly
<1>8. ASSUME NEW player \in Players, AlarmTyped(player) PROVE Accounted
  <2>1. OwnedBy(player) \in SUBSET Tasks
    BY DEF OwnedBy
  <2>2. halt_que(OwnedBy(player), money, semaphore) /\ UNCHANGED <<owner, garbage, drift>>
    BY <1>8 DEF AlarmTyped
  <2>. QED
    BY <2>1, <2>2, HaltOnly
<1>9. CASE Tick
  BY <1>9, MovedAccounted
<1>10. CASE UNCHANGED vars
  BY <1>5, <1>10 DEF vars
<1>. QED
  BY <1>1, <1>2, <1>3, <1>4, <1>6, <1>7, <1>8, <1>9, <1>10 DEF Next, Dequeue

(* The inductive invariant holds of every reachable state. *)
THEOREM AccountsInvariant == Spec => []AccountsInv
<1>1. AccountsInv /\ [Next]_vars => AccountsInv'
  BY NextAccounts DEF Accounted
<1>. QED
  BY <1>1, InitAccounts, PTL DEF Spec

(* However commands are queued, waited for, run, halted, drained, chowned  *)
(* and orphaned by the destruction of what queued them: the queue count of *)
(* each player is exact but for its drift, and all the counts together     *)
(* never fall short of what is queued.                                     *)
THEOREM CountsAlwaysAgree == Spec => []CountsAgree
<1>1. AccountsInv => CountsAgree
  BY DEF AccountsInv
<1>. QED
  BY <1>1, AccountsInvariant, PTL

(* Unless a thing moves between a player who pays and one who does not, no *)
(* step of the queue adds to the pennies in purses, in things, and held    *)
(* for what is queued: every refund was paid for, and only once.  What a   *)
(* thing queues free for an owner who pays (payfor, predicates.cpp:259)    *)
(* was not, and adds one waitcost for each command, when it is queued, and *)
(* nothing later.                                                          *)
THEOREM NoPennyMinted == Spec => PenniesNotMinted
<1>1. AccountsInv /\ [Next]_vars => [NoneMinted]_vars
  BY NextAccounts DEF Accounted
<1>. QED
  BY <1>1, AccountsInvariant, PTL DEF Spec, PenniesNotMinted, NoneMinted
=============================================================================
