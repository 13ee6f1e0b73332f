---------------------------- MODULE MainLoopProofs ----------------------------
(***************************************************************************)
(* Proofs about the main loop, for any number of descriptors, recurring    *)
(* tasks, commands and tickets: who needs a task has exactly one, select   *)
(* never sleeps on work, and untimed tasks run in the order in which they  *)
(* were scheduled.                                                         *)
(***************************************************************************)
EXTENDS MainLoop, FiniteSetTheorems, WellFoundedInduction, TLAPS

-----------------------------------------------------------------------------
(* Arithmetic.                                                             *)

LEMMA DivideBounds ==
  ASSUME NEW a \in Nat, NEW b \in Nat \ {0}
  PROVE  a \div b \in Nat /\ b * (a \div b) \in Nat /\ b * (a \div b) <= a
OBVIOUS

LEMMA ProductType ==
  ASSUME NEW a \in Nat, NEW b \in Nat
  PROVE  a * b \in Nat
OBVIOUS

(* The rest of a difference of two tickets. *)
LEMMA DifferenceMod ==
  ASSUME NEW M \in Nat \ {0}, NEW a \in 0 .. M - 1, NEW b \in 0 .. M - 1
  PROVE  (a - b) % M = IF a >= b THEN a - b ELSE a - b + M
OBVIOUS

LEMMA SuccessorMod ==
  ASSUME NEW M \in Nat \ {0}, NEW a \in 0 .. M - 1
  PROVE  (a + 1) % M = IF a = M - 1 THEN 0 ELSE a + 1
OBVIOUS

LEMMA NextDifference ==
  ASSUME NEW M \in Nat \ {0}, NEW a \in 0 .. M - 1, NEW b \in 0 .. M - 1
  PROVE  (((a + 1) % M) - b) % M = IF (a - b) % M < M - 1 THEN ((a - b) % M) + 1 ELSE 0
<1>. DEFINE c == (a + 1) % M
<1>1. c = IF a = M - 1 THEN 0 ELSE a + 1
  BY SuccessorMod
<1>2. c \in 0 .. M - 1
  BY <1>1
<1>. HIDE DEF c
<1>3. (c - b) % M = IF c >= b THEN c - b ELSE c - b + M
  BY <1>2, DifferenceMod
<1>4. (a - b) % M = IF a >= b THEN a - b ELSE a - b + M
  BY DifferenceMod
<1>5. (c - b) % M = IF (a - b) % M < M - 1 THEN ((a - b) % M) + 1 ELSE 0
  BY <1>1, <1>3, <1>4
<1>. QED
  BY <1>5 DEF c

(* A set of numbers that is not empty has a least one. *)
LEMMA LeastOf ==
  ASSUME NEW S \in SUBSET Nat, S # {}
  PROVE  \E x \in S : \A y \in S : x <= y
<1>. DEFINE R == {ss \in Nat \X Nat : ss[1] < ss[2]}
<1>1. IsWellFoundedOn(R, Nat)
  BY NatLessThanWellFounded DEF OpToRel
<1>2. PICK x \in S : \A y \in S : ~ (<<y, x>> \in R)
  <2>. HIDE DEF R
  <2>. QED
    BY <1>1, WFMin
<1>3. ASSUME NEW y \in S, y < x
      PROVE  FALSE
  <2>1. <<y, x>> \in Nat \X Nat /\ <<y, x>>[1] < <<y, x>>[2]
    BY <1>3
  <2>2. <<y, x>> \in R
    BY <2>1
  <2>. QED
    BY <1>2, <2>2
<1>. QED
  BY <1>3

-----------------------------------------------------------------------------
(* The order of tasks: tickets are unique over both heaps, none is as old  *)
(* as half the ticket space, and an untimed task still in the when-heap is *)
(* younger than whatever is in the priority heap.                          *)

AgeAt(m, t) == (m - t.m_Ticket) % TicketMod

Ordered(W, P, m) ==
  /\ \A t, u \in W \cup P : t.m_Ticket = u.m_Ticket => t = u
  /\ W \cap P = {}
  /\ \A t \in W \cup P : AgeAt(m, t) \in 1 .. TicketMod \div 2
  /\ \A u \in W, t \in P : u.ltaWhen = Immediately => AgeAt(m, u) < AgeAt(m, t)

(* What every record holds. *)
LEMMA TaskFields ==
  ASSUME NEW t \in TaskType
  PROVE  /\ t.ltaWhen \in 0 .. Now + interval + timeslice
         /\ t.m_Ticket \in 0 .. TicketMod - 1
         /\ t.iPriority \in Priorities
         /\ t.fpTask \in {NoTask, "dispatch", "RunQueueEntry", "ProcessCommand"}
         /\ t.arg \in RecurringTasks \cup Jobs \cup Descriptors
BY DEF TaskType

LEMMA AgeType ==
  ASSUME NEW t \in TaskType, NEW m \in 0 .. TicketMod - 1
  PROVE  AgeAt(m, t) \in 0 .. TicketMod - 1
BY TaskFields, TicketAssumption DEF AgeAt

LEMMA FewerOrdered ==
  ASSUME NEW W, NEW P, NEW m, Ordered(W, P, m),
         NEW V \in SUBSET W, NEW Q \in SUBSET P
  PROVE  Ordered(V, Q, m)
BY DEF Ordered

(* Rewriting records keeps the order when their tickets stay, and no time  *)
(* becomes Immediately.                                                    *)
LEMMA RewrittenOrdered ==
  ASSUME NEW W, NEW P, NEW m, Ordered(W, P, m), NEW f,
         \A t \in W \cup P :
           f[t].m_Ticket = t.m_Ticket /\ (f[t].ltaWhen = Immediately => t.ltaWhen = Immediately)
  PROVE  Ordered({f[t] : t \in W}, {f[t] : t \in P}, m)
<1>. DEFINE V == {f[t] : t \in W}  Q == {f[t] : t \in P}
<1>1. \A u \in V \cup Q : \E t \in W \cup P :
        u = f[t] /\ u.m_Ticket = t.m_Ticket /\ AgeAt(m, u) = AgeAt(m, t)
  BY DEF AgeAt
<1>2. \A t, u \in V \cup Q : t.m_Ticket = u.m_Ticket => t = u
  BY <1>1 DEF Ordered
<1>3. V \cap Q = {}
  BY DEF Ordered
<1>4. \A t \in V \cup Q : AgeAt(m, t) \in 1 .. TicketMod \div 2
  BY <1>1 DEF Ordered
<1>5. \A u \in V, t \in Q : u.ltaWhen = Immediately => AgeAt(m, u) < AgeAt(m, t)
  BY DEF Ordered, AgeAt
<1>. QED
  BY <1>2, <1>3, <1>4, <1>5 DEF Ordered

(* A ticket that is taken makes every live one a ticket older. *)
LEMMA OneOlder ==
  ASSUME NEW t \in TaskType, NEW m \in 0 .. TicketMod - 1,
         AgeAt(m, t) < TicketMod - 1
  PROVE  AgeAt((m + 1) % TicketMod, t) = AgeAt(m, t) + 1
<1>1. TicketMod \in Nat \ {0} /\ t.m_Ticket \in 0 .. TicketMod - 1
  BY TicketAssumption, TaskFields
<1>. QED
  BY <1>1, NextDifference DEF AgeAt

LEMMA Newest ==
  ASSUME NEW t \in TaskType, NEW m \in 0 .. TicketMod - 1, t.m_Ticket = m
  PROVE  AgeAt((m + 1) % TicketMod, t) = 1
<1>1. TicketMod \in Nat \ {0} /\ (m - m) % TicketMod = 0
  BY TicketAssumption
<1>. QED
  BY <1>1, TicketAssumption, NextDifference DEF AgeAt

(* A new task gets the next ticket and goes into the when-heap. *)
LEMMA AddedOrdered ==
  ASSUME NEW W \in SUBSET TaskType, NEW P \in SUBSET TaskType, NEW m \in 0 .. TicketMod - 1,
         Ordered(W, P, m),
         \A t \in W \cup P : AgeAt(m, t) \in 1 .. TicketMod \div 2 - 1,
         NEW n \in TaskType, n.m_Ticket = m
  PROVE  Ordered(W \cup {n}, P, (m + 1) % TicketMod)
<1>. DEFINE k == (m + 1) % TicketMod
<1>1. \A t \in W \cup P : AgeAt(k, t) = AgeAt(m, t) + 1
  BY TicketAssumption, OneOlder
<1>2. AgeAt(k, n) = 1
  BY Newest
<1>3. \A t \in W \cup P : t.m_Ticket # n.m_Ticket
  <2>. SUFFICES ASSUME NEW t \in W \cup P, t.m_Ticket = m PROVE FALSE
    OBVIOUS
  <2>1. AgeAt(m, t) = 0
    BY TicketAssumption DEF AgeAt
  <2>. QED
    BY <2>1
<1>4. \A t \in W \cup P : AgeAt(m, t) \in Nat \ {0}
  BY TicketAssumption
<1>. HIDE DEF k
<1>5. \A t, u \in W \cup {n} \cup P : t.m_Ticket = u.m_Ticket => t = u
  BY <1>3 DEF Ordered
<1>6. (W \cup {n}) \cap P = {}
  BY <1>3 DEF Ordered
<1>7. \A t \in W \cup {n} \cup P : AgeAt(k, t) \in 1 .. TicketMod \div 2
  BY <1>1, <1>2, TicketAssumption
<1>8. \A u \in W \cup {n}, t \in P : u.ltaWhen = Immediately => AgeAt(k, u) < AgeAt(k, t)
  BY <1>1, <1>2, <1>4 DEF Ordered
<1>9. Ordered(W \cup {n}, P, k)
  BY <1>5, <1>6, <1>7, <1>8 DEF Ordered
<1>. QED
  BY <1>9 DEF k

-----------------------------------------------------------------------------
(* Cancelling, growing older and becoming ready.                           *)

CancelledTask(t, fpTask, arg) ==
  IF t.fpTask = fpTask /\ t.arg = arg THEN [t EXCEPT !.fpTask = NoTask] ELSE t

LEMMA CancelledTaskFields ==
  ASSUME NEW t \in TaskType, NEW fpTask, NEW arg
  PROVE  LET u == CancelledTask(t, fpTask, arg) IN
         /\ u \in TaskType
         /\ u.m_Ticket = t.m_Ticket /\ u.ltaWhen = t.ltaWhen /\ u.iPriority = t.iPriority
         /\ u.arg = t.arg
         /\ u.fpTask = IF t.fpTask = fpTask /\ t.arg = arg THEN NoTask ELSE t.fpTask
         /\ u.fpTask = t.fpTask => u = t
BY DEF CancelledTask, TaskType, NoTask

LEMMA CancelledOrdered ==
  ASSUME NEW W \in SUBSET TaskType, NEW P \in SUBSET TaskType, NEW m, Ordered(W, P, m),
         NEW fpTask, NEW arg
  PROVE  /\ Cancelled(W, fpTask, arg) \subseteq TaskType
         /\ Cancelled(P, fpTask, arg) \subseteq TaskType
         /\ Ordered(Cancelled(W, fpTask, arg), Cancelled(P, fpTask, arg), m)
<1>. DEFINE f == [t \in TaskType |-> CancelledTask(t, fpTask, arg)]
<1>1. \A t \in W \cup P : f[t] = CancelledTask(t, fpTask, arg)
  OBVIOUS
<1>2. Cancelled(W, fpTask, arg) = {f[t] : t \in W} /\ Cancelled(P, fpTask, arg) = {f[t] : t \in P}
  BY <1>1 DEF Cancelled, CancelledTask
<1>. HIDE DEF f
<1>3. \A t \in W \cup P : /\ f[t] \in TaskType /\ f[t].m_Ticket = t.m_Ticket
                         /\ f[t].ltaWhen = t.ltaWhen
  BY <1>1, CancelledTaskFields
<1>. QED
  BY <1>2, <1>3, RewrittenOrdered

LEMMA AgedTaskFields ==
  ASSUME NEW t \in TaskType
  PROVE  /\ AgedTask(t) \in TaskType
         /\ AgedTask(t).m_Ticket = t.m_Ticket /\ AgedTask(t).iPriority = t.iPriority
         /\ AgedTask(t).fpTask = t.fpTask /\ AgedTask(t).arg = t.arg
         /\ AgedTask(t).ltaWhen = Aged(t.ltaWhen)
         /\ Aged(t.ltaWhen) = Immediately => t.ltaWhen = Immediately
<1>1. Aged(t.ltaWhen) \in 0 .. Now + interval + timeslice
  BY TaskFields, NowAssumption, LoopAssumption DEF Aged
<1>2. AgedTask(t) = [t EXCEPT !.ltaWhen = Aged(t.ltaWhen)]
  BY DEF AgedTask
<1>3. Aged(t.ltaWhen) = Immediately => t.ltaWhen = Immediately
  BY TaskFields, NowAssumption, LoopAssumption DEF Aged, Immediately
<1>. QED
  BY <1>1, <1>2, <1>3 DEF TaskType

LEMMA AgedOrdered ==
  ASSUME NEW W \in SUBSET TaskType, NEW P \in SUBSET TaskType, NEW m, Ordered(W, P, m)
  PROVE  /\ AgedHeap(W) \subseteq TaskType /\ AgedHeap(P) \subseteq TaskType
         /\ Ordered(AgedHeap(W), AgedHeap(P), m)
<1>. DEFINE f == [t \in TaskType |-> AgedTask(t)]
<1>1. \A t \in W \cup P : f[t] = AgedTask(t)
  OBVIOUS
<1>2. AgedHeap(W) = {f[t] : t \in W} /\ AgedHeap(P) = {f[t] : t \in P}
  BY <1>1 DEF AgedHeap
<1>. HIDE DEF f
<1>3. \A t \in W \cup P :
        f[t].m_Ticket = t.m_Ticket /\ (f[t].ltaWhen = Immediately => t.ltaWhen = Immediately)
  BY <1>1, AgedTaskFields
<1>4. Ordered(AgedHeap(W), AgedHeap(P), m)
  BY <1>2, <1>3, RewrittenOrdered
<1>5. AgedHeap(W) \subseteq TaskType /\ AgedHeap(P) \subseteq TaskType
  BY AgedTaskFields DEF AgedHeap
<1>. QED
  BY <1>4, <1>5

(* ReadyTasks leaves no untimed task in the when-heap. *)
LEMMA ReadiedOrdered ==
  ASSUME m_WhenHeap \subseteq TaskType, m_PriorityHeap \subseteq TaskType,
         NEW m, Ordered(m_WhenHeap, m_PriorityHeap, m)
  PROVE  /\ ReadiedWhenHeap \subseteq TaskType /\ ReadiedPriorityHeap \subseteq TaskType
         /\ Ordered(ReadiedWhenHeap, ReadiedPriorityHeap, m)
<1>1. \A t \in ReadiedWhenHeap : t.ltaWhen # Immediately
  BY NowAssumption DEF ReadiedWhenHeap, Due, Immediately
<1>2. ReadiedWhenHeap \cup ReadiedPriorityHeap \subseteq m_WhenHeap \cup m_PriorityHeap
  BY DEF ReadiedWhenHeap, ReadiedPriorityHeap, Due
<1>3. ReadiedWhenHeap \cap ReadiedPriorityHeap = {}
  BY DEF ReadiedWhenHeap, ReadiedPriorityHeap, Due, Ordered
<1>4. Ordered(ReadiedWhenHeap, ReadiedPriorityHeap, m)
  <2>. DEFINE V == ReadiedWhenHeap  Q == ReadiedPriorityHeap
  <2>. HIDE DEF V, Q
  <2>1. \A t, u \in V \cup Q : t.m_Ticket = u.m_Ticket => t = u
    BY <1>2 DEF Ordered, V, Q
  <2>2. \A t \in V \cup Q : AgeAt(m, t) \in 1 .. TicketMod \div 2
    BY <1>2 DEF Ordered, V, Q
  <2>3. V \cap Q = {} /\ \A t \in V : t.ltaWhen # Immediately
    BY <1>1, <1>3 DEF V, Q
  <2>4. Ordered(V, Q, m)
    BY <2>1, <2>2, <2>3 DEF Ordered
  <2>. QED
    BY <2>4 DEF V, Q
<1>. QED
  BY <1>2, <1>4

-----------------------------------------------------------------------------
(* Live tasks.                                                             *)

LiveIn(H, fpTask, arg) == {t \in H : t.fpTask = fpTask /\ t.arg = arg}

LEMMA LiveCancelled ==
  ASSUME NEW H \in SUBSET TaskType, NEW fpTask, NEW arg, NEW g, NEW a, g # NoTask
  PROVE  LiveIn(Cancelled(H, fpTask, arg), g, a)
           = IF g = fpTask /\ a = arg THEN {} ELSE LiveIn(H, g, a)
<1>1. Cancelled(H, fpTask, arg) = {CancelledTask(t, fpTask, arg) : t \in H}
  BY DEF Cancelled, CancelledTask
<1>2. \A t \in H : LET u == CancelledTask(t, fpTask, arg) IN
        /\ u.arg = t.arg
        /\ u.fpTask = IF t.fpTask = fpTask /\ t.arg = arg THEN NoTask ELSE t.fpTask
        /\ u.fpTask = t.fpTask => u = t
  BY CancelledTaskFields
<1>. QED
  BY <1>1, <1>2 DEF LiveIn

LEMMA LiveAged ==
  ASSUME NEW H \in SUBSET TaskType, NEW g, NEW a
  PROVE  LiveIn(AgedHeap(H), g, a) = {AgedTask(t) : t \in LiveIn(H, g, a)}
<1>1. \A t \in H : AgedTask(t).fpTask = t.fpTask /\ AgedTask(t).arg = t.arg
  BY AgedTaskFields
<1>. QED
  BY <1>1 DEF LiveIn, AgedHeap

-----------------------------------------------------------------------------
(* The inductive invariant.                                                *)

HeapsOK ==
  /\ m_WhenHeap \subseteq TaskType /\ m_PriorityHeap \subseteq TaskType
  /\ m_Ticket \in 0 .. TicketMod - 1
  /\ Ordered(m_WhenHeap, m_PriorityHeap, m_Ticket)

(* The locals of the loop; while tasks run, the clock read at the top lags *)
(* by what they have taken.  Select watches, and the loop reads, only      *)
(* descriptors without input.                                              *)
LoopOK ==
  /\ m_minPriority \in {PRIORITY_CF_DEQUEUE_ENABLED, PRIORITY_CF_DEQUEUE_DISABLED}
  /\ pc \in {"top", "run", "command", "select", "net"}
  /\ iCount \in 0 .. Batch /\ nTasks \in {0, 1}
  /\ timeout \in Nat /\ ltaCurrent \in 1 .. Now /\ busy \in 0 .. Now - 1 /\ ltaLastSlice \in 1 .. Now
  /\ counter \in [RecurringTasks -> 1 .. Now + interval]
  /\ pc \in {"run", "command"} => ltaCurrent = Now - busy

NetOK ==
  /\ input_set \subseteq open /\ open \subseteq Descriptors
  /\ socket \in [Descriptors -> {"quiet", "data", "eof"}]
  /\ input \in [Descriptors -> 0 .. MaxInput]
  /\ quota \in [Descriptors -> 0 .. cmd_quota_max]
  /\ pc \notin {"select", "net"} => input_set = {}
  /\ \A d \in input_set : input[d] = 0

(* Waiting lines have one live task, and nothing else has. *)
LinesWait(H, lines) ==
  \A d \in Descriptors :
    IF lines[d] > 0 THEN \E t \in H : LiveIn(H, "ProcessCommand", d) = {t}
                    ELSE LiveIn(H, "ProcessCommand", d) = {}

Dispatching(H, due) ==
  \A r \in RecurringTasks :
    \E t \in H : LiveIn(H, "dispatch", r) = {t} /\ t.ltaWhen = due[r]

IInv ==
  /\ HeapsOK /\ LoopOK /\ NetOK
  /\ LinesWait(Tasks, input)
  /\ Dispatching(Tasks, counter)
  /\ NeverSleepsOnWork

LEMMA Meaning ==
  ASSUME IInv
  PROVE  OneTaskEach
<1>1. m_WhenHeap \cap m_PriorityHeap = {}
  BY DEF IInv, HeapsOK, Ordered
<1>2. TypeOK
  BY <1>1 DEF IInv, HeapsOK, LoopOK, NetOK, TypeOK
<1>3. OneCommandTask
  <2>. SUFFICES ASSUME NEW d \in Descriptors
                PROVE  Cardinality(Live("ProcessCommand", d)) = IF input[d] > 0 THEN 1 ELSE 0
    BY DEF OneCommandTask
  <2>1. Live("ProcessCommand", d) = LiveIn(Tasks, "ProcessCommand", d)
    BY DEF Live, LiveIn
  <2>2. CASE input[d] > 0
    <3>1. PICK t \in Tasks : Live("ProcessCommand", d) = {t}
      BY <2>1, <2>2 DEF IInv, LinesWait
    <3>. QED
      BY <2>2, <3>1, FS_Singleton
  <2>3. CASE ~ (input[d] > 0)
    <3>1. Live("ProcessCommand", d) = {}
      BY <2>1, <2>3 DEF IInv, LinesWait
    <3>. QED
      BY <2>3, <3>1, FS_EmptySet
  <2>. QED
    BY <2>2, <2>3
<1>4. OneDispatch
  BY DEF IInv, Dispatching, OneDispatch, Live, LiveIn
<1>. QED
  BY <1>2, <1>3, <1>4 DEF OneTaskEach

LEMMA Same ==
  ASSUME IInv, UNCHANGED schedulerVars
  PROVE  HeapsOK' /\ Tasks' = Tasks
BY DEF IInv, HeapsOK, schedulerVars, Tasks, Ordered, AgeAt, TaskType

LEMMA Awake ==
  ASSUME pc' # "select"
  PROVE  NeverSleepsOnWork'
BY DEF NeverSleepsOnWork

LEMMA InitOK ==
  ASSUME Init
  PROVE  IInv
<1>. DEFINE n == Cardinality(RecurringTasks)
<1>. PICK ticket \in [RecurringTasks -> 0 .. n - 1] :
       /\ \A r, s \in RecurringTasks : r # s => ticket[r] # ticket[s]
       /\ m_WhenHeap = {[ltaWhen |-> Now + interval, iPriority |-> PRIORITY_SYSTEM,
                         m_Ticket |-> ticket[r], fpTask |-> "dispatch", arg |-> r]
                        : r \in RecurringTasks}
  BY DEF Init
<1>1. n \in Nat /\ n <= TicketMod \div 2 /\ n < TicketMod
  BY FS_CardinalityType, LoopAssumption, TicketAssumption
<1>2. m_WhenHeap \subseteq TaskType
  BY <1>1, TicketAssumption, LoopAssumption, NowAssumption DEF TaskType, Priorities
<1>3. m_PriorityHeap = {} /\ m_Ticket = n
  BY DEF Init
<1>. HIDE DEF n
<1>4. \A t \in m_WhenHeap : AgeAt(n, t) \in 1 .. TicketMod \div 2
  <2>. SUFFICES ASSUME NEW r \in RecurringTasks
                PROVE  (n - ticket[r]) % TicketMod \in 1 .. TicketMod \div 2
    BY DEF AgeAt
  <2>1. TicketMod \in Nat \ {0} /\ n \in 0 .. TicketMod - 1 /\ ticket[r] \in 0 .. TicketMod - 1
        /\ ticket[r] < n
    BY <1>1, TicketAssumption
  <2>2. (n - ticket[r]) % TicketMod = n - ticket[r]
    BY <2>1, DifferenceMod
  <2>. QED
    BY <1>1, <2>1, <2>2
<1>5. \A t, u \in m_WhenHeap : t.m_Ticket = u.m_Ticket => t = u
  OBVIOUS
<1>6. HeapsOK
  BY <1>1, <1>2, <1>3, <1>4, <1>5, TicketAssumption DEF HeapsOK, Ordered
<1>7. LoopOK /\ NetOK
  BY LoopAssumption, NowAssumption DEF Init, LoopOK, NetOK, Batch
<1>8. LinesWait(Tasks, input)
  BY <1>3 DEF LinesWait, LiveIn, Tasks, Init
<1>9. Dispatching(Tasks, counter)
  <2>. SUFFICES ASSUME NEW r \in RecurringTasks
                PROVE  \E t \in Tasks : LiveIn(Tasks, "dispatch", r) = {t} /\ t.ltaWhen = counter[r]
    BY DEF Dispatching
  <2>. DEFINE u == [ltaWhen |-> Now + interval, iPriority |-> PRIORITY_SYSTEM,
                    m_Ticket |-> ticket[r], fpTask |-> "dispatch", arg |-> r]
  <2>1. u \in Tasks /\ LiveIn(Tasks, "dispatch", r) = {u}
    BY <1>3 DEF LiveIn, Tasks
  <2>2. counter[r] = Now + interval
    BY DEF Init
  <2>. QED
    BY <2>1, <2>2
<1>10. NeverSleepsOnWork
  BY DEF Init, NeverSleepsOnWork
<1>. QED
  BY <1>6, <1>7, <1>8, <1>9, <1>10 DEF IInv

-----------------------------------------------------------------------------
(* What the steps do to the heaps.                                         *)

LEMMA HeapsFewer ==
  ASSUME HeapsOK, m_WhenHeap' \subseteq m_WhenHeap, m_PriorityHeap' \subseteq m_PriorityHeap,
         m_Ticket' = m_Ticket
  PROVE  HeapsOK'
<1>1. Ordered(m_WhenHeap', m_PriorityHeap', m_Ticket)
  BY FewerOrdered DEF HeapsOK
<1>. QED
  BY <1>1 DEF HeapsOK, TaskType, Ordered, AgeAt

LEMMA HeapsMore ==
  ASSUME HeapsOK, TicketFree(0), NEW n \in TaskType, n.m_Ticket = m_Ticket,
         m_WhenHeap' = m_WhenHeap \cup {n}, m_PriorityHeap' \subseteq m_PriorityHeap, TicketTaken
  PROVE  HeapsOK' /\ \A t \in Tasks : t # n
<1>1. \A t \in Tasks : AgeAt(m_Ticket, t) \in 1 .. TicketMod \div 2 - 1
  BY TicketAssumption DEF TicketFree, AgeAt
<1>2. Ordered(m_WhenHeap, m_PriorityHeap', m_Ticket)
  BY FewerOrdered DEF HeapsOK
<1>3. Ordered(m_WhenHeap \cup {n}, m_PriorityHeap', (m_Ticket + 1) % TicketMod)
  <2>1. \A t \in m_WhenHeap \cup m_PriorityHeap' : AgeAt(m_Ticket, t) \in 1 .. TicketMod \div 2 - 1
    BY <1>1 DEF Tasks
  <2>. QED
    BY <1>2, <2>1, AddedOrdered DEF HeapsOK
<1>4. (m_Ticket + 1) % TicketMod \in 0 .. TicketMod - 1
  BY TicketAssumption DEF HeapsOK
<1>5. HeapsOK'
  BY <1>3, <1>4 DEF HeapsOK, TaskType, TicketTaken, Ordered, AgeAt
<1>6. AgeAt(m_Ticket, n) = 0
  BY TicketAssumption DEF HeapsOK, AgeAt
<1>. QED
  BY <1>1, <1>5, <1>6

LEMMA NewTask ==
  ASSUME HeapsOK, NEW w \in 0 .. Now + interval + timeslice, NEW p \in Priorities,
         NEW g \in {"dispatch", "RunQueueEntry", "ProcessCommand"},
         NEW a \in RecurringTasks \cup Jobs \cup Descriptors
  PROVE  LET n == TaskRecord(w, p, g, a) IN
         /\ n \in TaskType
         /\ n.m_Ticket = m_Ticket /\ n.ltaWhen = w /\ n.fpTask = g /\ n.arg = a
         /\ n.iPriority = p
BY DEF TaskRecord, TaskType, HeapsOK

LEMMA PriorityTypes == PRIORITY_SYSTEM \in Priorities /\ \A j \in Jobs : JobPriority[j] \in Priorities
BY LoopAssumption DEF Priorities

LEMMA TimeTypes ==
  /\ Immediately \in 0 .. Now + interval + timeslice
  /\ Now + interval \in 1 .. Now + interval + timeslice
  /\ Now + timeslice \in 1 .. Now + interval + timeslice
  /\ Now + 1 \in 1 .. Now + interval + timeslice
BY LoopAssumption, NowAssumption DEF Immediately

(* A task is in one heap only. *)
LEMMA TakenFrom ==
  ASSUME HeapsOK, NEW t \in m_PriorityHeap, m_PriorityHeap' = m_PriorityHeap \ {t}
  PROVE  /\ t \in TaskType /\ t \in Tasks
         /\ m_WhenHeap' = m_WhenHeap => Tasks' = Tasks \ {t}
         /\ \A n : m_WhenHeap' = m_WhenHeap \cup {n} => Tasks' = (Tasks \ {t}) \cup {n}
BY DEF HeapsOK, Ordered, Tasks

(* A task that goes, or comes, leaves alone the live tasks of others. *)
LEMMA LinesSame ==
  ASSUME NEW H, NEW G, NEW lines, LinesWait(H, lines),
         \A d \in Descriptors : LiveIn(G, "ProcessCommand", d) = LiveIn(H, "ProcessCommand", d)
  PROVE  LinesWait(G, lines)
<1>1. \A d \in Descriptors : LiveIn(G, "ProcessCommand", d) \subseteq G
  BY DEF LiveIn
<1>. QED
  BY <1>1 DEF LinesWait

LEMMA DispatchSame ==
  ASSUME NEW H, NEW G, NEW due, Dispatching(H, due),
         \A r \in RecurringTasks : LiveIn(G, "dispatch", r) = LiveIn(H, "dispatch", r)
  PROVE  Dispatching(G, due)
<1>1. \A r \in RecurringTasks : LiveIn(G, "dispatch", r) \subseteq G
  BY DEF LiveIn
<1>. QED
  BY <1>1 DEF Dispatching

-----------------------------------------------------------------------------
(* Running tasks.                                                          *)

LEMMA TopOK ==
  ASSUME IInv, Top
  PROVE  IInv'
<1>. DEFINE G == ReadiedWhenHeap \cup ReadiedPriorityHeap
<1>1. HeapsOK'
  <2>1. Ordered(ReadiedWhenHeap, ReadiedPriorityHeap, m_Ticket)
        /\ ReadiedWhenHeap \subseteq TaskType /\ ReadiedPriorityHeap \subseteq TaskType
    BY ReadiedOrdered DEF IInv, HeapsOK
  <2>2. m_Ticket' = m_Ticket /\ m_WhenHeap' = ReadiedWhenHeap /\ m_PriorityHeap' = ReadiedPriorityHeap
    BY DEF Top, ReadyTasks
  <2>. QED
    BY <2>1, <2>2 DEF IInv, HeapsOK, TaskType, Ordered, AgeAt
<1>2. Tasks' = G
  BY DEF Top, ReadyTasks, Tasks
<1>3. \A g, a : g # NoTask => LiveIn(G, g, a) = LiveIn(Tasks, g, a)
  BY DEF LiveIn, Tasks, ReadiedWhenHeap, ReadiedPriorityHeap, Due
<1>. HIDE DEF G
<1>4. LinesWait(G, input) /\ Dispatching(G, counter)
  BY <1>3, LinesSame, DispatchSame DEF IInv, NoTask
<1>5. /\ Slices \in Nat /\ cmd_quota_incr * Slices \in Nat
      /\ timeslice * Slices \in Nat /\ timeslice * Slices <= Now - ltaLastSlice
  <2>1. Now - ltaLastSlice \in Nat /\ timeslice \in Nat \ {0} /\ cmd_quota_incr \in Nat
    BY LoopAssumption, NowAssumption DEF IInv, LoopOK
  <2>. QED
    BY <2>1, DivideBounds, ProductType DEF Slices
<1>6. ltaLastSlice' \in 1 .. Now
  BY <1>5, NowAssumption DEF Top, update_quotas, IInv, LoopOK
<1>7. quota' \in [Descriptors -> 0 .. cmd_quota_max]
  <2>1. \A d \in Descriptors : quota[d] \in 0 .. cmd_quota_max
    BY DEF IInv, NetOK
  <2>2. \A d \in Descriptors :
          Least(cmd_quota_max, quota[d] + cmd_quota_incr * Slices) \in 0 .. cmd_quota_max
    BY <1>5, <2>1, LoopAssumption DEF Least
  <2>. QED
    BY <2>1, <2>2 DEF Top, update_quotas
<1>8. Batch \in Nat
  BY LoopAssumption DEF Batch
<1>9. LoopOK'
  BY <1>6, <1>8, NowAssumption DEF IInv, LoopOK, Top, Batch
<1>10. NetOK'
  BY <1>7 DEF IInv, NetOK, Top
<1>11. NeverSleepsOnWork' /\ UNCHANGED <<input, counter>>
  BY Awake DEF Top
<1>. QED
  BY <1>1, <1>2, <1>4, <1>9, <1>10, <1>11 DEF IInv

(* What taking a task leaves alone. *)
LEMMA TakesOK ==
  ASSUME IInv, NEW t \in m_PriorityHeap, Takes(t), pc' \in {"run", "command"}, nTasks' \in {0, 1},
         counter' \in [RecurringTasks -> 1 .. Now + interval]
  PROVE  /\ HeapsOK /\ NeverSleepsOnWork' /\ LoopOK'
         /\ input_set' = {}
         /\ LinesWait(Tasks, input) /\ Dispatching(Tasks, counter)
         /\ t \in TaskType /\ t \in Tasks
<1>1. NeverSleepsOnWork'
  BY Awake
<1>2. iCount' \in 0 .. Batch
  <2>1. Batch \in Nat
    BY LoopAssumption DEF Batch
  <2>. HIDE DEF Batch
  <2>. QED
    BY <2>1 DEF Takes, IInv, LoopOK
<1>3. LoopOK'
  BY <1>2 DEF Takes, IInv, LoopOK, Batch
<1>. QED
  BY <1>1, <1>3 DEF IInv, NetOK, Takes, Tasks, HeapsOK

LEMMA RunCancelledOK ==
  ASSUME IInv, NEW t \in m_PriorityHeap, RunCancelled(t)
  PROVE  IInv'
<1>1. Takes(t) /\ UNCHANGED <<pc, nTasks, netVars, counter>> /\ pc = "run"
  BY DEF RunCancelled, Takes
<1>2. /\ HeapsOK /\ NeverSleepsOnWork' /\ LoopOK' /\ input_set' = {}
      /\ LinesWait(Tasks, input) /\ Dispatching(Tasks, counter)
  BY <1>1, TakesOK DEF IInv, LoopOK
<1>3. HeapsOK' /\ Tasks' = Tasks \ {t}
  BY <1>2, HeapsFewer, TakenFrom DEF RunCancelled
<1>4. \A g, a : g # NoTask => LiveIn(Tasks \ {t}, g, a) = LiveIn(Tasks, g, a)
  BY DEF LiveIn, RunCancelled
<1>5. LinesWait(Tasks \ {t}, input) /\ Dispatching(Tasks \ {t}, counter)
  BY <1>2, <1>4, LinesSame, DispatchSame DEF NoTask
<1>6. NetOK'
  BY <1>1, <1>2 DEF IInv, NetOK, netVars
<1>. QED
  BY <1>1, <1>2, <1>3, <1>5, <1>6 DEF IInv, netVars

LEMMA RunDispatchOK ==
  ASSUME IInv, NEW t \in m_PriorityHeap, RunDispatch(t)
  PROVE  IInv'
<1>. DEFINE n == TaskRecord(Now + interval, PRIORITY_SYSTEM, "dispatch", t.arg)
            G == (Tasks \ {t}) \cup {n}
<1>1. Takes(t) /\ UNCHANGED <<pc, netVars>> /\ pc = "run" /\ nTasks' = 1
  BY DEF RunDispatch, Takes
<1>2. counter' = [counter EXCEPT ![t.arg] = Now + interval]
      /\ counter' \in [RecurringTasks -> 1 .. Now + interval]
  <2>1. counter \in [RecurringTasks -> 1 .. Now + interval]
    BY DEF IInv, LoopOK
  <2>2. Now + interval \in 1 .. Now + interval
    BY LoopAssumption, NowAssumption
  <2>. QED
    BY <2>1, <2>2 DEF RunDispatch
<1>3. /\ HeapsOK /\ NeverSleepsOnWork' /\ LoopOK' /\ input_set' = {}
      /\ LinesWait(Tasks, input) /\ Dispatching(Tasks, counter)
      /\ t \in TaskType /\ t \in Tasks
  BY <1>1, <1>2, TakesOK
<1>4. /\ n \in TaskType /\ n.m_Ticket = m_Ticket
      /\ n.ltaWhen = Now + interval /\ n.fpTask = "dispatch" /\ n.arg = t.arg
  BY <1>3, NewTask, PriorityTypes, TimeTypes, TaskFields
<1>. HIDE DEF n
<1>5. m_WhenHeap' = m_WhenHeap \cup {n} /\ m_PriorityHeap' = m_PriorityHeap \ {t}
  BY DEF RunDispatch, DeferTask, n
<1>6. HeapsOK'
  BY <1>3, <1>4, <1>5, HeapsMore DEF RunDispatch
<1>7. Tasks' = G
  BY <1>3, <1>5, TakenFrom
<1>8. t.fpTask = "dispatch"
  BY DEF RunDispatch
<1>9. \A a : LiveIn(G, "ProcessCommand", a) = LiveIn(Tasks, "ProcessCommand", a)
  BY <1>4, <1>8 DEF LiveIn
<1>10. LinesWait(G, input)
  BY <1>3, <1>9, LinesSame
<1>11. Dispatching(G, counter')
  <2>. SUFFICES ASSUME NEW r \in RecurringTasks
                PROVE  \E u \in G : LiveIn(G, "dispatch", r) = {u} /\ u.ltaWhen = counter'[r]
    BY DEF Dispatching
  <2>. PICK u \in Tasks : LiveIn(Tasks, "dispatch", r) = {u} /\ u.ltaWhen = counter[r]
    BY <1>3 DEF Dispatching
  <2>1. CASE r = t.arg
    <3>1. u = t
      BY <1>3, <1>8, <2>1 DEF LiveIn
    <3>2. LiveIn(G, "dispatch", r) = {n}
      BY <1>4, <2>1, <3>1 DEF LiveIn
    <3>. QED
      BY <1>2, <1>4, <2>1, <3>2 DEF IInv, LoopOK
  <2>2. CASE r # t.arg
    <3>1. LiveIn(G, "dispatch", r) = {u} /\ u \in G
      BY <1>4, <2>2 DEF LiveIn
    <3>. QED
      BY <1>2, <2>2, <3>1 DEF IInv, LoopOK
  <2>. QED
    BY <2>1, <2>2
<1>12. NetOK'
  BY <1>1, <1>3 DEF IInv, NetOK, netVars
<1>. QED
  BY <1>1, <1>3, <1>6, <1>7, <1>10, <1>11, <1>12 DEF IInv, netVars

LEMMA RunJobOK ==
  ASSUME IInv, NEW t \in m_PriorityHeap, RunJob(t)
  PROVE  IInv'
<1>1. Takes(t) /\ UNCHANGED <<netVars, counter>> /\ pc' = "command" /\ nTasks' = 1
  BY DEF RunJob
<1>2. /\ HeapsOK /\ NeverSleepsOnWork' /\ LoopOK' /\ input_set' = {}
      /\ LinesWait(Tasks, input) /\ Dispatching(Tasks, counter)
  BY <1>1, TakesOK DEF IInv, LoopOK
<1>3. HeapsOK' /\ Tasks' = Tasks \ {t}
  BY <1>2, HeapsFewer, TakenFrom DEF RunJob
<1>4. \A g, a : g # "RunQueueEntry" => LiveIn(Tasks \ {t}, g, a) = LiveIn(Tasks, g, a)
  BY DEF LiveIn, RunJob
<1>5. LinesWait(Tasks \ {t}, input) /\ Dispatching(Tasks \ {t}, counter)
  BY <1>2, <1>4, LinesSame, DispatchSame
<1>6. NetOK'
  BY <1>1, <1>2 DEF IInv, NetOK, netVars
<1>. QED
  BY <1>1, <1>2, <1>3, <1>5, <1>6 DEF IInv, netVars

LEMMA Lowered ==
  ASSUME NEW D, NEW b \in Nat, NEW f \in [D -> 0 .. b], NEW d, f[d] > 0
  PROVE  [f EXCEPT ![d] = @ - 1] \in [D -> 0 .. b]
<1>1. d \in D => f[d] - 1 \in 0 .. b
  OBVIOUS
<1>. QED
  BY <1>1

LEMMA ProcessCommandOK ==
  ASSUME IInv, NEW t \in m_PriorityHeap, Task_ProcessCommand(t)
  PROVE  IInv'
<1>. DEFINE d == t.arg
            n == TaskRecord(Immediately, PRIORITY_SYSTEM, "ProcessCommand", d)
<1>1. /\ Takes(t) /\ UNCHANGED <<open, socket, counter>> /\ pc' = "command" /\ nTasks' = 1
      /\ t.fpTask = "ProcessCommand" /\ m_PriorityHeap' = m_PriorityHeap \ {t}
      /\ input[d] > 0 /\ quota[d] > 0
      /\ quota' = [quota EXCEPT ![d] = @ - 1] /\ input' = [input EXCEPT ![d] = @ - 1]
  BY DEF Task_ProcessCommand
<1>2. /\ HeapsOK /\ NeverSleepsOnWork' /\ LoopOK' /\ input_set' = {}
      /\ LinesWait(Tasks, input) /\ Dispatching(Tasks, counter)
      /\ t \in TaskType /\ t \in Tasks
  BY <1>1, TakesOK DEF IInv, LoopOK
<1>3. NetOK'
  <2>1. /\ input' \in [Descriptors -> 0 .. MaxInput]
        /\ quota' \in [Descriptors -> 0 .. cmd_quota_max]
    BY <1>1, Lowered, LoopAssumption DEF IInv, NetOK
  <2>. QED
    BY <1>1, <1>2, <2>1 DEF IInv, NetOK
<1>4. \A e \in Descriptors : /\ input[e] \in Nat
                            /\ input'[e] = IF e = d THEN input[e] - 1 ELSE input[e]
  BY <1>1, LoopAssumption DEF IInv, NetOK
<1>5. d \in Descriptors => LiveIn(Tasks, "ProcessCommand", d) = {t}
  BY <1>1, <1>2 DEF LinesWait, LiveIn
<1>6. CASE input[d] > 1
  <2>1. /\ n \in TaskType /\ n.m_Ticket = m_Ticket
        /\ n.fpTask = "ProcessCommand" /\ n.arg = d
    BY <1>2, NewTask, PriorityTypes, TimeTypes, TaskFields
  <2>. HIDE DEF n
  <2>2. m_WhenHeap' = m_WhenHeap \cup {n} /\ TicketFree(0) /\ TicketTaken
    BY <1>6 DEF Task_ProcessCommand, DeferImmediateTask, n
  <2>3. HeapsOK'
    BY <1>1, <1>2, <2>1, <2>2, HeapsMore
  <2>. DEFINE G == (Tasks \ {t}) \cup {n}
  <2>4. Tasks' = G
    BY <1>1, <1>2, <2>2, TakenFrom
  <2>5. Dispatching(G, counter)
    <3>1. \A r : LiveIn(G, "dispatch", r) = LiveIn(Tasks, "dispatch", r)
      BY <1>1, <2>1 DEF LiveIn
    <3>. QED
      BY <1>2, <3>1, DispatchSame
  <2>6. LinesWait(G, input')
    <3>1. \A e : e # d => LiveIn(G, "ProcessCommand", e) = LiveIn(Tasks, "ProcessCommand", e)
      BY <1>1, <2>1 DEF LiveIn
    <3>2. d \in Descriptors => LiveIn(G, "ProcessCommand", d) = {n}
      BY <1>5, <2>1 DEF LiveIn
    <3>3. \A e : LiveIn(G, "ProcessCommand", e) \subseteq G
      BY DEF LiveIn
    <3>. HIDE DEF G
    <3>. QED
      BY <1>2, <1>4, <1>6, <3>1, <3>2, <3>3 DEF LinesWait
  <2>. QED
    BY <1>1, <1>2, <1>3, <2>3, <2>4, <2>5, <2>6 DEF IInv
<1>7. CASE ~ (input[d] > 1)
  <2>1. HeapsOK' /\ Tasks' = Tasks \ {t}
    BY <1>1, <1>2, <1>7, HeapsFewer, TakenFrom DEF Task_ProcessCommand
  <2>. DEFINE G == Tasks \ {t}
  <2>2. Dispatching(G, counter)
    <3>1. \A r : LiveIn(G, "dispatch", r) = LiveIn(Tasks, "dispatch", r)
      BY <1>1 DEF LiveIn
    <3>. QED
      BY <1>2, <3>1, DispatchSame
  <2>3. LinesWait(G, input')
    <3>1. \A e : e # d => LiveIn(G, "ProcessCommand", e) = LiveIn(Tasks, "ProcessCommand", e)
      BY <1>1 DEF LiveIn
    <3>2. d \in Descriptors => LiveIn(G, "ProcessCommand", d) = {}
      BY <1>5 DEF LiveIn
    <3>3. \A e : LiveIn(G, "ProcessCommand", e) \subseteq G
      BY DEF LiveIn
    <3>. HIDE DEF G
    <3>. QED
      BY <1>2, <1>4, <1>7, <3>1, <3>2, <3>3 DEF LinesWait
  <2>. QED
    BY <1>1, <1>2, <1>3, <2>1, <2>2, <2>3 DEF IInv
<1>. QED
  BY <1>6, <1>7

LEMMA ProcessCommandLaterOK ==
  ASSUME IInv, NEW t \in m_PriorityHeap, Task_ProcessCommandLater(t)
  PROVE  IInv'
<1>. DEFINE d == t.arg
            n == TaskRecord(Now + timeslice, PRIORITY_SYSTEM, "ProcessCommand", d)
            G == (Tasks \ {t}) \cup {n}
<1>1. /\ Takes(t) /\ UNCHANGED <<pc, netVars, counter>> /\ nTasks' = 1 /\ pc = "run"
      /\ t.fpTask = "ProcessCommand" /\ m_PriorityHeap' = m_PriorityHeap \ {t}
      /\ input[d] > 0 /\ TicketFree(0) /\ TicketTaken
  BY DEF Task_ProcessCommandLater, Takes
<1>2. /\ HeapsOK /\ NeverSleepsOnWork' /\ LoopOK' /\ input_set' = {}
      /\ LinesWait(Tasks, input) /\ Dispatching(Tasks, counter)
      /\ t \in TaskType /\ t \in Tasks
  BY <1>1, TakesOK DEF IInv, LoopOK
<1>3. NetOK'
  BY <1>1, <1>2 DEF IInv, NetOK, netVars
<1>4. /\ n \in TaskType /\ n.m_Ticket = m_Ticket
      /\ n.fpTask = "ProcessCommand" /\ n.arg = d
  BY <1>2, NewTask, PriorityTypes, TimeTypes, TaskFields
<1>5. m_WhenHeap' = m_WhenHeap \cup {n}
  BY DEF Task_ProcessCommandLater, DeferTask
<1>. HIDE DEF n
<1>6. HeapsOK' /\ Tasks' = G
  BY <1>1, <1>2, <1>4, <1>5, HeapsMore, TakenFrom
<1>7. Dispatching(G, counter)
  <2>1. \A r : LiveIn(G, "dispatch", r) = LiveIn(Tasks, "dispatch", r)
    BY <1>1, <1>4 DEF LiveIn
  <2>. QED
    BY <1>2, <2>1, DispatchSame
<1>8. LinesWait(G, input)
  <2>1. d \in Descriptors => LiveIn(Tasks, "ProcessCommand", d) = {t}
    BY <1>1, <1>2 DEF LinesWait, LiveIn
  <2>2. \A e : e # d => LiveIn(G, "ProcessCommand", e) = LiveIn(Tasks, "ProcessCommand", e)
    BY <1>1, <1>4 DEF LiveIn
  <2>3. d \in Descriptors => LiveIn(G, "ProcessCommand", d) = {n}
    BY <1>4, <2>1 DEF LiveIn
  <2>4. \A e : LiveIn(G, "ProcessCommand", e) \subseteq G
    BY DEF LiveIn
  <2>. HIDE DEF G
  <2>. QED
    BY <1>1, <1>2, <2>2, <2>3, <2>4 DEF LinesWait
<1>. QED
  BY <1>1, <1>2, <1>3, <1>6, <1>7, <1>8 DEF IInv, netVars

-----------------------------------------------------------------------------
(* What a command does.                                                    *)

LEMMA ExecutesOK ==
  ASSUME IInv, Executes,
         m_minPriority' \in {PRIORITY_CF_DEQUEUE_ENABLED, PRIORITY_CF_DEQUEUE_DISABLED},
         counter' \in [RecurringTasks -> 1 .. Now + interval]
  PROVE  /\ HeapsOK /\ LoopOK' /\ NeverSleepsOnWork'
         /\ LinesWait(Tasks, input) /\ Dispatching(Tasks, counter)
         /\ input_set = {} /\ input_set' = {}
<1>1. NeverSleepsOnWork'
  BY Awake DEF Executes
<1>2. LoopOK'
  BY DEF Executes, IInv, LoopOK, Batch
<1>. QED
  BY <1>1, <1>2 DEF IInv, NetOK, Executes

LEMMA CommandDoneOK ==
  ASSUME IInv, CommandDone
  PROVE  IInv'
<1>1. Executes /\ UNCHANGED <<schedulerVars, netVars, counter>>
  BY DEF CommandDone
<1>2. /\ LoopOK' /\ NeverSleepsOnWork' /\ input_set' = {}
  BY <1>1, ExecutesOK DEF IInv, LoopOK, schedulerVars
<1>3. HeapsOK' /\ Tasks' = Tasks
  BY <1>1, Same
<1>4. NetOK'
  BY <1>1, <1>2 DEF IInv, NetOK, netVars
<1>. QED
  BY <1>1, <1>2, <1>3, <1>4 DEF IInv, netVars

LEMMA CommandQueuesOK ==
  ASSUME IInv, NEW j \in Jobs, CommandQueues(j)
  PROVE  IInv'
<1>1. PICK w \in {Immediately, Now + 1} :
        m_WhenHeap' = m_WhenHeap \cup {TaskRecord(w, JobPriority[j], "RunQueueEntry", j)}
  BY DEF CommandQueues, DeferImmediateTask, DeferTask
<1>2. Executes /\ UNCHANGED <<m_PriorityHeap, m_minPriority, netVars, counter>> /\ TicketTaken
  BY DEF CommandQueues
<1>3. TicketFree(0)
  BY TicketAssumption DEF CommandQueues, TicketFree, IInv, HeapsOK
<1>4. /\ HeapsOK /\ LoopOK' /\ NeverSleepsOnWork' /\ input_set' = {}
      /\ LinesWait(Tasks, input) /\ Dispatching(Tasks, counter)
  BY <1>2, ExecutesOK DEF IInv, LoopOK
<1>. DEFINE n == TaskRecord(w, JobPriority[j], "RunQueueEntry", j)
            G == Tasks \cup {n}
<1>5. n \in TaskType /\ n.m_Ticket = m_Ticket /\ n.fpTask = "RunQueueEntry"
  BY <1>4, NewTask, PriorityTypes, TimeTypes
<1>. HIDE DEF n
<1>6. m_WhenHeap' = m_WhenHeap \cup {n}
  BY <1>1 DEF n
<1>7. HeapsOK'
  BY <1>2, <1>3, <1>4, <1>5, <1>6, HeapsMore
<1>8. Tasks' = G
  BY <1>2, <1>6 DEF Tasks
<1>9. \A g, a : g # "RunQueueEntry" => LiveIn(G, g, a) = LiveIn(Tasks, g, a)
  BY <1>5 DEF LiveIn
<1>10. LinesWait(G, input) /\ Dispatching(G, counter)
  BY <1>4, <1>9, LinesSame, DispatchSame
<1>11. NetOK'
  BY <1>2, <1>4 DEF IInv, NetOK, netVars
<1>. QED
  BY <1>2, <1>4, <1>7, <1>8, <1>10, <1>11 DEF IInv, netVars

LEMMA TimewarpOK ==
  ASSUME IInv, NEW r \in RecurringTasks, do_timewarp(r)
  PROVE  IInv'
<1>. DEFINE W == Cancelled(m_WhenHeap, "dispatch", r)
            P == Cancelled(m_PriorityHeap, "dispatch", r)
            due == Aged(counter[r])
            n == TaskRecord(due, PRIORITY_SYSTEM, "dispatch", r)
            G == Cancelled(Tasks, "dispatch", r) \cup {n}
<1>1. due \in 1 .. Now + interval
  BY LoopAssumption, NowAssumption DEF IInv, LoopOK, Aged
<1>. HIDE DEF due
<1>2. counter' = [counter EXCEPT ![r] = due] /\ counter' \in [RecurringTasks -> 1 .. Now + interval]
      /\ counter'[r] = due
  BY <1>1 DEF do_timewarp, due, IInv, LoopOK
<1>3. Executes /\ UNCHANGED <<m_minPriority, netVars>> /\ TicketTaken
  BY DEF do_timewarp
<1>4. /\ HeapsOK /\ LoopOK' /\ NeverSleepsOnWork' /\ input_set' = {}
      /\ LinesWait(Tasks, input) /\ Dispatching(Tasks, counter)
  BY <1>2, <1>3, ExecutesOK DEF IInv, LoopOK
<1>5. n \in TaskType /\ n.m_Ticket = m_Ticket /\ n.ltaWhen = due /\ n.fpTask = "dispatch" /\ n.arg = r
  <2>1. due \in 0 .. Now + interval + timeslice
    BY <1>1, LoopAssumption, NowAssumption
  <2>. QED
    BY <1>4, <2>1, NewTask, PriorityTypes
<1>6. m_WhenHeap' = W \cup {n} /\ m_PriorityHeap' = P
  BY <1>2 DEF do_timewarp, DeferTask
<1>. HIDE DEF n
<1>7. W \subseteq TaskType /\ P \subseteq TaskType /\ Ordered(W, P, m_Ticket)
  BY <1>4, CancelledOrdered DEF HeapsOK
<1>8. \A t \in W \cup P : AgeAt(m_Ticket, t) \in 1 .. TicketMod \div 2 - 1
  <2>. SUFFICES ASSUME NEW t \in Tasks
                PROVE  AgeAt(m_Ticket, CancelledTask(t, "dispatch", r)) \in 1 .. TicketMod \div 2 - 1
    BY DEF Cancelled, CancelledTask, Tasks
  <2>1. CancelledTask(t, "dispatch", r).m_Ticket = t.m_Ticket
    BY <1>4, CancelledTaskFields DEF HeapsOK, Tasks
  <2>2. (m_Ticket - t.m_Ticket) % TicketMod \in 1 .. TicketMod \div 2 - 1 - 2
    BY DEF do_timewarp, TicketFree
  <2>. QED
    BY <2>1, <2>2, TicketAssumption DEF AgeAt
<1>9. HeapsOK'
  <2>1. m_Ticket' \in 0 .. TicketMod - 1 /\ m_Ticket' = (m_Ticket + 1) % TicketMod
    BY <1>3, <1>4, TicketAssumption DEF HeapsOK, TicketTaken
  <2>. HIDE DEF W, P
  <2>2. Ordered(W \cup {n}, P, (m_Ticket + 1) % TicketMod)
    BY <1>4, <1>5, <1>7, <1>8, AddedOrdered DEF HeapsOK
  <2>. QED
    BY <1>5, <1>6, <1>7, <2>1, <2>2 DEF HeapsOK, TaskType, Ordered, AgeAt
<1>10. Tasks' = G
  BY <1>6 DEF Tasks, Cancelled
<1>11. Tasks \subseteq TaskType
  BY <1>4 DEF HeapsOK, Tasks
<1>12. \A g, a : g # NoTask /\ ~ (g = "dispatch" /\ a = r) => LiveIn(G, g, a) = LiveIn(Tasks, g, a)
  <2>1. \A g, a : g # NoTask /\ ~ (g = "dispatch" /\ a = r) =>
          LiveIn(Cancelled(Tasks, "dispatch", r), g, a) = LiveIn(Tasks, g, a)
    BY <1>11, LiveCancelled
  <2>. QED
    BY <1>5, <2>1 DEF LiveIn
<1>13. LiveIn(G, "dispatch", r) = {n}
  <2>1. LiveIn(Cancelled(Tasks, "dispatch", r), "dispatch", r) = {}
    BY <1>11, LiveCancelled DEF NoTask
  <2>. QED
    BY <1>5, <2>1 DEF LiveIn
<1>14. \A g, a : LiveIn(G, g, a) \subseteq G
  BY DEF LiveIn
<1>. HIDE DEF G
<1>15. LinesWait(G, input)
  BY <1>4, <1>12, LinesSame DEF NoTask
<1>16. Dispatching(G, counter')
  <2>. SUFFICES ASSUME NEW s \in RecurringTasks
                PROVE  \E u \in G : LiveIn(G, "dispatch", s) = {u} /\ u.ltaWhen = counter'[s]
    BY DEF Dispatching
  <2>1. CASE s = r
    BY <1>2, <1>5, <1>13, <1>14, <2>1
  <2>2. CASE s # r
    <3>1. PICK u \in Tasks : LiveIn(Tasks, "dispatch", s) = {u} /\ u.ltaWhen = counter[s]
      BY <1>4 DEF Dispatching
    <3>2. LiveIn(G, "dispatch", s) = {u} /\ u \in G
      BY <1>12, <1>14, <2>2, <3>1 DEF NoTask
    <3>3. counter'[s] = counter[s]
      BY <1>2, <2>2 DEF IInv, LoopOK
    <3>. QED
      BY <3>1, <3>2, <3>3
  <2>. QED
    BY <2>1, <2>2
<1>17. NetOK'
  BY <1>3, <1>4 DEF IInv, NetOK, netVars
<1>. QED
  BY <1>3, <1>4, <1>9, <1>10, <1>15, <1>16, <1>17 DEF IInv, netVars

(* Closing a descriptor leaves no line and no live task on it. *)
LEMMA ShutdownsockOK ==
  ASSUME IInv, NEW d \in Descriptors, shutdownsock(d)
  PROVE  /\ HeapsOK' /\ LinesWait(Tasks', input') /\ Dispatching(Tasks', counter')
         /\ input' = [input EXCEPT ![d] = 0] /\ input' \in [Descriptors -> 0 .. MaxInput]
         /\ socket' \in [Descriptors -> {"quiet", "data", "eof"}]
<1>. DEFINE W == Cancelled(m_WhenHeap, "ProcessCommand", d)
            P == Cancelled(m_PriorityHeap, "ProcessCommand", d)
            G == Cancelled(Tasks, "ProcessCommand", d)
<1>1. /\ m_WhenHeap' = W /\ m_PriorityHeap' = P /\ m_Ticket' = m_Ticket /\ counter' = counter
      /\ input' = [input EXCEPT ![d] = 0] /\ socket' = [socket EXCEPT ![d] = "quiet"]
  BY DEF shutdownsock
<1>2. HeapsOK'
  <2>1. W \subseteq TaskType /\ P \subseteq TaskType /\ Ordered(W, P, m_Ticket)
    BY CancelledOrdered DEF IInv, HeapsOK
  <2>. HIDE DEF W, P
  <2>. QED
    BY <1>1, <2>1 DEF IInv, HeapsOK, TaskType, Ordered, AgeAt
<1>3. Tasks' = G
  BY <1>1 DEF Tasks, Cancelled
<1>4. \A g, a : g # NoTask =>
        LiveIn(G, g, a) = IF g = "ProcessCommand" /\ a = d THEN {} ELSE LiveIn(Tasks, g, a)
  <2>1. Tasks \subseteq TaskType
    BY DEF IInv, HeapsOK, Tasks
  <2>. QED
    BY <2>1, LiveCancelled
<1>5. \A g, a : LiveIn(G, g, a) \subseteq G
  BY DEF LiveIn
<1>. HIDE DEF G
<1>6. Dispatching(G, counter)
  BY <1>4, DispatchSame DEF IInv, NoTask
<1>7. input' \in [Descriptors -> 0 .. MaxInput]
  BY <1>1, LoopAssumption DEF IInv, NetOK
<1>8. LinesWait(G, input')
  <2>. SUFFICES ASSUME NEW e \in Descriptors
                PROVE  IF input'[e] > 0 THEN \E t \in G : LiveIn(G, "ProcessCommand", e) = {t}
                                        ELSE LiveIn(G, "ProcessCommand", e) = {}
    BY DEF LinesWait
  <2>1. CASE e = d
    BY <1>1, <1>4, <2>1 DEF NoTask, IInv, NetOK
  <2>2. CASE e # d
    <3>1. input'[e] = input[e]
      BY <1>1, <2>2 DEF IInv, NetOK
    <3>2. LiveIn(G, "ProcessCommand", e) = LiveIn(Tasks, "ProcessCommand", e)
      BY <1>4, <2>2 DEF NoTask
    <3>3. IF input[e] > 0 THEN \E t \in Tasks : LiveIn(Tasks, "ProcessCommand", e) = {t}
                          ELSE LiveIn(Tasks, "ProcessCommand", e) = {}
      BY DEF IInv, LinesWait
    <3>. QED
      BY <1>5, <3>1, <3>2, <3>3
  <2>. QED
    BY <2>1, <2>2
<1>9. socket' \in [Descriptors -> {"quiet", "data", "eof"}]
  BY <1>1 DEF IInv, NetOK
<1>. QED
  BY <1>1, <1>2, <1>3, <1>6, <1>7, <1>8, <1>9

LEMMA CommandQuitOK ==
  ASSUME IInv, NEW d \in Descriptors, CommandQuit(d)
  PROVE  IInv'
<1>1. Executes /\ shutdownsock(d)
  BY DEF CommandQuit
<1>2. UNCHANGED <<m_minPriority, counter, quota>> /\ open' \subseteq open
  BY <1>1 DEF shutdownsock
<1>3. /\ LoopOK' /\ NeverSleepsOnWork' /\ input_set' = {}
  BY <1>1, <1>2, ExecutesOK DEF IInv, LoopOK
<1>4. /\ HeapsOK' /\ LinesWait(Tasks', input') /\ Dispatching(Tasks', counter')
      /\ input' \in [Descriptors -> 0 .. MaxInput]
      /\ socket' \in [Descriptors -> {"quiet", "data", "eof"}]
  BY <1>1, ShutdownsockOK
<1>5. NetOK'
  BY <1>2, <1>3, <1>4 DEF IInv, NetOK
<1>. QED
  BY <1>3, <1>4, <1>5 DEF IInv

LEMMA CommandLogoutOK ==
  ASSUME IInv, NEW d \in Descriptors, CommandLogout(d)
  PROVE  IInv'
<1>1. Executes /\ UNCHANGED <<schedulerVars, open, socket, input, counter>>
      /\ quota' = [quota EXCEPT ![d] = cmd_quota_max]
  BY DEF CommandLogout
<1>2. /\ LoopOK' /\ NeverSleepsOnWork' /\ input_set' = {}
  BY <1>1, ExecutesOK DEF IInv, LoopOK, schedulerVars
<1>3. HeapsOK' /\ Tasks' = Tasks
  BY <1>1, Same
<1>4. NetOK'
  BY <1>1, <1>2, LoopAssumption DEF IInv, NetOK
<1>. QED
  BY <1>1, <1>2, <1>3, <1>4 DEF IInv

LEMMA SetMinPriorityOK ==
  ASSUME IInv, SetMinPriority
  PROVE  IInv'
<1>1. Executes /\ UNCHANGED <<m_WhenHeap, m_PriorityHeap, m_Ticket, netVars, counter>>
      /\ m_minPriority' \in {PRIORITY_CF_DEQUEUE_ENABLED, PRIORITY_CF_DEQUEUE_DISABLED}
  BY LoopAssumption DEF SetMinPriority
<1>2. /\ LoopOK' /\ NeverSleepsOnWork' /\ input_set' = {} /\ HeapsOK
  BY <1>1, ExecutesOK DEF IInv, LoopOK
<1>3. HeapsOK' /\ Tasks' = Tasks
  BY <1>1, <1>2, HeapsFewer DEF Tasks
<1>4. NetOK'
  BY <1>1, <1>2 DEF IInv, NetOK, netVars
<1>. QED
  BY <1>1, <1>2, <1>3, <1>4 DEF IInv, netVars

-----------------------------------------------------------------------------
(* Sleeping, and the network.                                              *)

LEMMA NextBatchOK ==
  ASSUME IInv, BatchDone, NextBatch
  PROVE  IInv'
<1>1. /\ UNCHANGED <<schedulerVars, pc, ltaCurrent, busy, ltaLastSlice, timeout, input_set, netVars, counter>>
      /\ pc = "run" /\ iCount' = Batch /\ nTasks' = 0
  BY DEF NextBatch, BatchDone
<1>2. HeapsOK' /\ Tasks' = Tasks /\ NeverSleepsOnWork'
  BY <1>1, Same, Awake
<1>3. Batch \in Nat
  BY LoopAssumption DEF Batch
<1>4. LoopOK' /\ NetOK'
  BY <1>1, <1>3 DEF IInv, LoopOK, NetOK, netVars, schedulerVars, Batch
<1>. QED
  BY <1>1, <1>2, <1>4 DEF IInv, netVars

(* WhenNext is a time, and no task is due before it. *)
LEMMA WhenNextBounds ==
  ASSUME m_WhenHeap \subseteq TaskType, NEW default \in Nat
  PROVE  /\ WhenNext(default) \in Nat
         /\ WhenNext(default) > Immediately =>
              ~SomethingToRun /\ \A t \in m_WhenHeap : WhenNext(default) <= t.ltaWhen
<1>1. CASE SomethingToRun
  BY <1>1 DEF WhenNext, Immediately
<1>2. CASE ~SomethingToRun /\ m_WhenHeap = {}
  BY <1>2 DEF WhenNext
<1>3. CASE ~SomethingToRun /\ m_WhenHeap # {}
  <2>. DEFINE S == {t.ltaWhen : t \in m_WhenHeap}
  <2>1. S \in SUBSET Nat /\ S # {}
    BY <1>3, TaskFields
  <2>2. \E w \in S : \A v \in S : w <= v
    BY <2>1, LeastOf
  <2>3. \E w \in S : \A t \in m_WhenHeap : w <= t.ltaWhen
    BY <2>2
  <2>4. WhenNext(default) = CHOOSE w \in S : \A t \in m_WhenHeap : w <= t.ltaWhen
    BY <1>3 DEF WhenNext
  <2>. HIDE DEF S
  <2>5. WhenNext(default) \in S /\ \A t \in m_WhenHeap : WhenNext(default) <= t.ltaWhen
    BY <2>3, <2>4
  <2>. QED
    BY <1>3, <2>1, <2>5
<1>. QED
  BY <1>1, <1>2, <1>3

LEMMA SleepOK ==
  ASSUME IInv, BatchDone, Sleep
  PROVE  IInv'
<1>. DEFINE w == WhenNext(ltaCurrent + time_30m)
<1>1. /\ UNCHANGED <<schedulerVars, ltaCurrent, busy, ltaLastSlice, netVars, counter>>
      /\ timeout' = IF w < ltaCurrent THEN 0 ELSE w - ltaCurrent
      /\ input_set' = {d \in open : input[d] = 0}
      /\ pc' = "select" /\ iCount' = 0 /\ nTasks' = 0
  BY DEF Sleep
<1>2. ltaCurrent \in Nat \ {0} /\ m_WhenHeap \subseteq TaskType
  BY NowAssumption DEF IInv, LoopOK, HeapsOK
<1>3. ltaCurrent + time_30m \in Nat
  BY <1>2, LoopAssumption DEF time_30m
<1>. HIDE DEF w
<1>4. /\ w \in Nat
      /\ w > Immediately => ~SomethingToRun /\ \A t \in m_WhenHeap : w <= t.ltaWhen
  BY <1>2, <1>3, WhenNextBounds DEF w
<1>5. HeapsOK' /\ Tasks' = Tasks
  BY <1>1, Same
<1>6. timeout' \in Nat
  BY <1>1, <1>2, <1>4
<1>7. LoopOK'
  <2>1. Batch \in Nat
    BY LoopAssumption DEF Batch
  <2>. QED
    BY <1>1, <1>6, <2>1 DEF IInv, LoopOK, schedulerVars, Batch
<1>8. NetOK'
  BY <1>1 DEF IInv, NetOK, netVars
<1>9. NeverSleepsOnWork'
  <2>. SUFFICES ASSUME timeout' > 0
                PROVE  ~SomethingToRun /\ \A t \in m_WhenHeap : Now + timeout' <= t.ltaWhen + busy
    BY <1>1 DEF NeverSleepsOnWork, SomethingToRun, IsRunnable, schedulerVars
  <2>1. w > Immediately /\ ltaCurrent + timeout' = w
    BY <1>1, <1>2, <1>4 DEF Immediately
  <2>2. ltaCurrent = Now - busy /\ busy \in Nat /\ Now \in Nat
    BY NowAssumption DEF IInv, LoopOK, Sleep, BatchDone
  <2>3. ASSUME NEW t \in m_WhenHeap
        PROVE  Now + timeout' <= t.ltaWhen + busy
    <3>1. t.ltaWhen \in Nat /\ w <= t.ltaWhen
      BY <1>2, <1>4, <2>1, TaskFields
    <3>. QED
      BY <1>1, <1>4, <2>1, <2>2, <3>1
  <2>. QED
    BY <1>4, <2>1, <2>3
<1>. QED
  BY <1>1, <1>5, <1>7, <1>8, <1>9 DEF IInv, netVars

LEMMA SelectReturnsOK ==
  ASSUME IInv, SelectReturns \/ SelectInterrupted
  PROVE  IInv'
<1>1. /\ UNCHANGED <<schedulerVars, iCount, nTasks, ltaCurrent, ltaLastSlice, netVars, counter>>
      /\ timeout' = 0 /\ busy' = 0 /\ input_set' \subseteq input_set
      /\ pc' = "net" \/ (pc' = "top" /\ input_set' = {})
  BY DEF SelectReturns, SelectInterrupted, Readable
<1>2. HeapsOK' /\ Tasks' = Tasks /\ NeverSleepsOnWork'
  BY <1>1, Same, Awake
<1>3. LoopOK' /\ NetOK'
  BY <1>1, NowAssumption DEF IInv, LoopOK, NetOK, netVars, schedulerVars, Batch
<1>. QED
  BY <1>1, <1>2, <1>3 DEF IInv, netVars

LEMMA NewConnectionOK ==
  ASSUME IInv, NEW d \in Descriptors, new_connection(d)
  PROVE  IInv'
<1>1. /\ UNCHANGED <<schedulerVars, iCount, nTasks, ltaCurrent, ltaLastSlice, socket, input, counter>>
      /\ timeout' = 0 /\ busy' = 0 /\ input_set' \subseteq input_set /\ pc' = "net"
      /\ open' = open \cup {d} /\ quota' = [quota EXCEPT ![d] = cmd_quota_max]
  BY DEF new_connection, Readable
<1>2. HeapsOK' /\ Tasks' = Tasks /\ NeverSleepsOnWork'
  BY <1>1, Same, Awake
<1>3. LoopOK'
  BY <1>1, NowAssumption DEF IInv, LoopOK, schedulerVars, Batch
<1>4. NetOK'
  BY <1>1, LoopAssumption DEF IInv, NetOK
<1>. QED
  BY <1>1, <1>2, <1>3, <1>4 DEF IInv

LEMMA NetDoneOK ==
  ASSUME IInv, NetDone
  PROVE  IInv'
<1>1. /\ UNCHANGED <<schedulerVars, iCount, nTasks, ltaCurrent, busy, ltaLastSlice, timeout, input_set,
                     netVars, counter>>
      /\ pc' = "top" /\ input_set = {}
  BY DEF NetDone
<1>2. HeapsOK' /\ Tasks' = Tasks /\ NeverSleepsOnWork'
  BY <1>1, Same, Awake
<1>3. LoopOK' /\ NetOK'
  BY <1>1 DEF IInv, LoopOK, NetOK, netVars, schedulerVars, Batch
<1>. QED
  BY <1>1, <1>2, <1>3 DEF IInv, netVars

LEMMA SocketDiedOK ==
  ASSUME IInv, NEW d \in Descriptors, SocketDied(d)
  PROVE  IInv'
<1>1. /\ shutdownsock(d) /\ pc = "net" /\ input_set' = input_set \ {d}
      /\ UNCHANGED <<pc, iCount, nTasks, ltaCurrent, busy, ltaLastSlice, timeout>>
  BY DEF SocketDied
<1>2. UNCHANGED <<m_minPriority, counter, quota>> /\ open' = open \ {d}
  BY <1>1 DEF shutdownsock
<1>3. /\ HeapsOK' /\ LinesWait(Tasks', input') /\ Dispatching(Tasks', counter')
      /\ input' = [input EXCEPT ![d] = 0] /\ input' \in [Descriptors -> 0 .. MaxInput]
      /\ socket' \in [Descriptors -> {"quiet", "data", "eof"}]
  BY <1>1, ShutdownsockOK
<1>4. NetOK'
  BY <1>1, <1>2, <1>3 DEF IInv, NetOK
<1>5. LoopOK' /\ NeverSleepsOnWork'
  BY <1>1, <1>2, Awake DEF IInv, LoopOK, Batch
<1>. QED
  BY <1>3, <1>4, <1>5 DEF IInv

LEMMA ClientSendsOK ==
  ASSUME IInv, NEW d \in Descriptors, ClientSends(d)
  PROVE  IInv'
<1>1. /\ UNCHANGED <<schedulerVars, loopVars, open, input, quota, counter>>
      /\ \E s \in {"data", "eof"} : socket' = [socket EXCEPT ![d] = s]
  BY DEF ClientSends
<1>2. HeapsOK' /\ Tasks' = Tasks
  BY <1>1, Same
<1>3. LoopOK' /\ NetOK'
  BY <1>1 DEF IInv, LoopOK, NetOK, loopVars, schedulerVars, Batch
<1>4. NeverSleepsOnWork'
  BY <1>1 DEF IInv, NeverSleepsOnWork, SomethingToRun, IsRunnable, schedulerVars, loopVars
<1>. QED
  BY <1>1, <1>2, <1>3, <1>4 DEF IInv

LEMMA ProcessInputOK ==
  ASSUME IInv, NEW d \in Descriptors, process_input(d)
  PROVE  IInv'
<1>. PICK k \in 0 .. MaxInput :
       /\ input' = [input EXCEPT ![d] = @ + k]
       /\ IF input[d] = 0 /\ k > 0
          THEN /\ TicketFree(2)
               /\ m_WhenHeap' = m_WhenHeap \cup DeferImmediateTask(PRIORITY_SYSTEM, "ProcessCommand", d)
               /\ TicketTaken
          ELSE UNCHANGED <<m_WhenHeap, m_Ticket>>
  BY DEF process_input
<1>1. /\ pc = "net" /\ d \in input_set /\ input_set' = input_set \ {d}
      /\ socket' = [socket EXCEPT ![d] = "quiet"]
      /\ UNCHANGED <<m_PriorityHeap, m_minPriority, pc, iCount, nTasks, ltaCurrent, busy, ltaLastSlice,
                     timeout, open, quota, counter>>
  BY DEF process_input
<1>2. input[d] = 0 /\ HeapsOK /\ LinesWait(Tasks, input) /\ Dispatching(Tasks, counter)
  BY <1>1 DEF IInv, NetOK
<1>3. input'[d] = k /\ k \in Nat /\ \A e \in Descriptors : e # d => input'[e] = input[e]
  BY <1>2, LoopAssumption DEF IInv, NetOK
<1>4. input' \in [Descriptors -> 0 .. MaxInput]
  BY <1>2, LoopAssumption DEF IInv, NetOK
<1>5. NetOK' /\ LoopOK' /\ NeverSleepsOnWork'
  <2>1. NetOK'
    BY <1>1, <1>3, <1>4 DEF IInv, NetOK
  <2>. QED
    BY <1>1, <2>1, Awake DEF IInv, LoopOK, Batch
<1>6. CASE k > 0
  <2>. DEFINE n == TaskRecord(Immediately, PRIORITY_SYSTEM, "ProcessCommand", d)
              G == Tasks \cup {n}
  <2>1. n \in TaskType /\ n.m_Ticket = m_Ticket /\ n.fpTask = "ProcessCommand" /\ n.arg = d
    BY <1>2, NewTask, PriorityTypes, TimeTypes
  <2>. HIDE DEF n
  <2>2. m_WhenHeap' = m_WhenHeap \cup {n} /\ TicketTaken /\ TicketFree(2)
    BY <1>2, <1>6 DEF DeferImmediateTask, n
  <2>3. TicketFree(0)
    BY <1>2, <2>2, TicketAssumption DEF TicketFree, HeapsOK
  <2>4. HeapsOK' /\ Tasks' = G
    BY <1>1, <1>2, <2>1, <2>2, <2>3, HeapsMore DEF Tasks
  <2>5. Dispatching(G, counter)
    <3>1. \A r : LiveIn(G, "dispatch", r) = LiveIn(Tasks, "dispatch", r)
      BY <2>1 DEF LiveIn
    <3>. QED
      BY <1>2, <3>1, DispatchSame
  <2>6. LinesWait(G, input')
    <3>1. \A e : e # d => LiveIn(G, "ProcessCommand", e) = LiveIn(Tasks, "ProcessCommand", e)
      BY <2>1 DEF LiveIn
    <3>2. LiveIn(Tasks, "ProcessCommand", d) = {}
      BY <1>2 DEF LinesWait
    <3>3. LiveIn(G, "ProcessCommand", d) = {n}
      BY <2>1, <3>2 DEF LiveIn
    <3>4. \A e : LiveIn(G, "ProcessCommand", e) \subseteq G
      BY DEF LiveIn
    <3>. HIDE DEF G
    <3>. QED
      BY <1>2, <1>3, <1>6, <3>1, <3>3, <3>4 DEF LinesWait
  <2>. QED
    BY <1>1, <1>5, <2>4, <2>5, <2>6 DEF IInv
<1>7. CASE ~ (k > 0)
  <2>1. UNCHANGED <<m_WhenHeap, m_Ticket>>
    BY <1>7
  <2>2. HeapsOK' /\ Tasks' = Tasks
    BY <1>1, <1>2, <2>1, HeapsFewer DEF Tasks
  <2>3. input' = input
    BY <1>2, <1>3, <1>4, <1>7 DEF IInv, NetOK
  <2>. QED
    BY <1>1, <1>2, <1>5, <2>2, <2>3 DEF IInv
<1>. QED
  BY <1>6, <1>7

LEMMA TickOK ==
  ASSUME IInv, Tick
  PROVE  IInv'
<1>1. /\ m_WhenHeap' = AgedHeap(m_WhenHeap) /\ m_PriorityHeap' = AgedHeap(m_PriorityHeap)
      /\ UNCHANGED <<m_Ticket, m_minPriority>>
      /\ ltaCurrent' = Aged(ltaCurrent) /\ ltaLastSlice' = Aged(ltaLastSlice)
      /\ busy' = IF pc \in {"run", "command"} THEN Least(busy + 1, Now - 1) ELSE busy
      /\ counter' = [r \in RecurringTasks |-> Aged(counter[r])]
      /\ timeout' = IF timeout > 0 THEN timeout - 1 ELSE 0
      /\ UNCHANGED <<pc, iCount, nTasks, input_set, netVars>>
  BY DEF Tick, SchedulerTick
<1>2. HeapsOK'
  <2>. DEFINE W == AgedHeap(m_WhenHeap)  P == AgedHeap(m_PriorityHeap)
  <2>1. W \subseteq TaskType /\ P \subseteq TaskType /\ Ordered(W, P, m_Ticket)
    BY AgedOrdered DEF IInv, HeapsOK
  <2>. HIDE DEF W, P
  <2>2. m_WhenHeap' = W /\ m_PriorityHeap' = P
    BY <1>1 DEF W, P
  <2>. QED
    BY <1>1, <2>1, <2>2 DEF IInv, HeapsOK, TaskType, Ordered, AgeAt
<1>3. Tasks' = AgedHeap(Tasks)
  BY <1>1 DEF Tasks, AgedHeap
<1>4. Tasks \subseteq TaskType
  BY DEF IInv, HeapsOK, Tasks
<1>5. \A g, a : LiveIn(Tasks', g, a) = {AgedTask(t) : t \in LiveIn(Tasks, g, a)}
  BY <1>3, <1>4, LiveAged
<1>6. \A g, a : LiveIn(Tasks', g, a) \subseteq Tasks'
  BY DEF LiveIn
<1>7. LinesWait(Tasks', input')
  <2>1. input' = input
    BY <1>1 DEF netVars
  <2>. SUFFICES ASSUME NEW d \in Descriptors
                PROVE  IF input[d] > 0 THEN \E t \in Tasks' : LiveIn(Tasks', "ProcessCommand", d) = {t}
                                       ELSE LiveIn(Tasks', "ProcessCommand", d) = {}
    BY <2>1 DEF LinesWait
  <2>2. IF input[d] > 0 THEN \E t \in Tasks : LiveIn(Tasks, "ProcessCommand", d) = {t}
                        ELSE LiveIn(Tasks, "ProcessCommand", d) = {}
    BY DEF IInv, LinesWait
  <2>3. CASE input[d] > 0
    <3>1. PICK t \in Tasks : LiveIn(Tasks, "ProcessCommand", d) = {t}
      BY <2>2, <2>3
    <3>2. LiveIn(Tasks', "ProcessCommand", d) = {AgedTask(t)}
      BY <1>5, <3>1
    <3>. QED
      BY <1>6, <2>3, <3>2
  <2>4. CASE ~ (input[d] > 0)
    BY <1>5, <2>2, <2>4
  <2>. QED
    BY <2>3, <2>4
<1>8. Dispatching(Tasks', counter')
  <2>. SUFFICES ASSUME NEW r \in RecurringTasks
                PROVE  \E t \in Tasks' : LiveIn(Tasks', "dispatch", r) = {t} /\ t.ltaWhen = counter'[r]
    BY DEF Dispatching
  <2>1. PICK t \in Tasks : LiveIn(Tasks, "dispatch", r) = {t} /\ t.ltaWhen = counter[r]
    BY DEF IInv, Dispatching
  <2>2. LiveIn(Tasks', "dispatch", r) = {AgedTask(t)}
    BY <1>5, <2>1
  <2>3. AgedTask(t).ltaWhen = Aged(counter[r])
    BY <1>4, <2>1, AgedTaskFields
  <2>. QED
    BY <1>1, <1>6, <2>2, <2>3
<1>9. LoopOK'
  <2>1. ltaCurrent' \in 1 .. Now /\ ltaLastSlice' \in 1 .. Now /\ timeout' \in Nat
    BY <1>1, NowAssumption DEF Aged, IInv, LoopOK
  <2>2. counter' \in [RecurringTasks -> 1 .. Now + interval]
    <3>1. \A r \in RecurringTasks : Aged(counter[r]) \in 1 .. Now + interval
      BY LoopAssumption, NowAssumption DEF Aged, IInv, LoopOK
    <3>. QED
      BY <1>1, <3>1
  <2>3. busy' \in 0 .. Now - 1
    BY <1>1, NowAssumption DEF IInv, LoopOK, Least
  <2>4. pc \in {"run", "command"} => ltaCurrent' = Now - busy'
    BY <1>1, NowAssumption DEF IInv, LoopOK, Least, Aged
  <2>. QED
    BY <1>1, <2>1, <2>2, <2>3, <2>4 DEF IInv, LoopOK, Batch
<1>10. NetOK'
  BY <1>1 DEF IInv, NetOK, netVars
<1>11. NeverSleepsOnWork'
  <2>. SUFFICES ASSUME pc = "select", timeout' > 0
                PROVE  /\ ~SomethingToRun'
                       /\ \A u \in m_WhenHeap' : Now + timeout' <= u.ltaWhen + busy
    BY <1>1 DEF NeverSleepsOnWork
  <2>1. /\ timeout > 1 /\ timeout' = timeout - 1 /\ timeout \in Nat
        /\ busy \in 0 .. Now - 1 /\ Now \in Nat
    BY <1>1, NowAssumption DEF IInv, LoopOK
  <2>2. ~SomethingToRun /\ \A t \in m_WhenHeap : Now + timeout <= t.ltaWhen + busy
    BY <2>1 DEF IInv, NeverSleepsOnWork
  <2>3. ~SomethingToRun'
    <3>1. \A t \in m_PriorityHeap : AgedTask(t).iPriority = t.iPriority
      BY AgedTaskFields DEF IInv, HeapsOK
    <3>. QED
      BY <1>1, <2>2, <3>1 DEF SomethingToRun, IsRunnable, AgedHeap
  <2>4. ASSUME NEW t \in m_WhenHeap
        PROVE  Now + timeout' <= AgedTask(t).ltaWhen + busy
    <3>1. t \in TaskType
      BY DEF IInv, HeapsOK
    <3>2. t.ltaWhen \in Nat /\ AgedTask(t).ltaWhen = Aged(t.ltaWhen)
      BY <3>1, AgedTaskFields, TaskFields
    <3>. QED
      BY <2>1, <2>2, <3>2 DEF Aged
  <2>. QED
    BY <1>1, <2>3, <2>4 DEF AgedHeap
<1>. QED
  BY <1>2, <1>7, <1>8, <1>9, <1>10, <1>11 DEF IInv

LEMMA Stutters ==
  ASSUME IInv, UNCHANGED vars
  PROVE  IInv'
<1>1. HeapsOK' /\ Tasks' = Tasks
  BY Same DEF vars
<1>2. LoopOK' /\ NetOK' /\ NeverSleepsOnWork'
  BY DEF IInv, LoopOK, NetOK, NeverSleepsOnWork, SomethingToRun, IsRunnable, Batch,
         vars, loopVars, netVars, schedulerVars
<1>. QED
  BY <1>1, <1>2 DEF IInv, vars, netVars

-----------------------------------------------------------------------------
(* The theorems.                                                           *)

LEMMA StepOK ==
  ASSUME IInv, [Next]_vars
  PROVE  IInv'
<1>1. CASE Top
  BY <1>1, TopOK
<1>2. ASSUME NEW t \in m_PriorityHeap,
             \/ RunCancelled(t) \/ RunDispatch(t) \/ RunJob(t)
             \/ Task_ProcessCommand(t) \/ Task_ProcessCommandLater(t)
      PROVE  IInv'
  BY <1>2, RunCancelledOK, RunDispatchOK, RunJobOK, ProcessCommandOK, ProcessCommandLaterOK
<1>3. CASE Command
  BY <1>3, CommandDoneOK, CommandQueuesOK, TimewarpOK, CommandQuitOK, CommandLogoutOK,
     SetMinPriorityOK DEF Command
<1>4. CASE BatchEnds \/ NetDone
  BY <1>4, NextBatchOK, SleepOK, NetDoneOK DEF BatchEnds
<1>5. CASE SelectReturns \/ SelectInterrupted
  BY <1>5, SelectReturnsOK
<1>6. ASSUME NEW d \in Descriptors, new_connection(d) \/ process_input(d) \/ SocketDied(d)
      PROVE  IInv'
  BY <1>6, NewConnectionOK, ProcessInputOK, SocketDiedOK
<1>7. CASE Tick
  BY <1>7, TickOK
<1>8. ASSUME NEW d \in Descriptors, ClientSends(d)
      PROVE  IInv'
  BY <1>8, ClientSendsOK
<1>9. CASE UNCHANGED vars
  BY <1>9, Stutters
<1>. QED
  BY <1>1, <1>2, <1>3, <1>4, <1>5, <1>6, <1>7, <1>8, <1>9 DEF Next, shovechars

(* The invariant of the loop: one task for whoever needs one, tickets in   *)
(* order, and no sleep on work (timer.cpp, bsd.cpp shovechars).            *)
THEOREM LoopInvariant == Spec => []IInv
<1>1. Init => IInv
  BY InitOK
<1>2. IInv /\ [Next]_vars => IInv'
  BY StepOK
<1>. QED
  BY <1>1, <1>2, PTL DEF Spec

(* Every variable keeps its type, a descriptor has one live                *)
(* Task_ProcessCommand exactly while lines wait on it, and each recurring  *)
(* task one live record due at its counter, however chunk, quota,          *)
(* @timewarp, shutdownsock and the ticket's rollover come together         *)
(* (netcommon.cpp save_command, timer.cpp, wiz.cpp do_timewarp).           *)
THEOREM OneTaskForEach == Spec => []OneTaskEach
<1>1. IInv => OneTaskEach
  BY Meaning
<1>. QED
  BY <1>1, LoopInvariant, PTL

(* select never sleeps on a runnable task, and past the time of the next   *)
(* one by no more than the tasks of the turn took, for any chunk and any   *)
(* time they take (bsd.cpp shovechars, timer.cpp WhenNext).                *)
THEOREM NoSleepOnWork == Spec => []NeverSleepsOnWork
<1>1. IInv => NeverSleepsOnWork
  BY DEF IInv
<1>. QED
  BY <1>1, LoopInvariant, PTL

-----------------------------------------------------------------------------
(* The order in which tasks run.                                           *)

(* Of two tickets less than half the space old, the signed difference      *)
(* tells which is older, across a rollover too.                            *)
LEMMA SignedDifference ==
  ASSUME NEW M \in Nat \ {0}, NEW m \in 0 .. M - 1, NEW a \in 0 .. M - 1, NEW b \in 0 .. M - 1,
         (m - a) % M \in 1 .. M \div 2, (m - b) % M \in 1 .. M \div 2,
         (a - b) % M >= (M + 1) \div 2
  PROVE  (m - b) % M < (m - a) % M
<1>1. /\ (m - a) % M = IF m >= a THEN m - a ELSE m - a + M
      /\ (m - b) % M = IF m >= b THEN m - b ELSE m - b + M
      /\ (a - b) % M = IF a >= b THEN a - b ELSE a - b + M
  BY DifferenceMod
<1>2. 2 * (M \div 2) <= M /\ 2 * ((M + 1) \div 2) >= M /\ M \div 2 \in Nat /\ (M + 1) \div 2 \in Nat
  OBVIOUS
<1>. QED
  BY <1>1, <1>2

(* What RunTasks takes is older than any untimed task of its priority. *)
LEMMA TopmostIsOldest ==
  ASSUME HeapsOK, NEW t \in m_PriorityHeap, IsTopmost(t, m_PriorityHeap),
         NEW u \in Tasks, u # t, u.iPriority = t.iPriority, u.ltaWhen = Immediately
  PROVE  Age(u) < Age(t)
<1>1. t \in TaskType /\ u \in TaskType
  BY DEF HeapsOK, Tasks
<1>2. /\ t.m_Ticket \in 0 .. TicketMod - 1 /\ u.m_Ticket \in 0 .. TicketMod - 1
      /\ t.iPriority \in Int
  BY <1>1, TaskFields
     DEF Priorities, PRIORITY_SYSTEM, PRIORITY_PLAYER, PRIORITY_OBJECT, PRIORITY_SUSPEND
<1>3. AgeAt(m_Ticket, t) \in 1 .. TicketMod \div 2 /\ AgeAt(m_Ticket, u) \in 1 .. TicketMod \div 2
  BY DEF HeapsOK, Ordered, Tasks
<1>4. CASE u \in m_WhenHeap
  BY <1>4 DEF HeapsOK, Ordered, Age, AgeAt
<1>5. CASE u \in m_PriorityHeap
  <2>1. TicketBefore(t.m_Ticket, u.m_Ticket)
    BY <1>2, <1>5 DEF IsTopmost, ComparePriority
  <2>2. TicketMod \in Nat \ {0} /\ m_Ticket \in 0 .. TicketMod - 1
    BY TicketAssumption DEF HeapsOK
  <2>. QED
    BY <1>2, <1>3, <2>1, <2>2, SignedDifference DEF TicketBefore, Age, AgeAt
<1>. QED
  BY <1>4, <1>5 DEF Tasks

InOrder ==
  \A t, u \in Tasks :
    /\ RunNow(t) /\ pc = "run"
    /\ t.ltaWhen = Immediately /\ u.ltaWhen = Immediately
    /\ t.iPriority = u.iPriority /\ u.fpTask # NoTask /\ u # t
    => Age(u) < Age(t)

(* A step that loses no ticket runs nothing. *)
LEMMA NothingRuns ==
  ASSUME \A t \in Tasks : \E u \in Tasks' : u.m_Ticket = t.m_Ticket
  PROVE  InOrder
BY DEF InOrder, RunNow

LEMMA StepInOrder ==
  ASSUME IInv, [Next]_vars, pc = "run"
  PROVE  InOrder
<1>1. ASSUME NEW t \in m_PriorityHeap,
             \/ RunCancelled(t) \/ RunDispatch(t) \/ RunJob(t)
             \/ Task_ProcessCommand(t) \/ Task_ProcessCommandLater(t)
      PROVE  InOrder
  <2>1. IsTopmost(t, m_PriorityHeap) /\ m_PriorityHeap' = m_PriorityHeap \ {t}
        /\ m_WhenHeap \subseteq m_WhenHeap'
    BY <1>1 DEF RunCancelled, RunDispatch, RunJob, Task_ProcessCommand, Task_ProcessCommandLater,
                Takes, IsNext
  <2>2. \A v \in Tasks : v # t => ~RunNow(v)
    BY <2>1 DEF Tasks, RunNow
  <2>3. HeapsOK
    BY DEF IInv
  <2>. QED
    BY <2>1, <2>2, <2>3, TopmostIsOldest DEF InOrder
<1>2. CASE Tick
  <2>1. Tasks' = AgedHeap(Tasks)
    BY <1>2 DEF Tick, SchedulerTick, Tasks, AgedHeap
  <2>2. \A t \in Tasks : AgedTask(t) \in Tasks' /\ AgedTask(t).m_Ticket = t.m_Ticket
    BY <2>1, AgedTaskFields DEF AgedHeap, IInv, HeapsOK, Tasks
  <2>. QED
    BY <2>2, NothingRuns
<1>3. CASE UNCHANGED schedulerVars
  <2>1. Tasks' = Tasks
    BY <1>3 DEF schedulerVars, Tasks
  <2>. QED
    BY <2>1, NothingRuns
<1>4. CASE BatchEnds \/ UNCHANGED vars \/ \E d \in Descriptors : ClientSends(d)
  BY <1>3, <1>4 DEF BatchEnds, NextBatch, Sleep, vars, ClientSends
<1>5. ~Top /\ ~Command /\ ~SelectReturns /\ ~SelectInterrupted /\ ~NetDone
  BY DEF Top, Command, CommandDone, CommandQueues, do_timewarp, CommandQuit, CommandLogout,
         SetMinPriority, Executes, SelectReturns, SelectInterrupted, NetDone
<1>6. \A d \in Descriptors : ~new_connection(d) /\ ~process_input(d) /\ ~SocketDied(d)
  BY DEF new_connection, process_input, SocketDied
<1>. QED
  BY <1>1, <1>2, <1>4, <1>5, <1>6 DEF Next, shovechars

(* Of the untimed tasks of one priority the one scheduled first runs       *)
(* first, across both heaps and across a rollover of the ticket            *)
(* (timer.cpp ComparePriority, ReadyTasks).                                *)
THEOREM TasksRunInOrder == Spec => RunsInOrder
<1>1. IInv /\ [Next]_vars => [InOrder]_vars
  BY StepInOrder DEF InOrder
<1>2. Spec => [][InOrder]_vars
  BY <1>1, LoopInvariant, PTL DEF Spec
<1>. QED
  BY <1>2 DEF RunsInOrder, InOrder
=============================================================================
