----------------------------- MODULE CommandQueue -----------------------------
(***************************************************************************)
(* The command queue of TinyMUX (cque.cpp): what softcode calls @wait,     *)
(* semaphores, @notify, @drain and @halt, on top of the scheduler, with    *)
(* the accounts it keeps: pennies held for queued commands (predicates.cpp)*)
(* and the number of commands a player has queued (player_c.cpp).          *)
(*                                                                         *)
(* A queue entry is a task record whose arg is the BQUE block.  Every      *)
(* action is one command, or one task taken off the heap; the code is      *)
(* single-threaded, so nothing interleaves within them.  The commands of   *)
(* an entry are executed one by one while `running' names the entry, and   *)
(* players type commands when no entry runs.  Whether a command's          *)
(* permission checks pass is left open: a refused command does nothing.    *)
(***************************************************************************)
EXTENDS Scheduler, Totals

CONSTANTS
  Players, Things,
  GOD,              \* owner of garbage
  Free,             \* players that pay nothing: wizards and free_money
  Semaphores,       \* <<object, attribute>> pairs used as semaphores
  waitcost,         \* pennies held while a command is queued
  Surcharges,       \* what machinecost may add to it, {0, 1} or {0}
  OBJECT_DEPOSIT,   \* pennies in a thing
  Purses,           \* pennies a player may start with
  QueueMax,         \* by player, the most commands it may queue
  Delays,           \* bound: how far from now a timed command is due
  MaxCount,         \* bound: how far a semaphore's count may be from 0, MAX_INT in the code
  MaxDrift,         \* bound: how far @chown may drive a queue count below 0
  Counts,           \* bound: counts given to @notify
  Warps,            \* bound: ticks @timewarp moves the queue by
  MinPriorities,    \* what @enable and @disable may set m_minPriority to
  Chownable,        \* things that may change owner
  Destroyable,      \* things that may be destroyed
  Powered,          \* things that may get and lose WIZARD, IMMORTAL or free_money of their own
  Haltable          \* objects whose HALT flag may be set and reset

Objects == Players \cup Things

ASSUME QueueAssumption ==
  /\ Players \cap Things = {} /\ GOD \notin Objects
  /\ Free \subseteq Players
  /\ Chownable \subseteq Things /\ Destroyable \subseteq Things /\ Haltable \subseteq Objects
  /\ Powered \subseteq Things
  /\ \A s \in Semaphores : s[1] \in Things
  /\ waitcost \in Nat /\ OBJECT_DEPOSIT \in Nat
  /\ Surcharges \subseteq Nat /\ Purses \subseteq Nat
  /\ QueueMax \in [Players -> Nat]
  /\ Delays \subseteq Nat /\ MaxCount \in Nat /\ MaxDrift \in Nat
  /\ Counts \subseteq Nat \ {0} /\ Warps \subseteq Int
  /\ MinPriorities \subseteq {PRIORITY_CF_DEQUEUE_ENABLED, PRIORITY_CF_DEQUEUE_DISABLED}

(* Objects are rows of a table.                                            *)
ASSUME FiniteAssumption == IsFiniteSet(Players) /\ IsFiniteSet(Things)

VARIABLES
  owner,      \* Owner(thing)
  gratis,     \* things that pay nothing, whoever owns them
  halted,     \* objects with the HALT flag
  going,      \* things with the GOING flag
  garbage,    \* things destroyed
  drift,      \* history: how far the queue count of a player is from what is queued
  money,      \* Pennies(player)
  queue,      \* the queue count of the player cache
  semaphore,  \* the number kept in a semaphore attribute
  running     \* executor and enactor of the entry being run, or Idle

objectVars == <<owner, gratis, halted, going, garbage, drift>>
accountVars == <<money, queue, semaphore>>
vars == <<schedulerVars, objectVars, accountVars, running>>

NOTHING == "NOTHING"
NoSemaphore == <<NOTHING, NOTHING>>
Idle == [executor |-> NOTHING, enactor |-> NOTHING]

BQUE(executor, enactor, IsTimed, sem) ==
  [executor |-> executor, enactor |-> enactor, IsTimed |-> IsTimed, sem |-> sem]

Owner(x) == IF x \in Players THEN x ELSE owner[x]

Good(x) == x \notin garbage

-----------------------------------------------------------------------------
(* Waiters on a semaphore, each named by its ticket.                       *)

IsWaiter(t, s) == t.fpTask = "Task_SemaphoreTimeout" /\ t.arg.sem = s

WaitersIn(tasks, s) == {t.m_Ticket : t \in {u \in tasks : IsWaiter(u, s)}}

Waiters(s) == WaitersIn(Tasks, s)

(* Entries whose executor p owns, by ticket. *)
EntriesIn(tasks, p) == {t.m_Ticket : t \in {u \in tasks : Owner(u.arg.executor) = p}}

Entries(p) == EntriesIn(Tasks, p)

-----------------------------------------------------------------------------
(* Money.  payfor and giveto work on the owner's purse, and do nothing     *)
(* when the owner needs no money, or the thing itself, by a flag or power  *)
(* of its own: Wizard and Free_Money are asked of both.                    *)

Pays(x) == Owner(x) \notin Free

Exempt(x) == x \in gratis \/ ~Pays(x)

CanPay(x, cost) == Exempt(x) \/ money[Owner(x)] >= cost

Plus(purses, x, pennies) ==
  IF Exempt(x) THEN purses ELSE [purses EXCEPT ![Owner(x)] = @ + pennies]

\* Mutant: lets those queue who can pay, and takes nothing.
payfor_Nothing(x, cost) == money

payfor(x, cost) == Plus(money, x, -cost)
giveto(x, pennies) == Plus(money, x, pennies)

(* add_to with +1 or -1. *)
add_to(s, am) == [semaphore EXCEPT ![s] = @ + am]

-----------------------------------------------------------------------------
\* Mutants: an entry that was notified is still taken off its semaphore; the
\* halted entries stay in the queue count; a waiter leaves it twice.
halt_que_Notified(gone, purses, counts) ==
  /\ m_WhenHeap' = m_WhenHeap \ gone
  /\ m_PriorityHeap' = m_PriorityHeap \ gone
  /\ money' = purses
  /\ queue' = [p \in Players |-> queue[p] - Cardinality(EntriesIn(gone, p))]
  /\ semaphore' = [s \in Semaphores |-> counts[s] - Cardinality({t \in gone : t.arg.sem = s})]

halt_que_Uncounted(gone, purses, counts) ==
  /\ m_WhenHeap' = m_WhenHeap \ gone
  /\ m_PriorityHeap' = m_PriorityHeap \ gone
  /\ money' = purses
  /\ semaphore' = [s \in Semaphores |-> counts[s] - Cardinality(WaitersIn(gone, s))]
  /\ UNCHANGED queue

halt_que_Twice(gone, purses, counts) ==
  /\ m_WhenHeap' = m_WhenHeap \ gone
  /\ m_PriorityHeap' = m_PriorityHeap \ gone
  /\ money' = purses
  /\ queue' = [p \in Players |->
                 queue[p] - Cardinality(EntriesIn(gone, p))
                   - Cardinality({t \in gone : Owner(t.arg.executor) = p
                                               /\ t.fpTask = "Task_SemaphoreTimeout"})]
  /\ semaphore' = [s \in Semaphores |-> counts[s] - Cardinality(WaitersIn(gone, s))]

(* halt_que: each entry removed gives back its waitcost and its place in   *)
(* the queue count to whoever owns the executor now, and its place in the  *)
(* count of the semaphore it waits on.  The accounts it works on are       *)
(* arguments, since its callers have changed them just before.             *)

halt_que(gone, purses, counts) ==
  /\ m_WhenHeap' = m_WhenHeap \ gone
  /\ m_PriorityHeap' = m_PriorityHeap \ gone
  /\ money' = [p \in Players |->
                 purses[p] + IF p \in Free THEN 0
                             ELSE waitcost * Cardinality(EntriesIn(gone, p))]
  /\ queue' = [p \in Players |-> queue[p] - Cardinality(EntriesIn(gone, p))]
  /\ semaphore' = [s \in Semaphores |-> counts[s] - Cardinality(WaitersIn(gone, s))]

(* que_want, for halt_que(player, NOTHING) and halt_que(NOTHING, object).  *)
OwnedBy(p) == {t \in Tasks : Owner(t.arg.executor) = p}
RunFrom(x) == {t \in Tasks : t.arg.executor = x}

-----------------------------------------------------------------------------
Init ==
  /\ m_WhenHeap = {} /\ m_PriorityHeap = {}
  /\ m_Ticket = 0
  /\ m_minPriority = PRIORITY_CF_DEQUEUE_ENABLED
  /\ owner \in [Things -> Players]
  /\ gratis = {} /\ halted = {} /\ going = {} /\ garbage = {}
  /\ money \in [Players -> Purses]
  /\ queue = [p \in Players |-> 0]
  /\ semaphore = [s \in Semaphores |-> 0]
  /\ running = Idle
  /\ drift = [p \in Players |-> 0]

(* wait_que and setup_que: put a command into the queue, if its executor   *)
(* may, can pay, and its owner has not too many there already.             *)

Priority(enactor) == IF enactor \in Players THEN PRIORITY_PLAYER ELSE PRIORITY_OBJECT

Refused(x, cost) == x \in halted \/ ~CanPay(x, cost)

RunsAway(x) == queue[Owner(x)] + 1 > QueueMax[Owner(x)]

wait_que(x, task, counts) ==
  \E a \in Surcharges :
    LET cost == waitcost + a IN
    \/ /\ Refused(x, cost)
       /\ semaphore' = counts
       /\ UNCHANGED <<schedulerVars, objectVars, money, queue>>
    \/ \* "Run away objects: too many commands queued.  Halted."
       /\ ~Refused(x, cost)
       /\ RunsAway(x)
       /\ halt_que(OwnedBy(Owner(x)), payfor(x, cost), counts)
       /\ halted' = halted \cup {x}
       /\ UNCHANGED <<m_Ticket, m_minPriority, owner, gratis, going, garbage, drift>>
    \/ /\ ~Refused(x, cost)
       /\ ~RunsAway(x)
       /\ TicketFree(0)
       /\ m_WhenHeap' = m_WhenHeap \cup task
       /\ TicketTaken
       /\ money' = payfor(x, cost)
       /\ queue' = [queue EXCEPT ![Owner(x)] = @ + 1]
       /\ semaphore' = counts
       /\ UNCHANGED <<m_PriorityHeap, m_minPriority, objectVars>>

-----------------------------------------------------------------------------
(* Commands.  process_command refuses an executor that is going or halted, *)
(* except a halted player at the keyboard.                                 *)

Executes(x, enactor) ==
  \/ /\ running = Idle
     /\ x \in Players /\ enactor = x
  \/ /\ running = [executor |-> x, enactor |-> enactor]
     /\ x \notin halted \cup going \cup garbage

(* @trigger, @force, @switch, ...: queue a command for now.                *)
QueueNow(x, e, victim) ==
  /\ Executes(x, e)
  /\ Good(victim)
  /\ wait_que(victim,
              DeferImmediateTask(Priority(e), "Task_RunQueueEntry", BQUE(victim, e, FALSE, NoSemaphore)),
              semaphore)
  /\ UNCHANGED running

(* @wait <seconds>.                                                        *)
WaitTimed(x, e, delay) ==
  /\ Executes(x, e)
  /\ wait_que(x,
              DeferTask(Now + delay, Priority(e), "Task_RunQueueEntry", BQUE(x, e, TRUE, NoSemaphore)),
              semaphore)
  /\ UNCHANGED running

(* @wait <semaphore>: counted first, and run at once if that leaves the    *)
(* count at zero or below ("over-notified").  A wait without a timeout     *)
(* is a task that is due at once but suspended.                            *)
WaitSemaphore(x, e, s) ==
  /\ Executes(x, e)
  /\ Good(s[1])
  /\ semaphore[s] < MaxCount
  /\ wait_que(x,
              IF semaphore[s] + 1 <= 0
              THEN DeferImmediateTask(Priority(e), "Task_RunQueueEntry", BQUE(x, e, FALSE, NoSemaphore))
              ELSE DeferImmediateTask(PRIORITY_SUSPEND, "Task_SemaphoreTimeout", BQUE(x, e, FALSE, s)),
              add_to(s, 1))
  /\ UNCHANGED running

(* @wait <semaphore>/<timeout>. *)
WaitSemaphoreTimed(x, e, s, delay) ==
  /\ Executes(x, e)
  /\ Good(s[1])
  /\ semaphore[s] < MaxCount
  /\ wait_que(x,
              IF semaphore[s] + 1 <= 0
              THEN DeferImmediateTask(Priority(e), "Task_RunQueueEntry", BQUE(x, e, FALSE, NoSemaphore))
              ELSE DeferTask(Now + delay, Priority(e), "Task_SemaphoreTimeout", BQUE(x, e, TRUE, s)),
              add_to(s, 1))
  /\ UNCHANGED running

-----------------------------------------------------------------------------
(* @notify and @drain: nfy_que.                                            *)

(* A notified entry stays in its heap, due now and no longer suspended.    *)
Notified(t) ==
  [t EXCEPT !.fpTask = "Task_RunQueueEntry", !.iPriority = Priority(t.arg.enactor), !.ltaWhen = Now]

(* TraverseOrdered goes through the priority heap, then the when-heap.     *)
VisitedBefore(t, u) ==
  \/ t \in m_PriorityHeap /\ u \in m_WhenHeap
  \/ t \in m_PriorityHeap /\ u \in m_PriorityHeap /\ ComparePriority(t, u)
  \/ t \in m_WhenHeap /\ u \in m_WhenHeap /\ CompareWhen(t, u)

TasksWaiting(s) == {t \in Tasks : IsWaiter(t, s)}

(* The first `count' waiters of s that the traversal comes to, or all of   *)
(* them if there are fewer; by ticket.                                     *)
AreFirstWaiters(first, s, count) ==
  /\ \/ Cardinality(first) = count
     \/ Cardinality(first) < count /\ first = Waiters(s)
  /\ \A t, u \in TasksWaiting(s) :
       t.m_Ticket \in first /\ u.m_Ticket \notin first => VisitedBefore(t, u)

AfterNotify(t, s, chosen) ==
  IF IsWaiter(t, s) /\ t.m_Ticket \in chosen THEN Notified(t) ELSE t

NotifiedIn(heap, s, chosen) == {AfterNotify(t, s, chosen) : t \in heap}

NotifyWaiters(s, chosen) ==
  /\ m_WhenHeap' = NotifiedIn(m_WhenHeap, s, chosen)
  /\ m_PriorityHeap' = NotifiedIn(m_PriorityHeap, s, chosen)
  /\ UNCHANGED <<m_Ticket, m_minPriority, money, queue>>

(* NFY_NFY and NFY_QUIET lower the count by the number asked for, whoever  *)
(* was waiting; a semaphore whose count is not positive is not looked at.  *)
Notify(x, e, s, count) ==
  /\ Executes(x, e)
  /\ Good(s[1])
  /\ semaphore[s] - count >= -MaxCount
  /\ IF semaphore[s] > 0
     THEN \E first \in SUBSET Waiters(s) :
            AreFirstWaiters(first, s, count) /\ NotifyWaiters(s, first)
     ELSE UNCHANGED <<schedulerVars, money, queue>>
  /\ semaphore' = add_to(s, -count)
  /\ UNCHANGED <<objectVars, running>>

(* NFY_NFYALL clears the count.                                            *)
NotifyAll(x, e, s) ==
  /\ Executes(x, e)
  /\ Good(s[1])
  /\ IF semaphore[s] > 0
     THEN NotifyWaiters(s, Waiters(s))
     ELSE UNCHANGED <<schedulerVars, money, queue>>
  /\ semaphore' = [semaphore EXCEPT ![s] = 0]
  /\ UNCHANGED <<objectVars, running>>

(* NFY_DRAIN discards the waiters.  Its refunds are given to the executor, *)
(* and so are lost on one that pays nothing; those of halt_que are given   *)
(* to the owner, whoever the executor is.                                  *)
Refunded(drained) == {t \in drained : t.arg.executor \notin gratis}

Discard(gone, back, purses, counts) ==
  /\ m_WhenHeap' = m_WhenHeap \ gone
  /\ m_PriorityHeap' = m_PriorityHeap \ gone
  /\ money' = [p \in Players |->
                 purses[p] + IF p \in Free THEN 0
                             ELSE waitcost * Cardinality(EntriesIn(back, p))]
  /\ queue' = [p \in Players |-> queue[p] - Cardinality(EntriesIn(gone, p))]
  /\ semaphore' = counts

Drain(x, e, s) ==
  /\ Executes(x, e)
  /\ Good(s[1])
  /\ LET drained == IF semaphore[s] > 0 THEN TasksWaiting(s) ELSE {}
     IN Discard(drained, Refunded(drained), money, [semaphore EXCEPT ![s] = 0])
  /\ UNCHANGED <<m_Ticket, m_minPriority, objectVars, running>>

-----------------------------------------------------------------------------
(* @halt of a player's entries or of an object's, and of all of them.      *)
Halt(x, e, target) ==
  /\ Executes(x, e)
  /\ Good(target)
  /\ halt_que(IF target \in Players THEN OwnedBy(target) ELSE RunFrom(target), money, semaphore)
  /\ UNCHANGED <<m_Ticket, m_minPriority, objectVars, running>>

HaltAll(x, e) ==
  /\ Executes(x, e)
  /\ halt_que(Tasks, money, semaphore)
  /\ UNCHANGED <<m_Ticket, m_minPriority, objectVars, running>>

(* @set <object> = HALT or !HALT: the flag only, not the queue.            *)
SetHalted(x, e, target) ==
  /\ Executes(x, e)
  /\ Good(target) /\ target \in Haltable
  /\ halted' = IF target \in halted THEN halted \ {target} ELSE halted \cup {target}
  /\ UNCHANGED <<schedulerVars, owner, gratis, going, garbage, drift, accountVars, running>>

(* @set <thing> = WIZARD, @power <thing> = free_money, and their reverse.   *)
SetGratis(x, e, thing) ==
  /\ Executes(x, e)
  /\ Good(thing) /\ thing \in Powered
  /\ gratis' = IF thing \in gratis THEN gratis \ {thing} ELSE gratis \cup {thing}
  /\ UNCHANGED <<schedulerVars, owner, halted, going, garbage, drift, accountVars, running>>

(* @timewarp/queue moves what is timed, wherever it is.                    *)
Warped(t, warp) ==
  LET moved == t.ltaWhen - warp
  IN IF t.arg.IsTimed THEN [t EXCEPT !.ltaWhen = IF moved < 1 THEN 1 ELSE moved] ELSE t

WarpedHeap(heap, warp) == {Warped(t, warp) : t \in heap}

CallBack_Warp(x, e, warp) ==
  /\ Executes(x, e)
  /\ \A t \in Tasks : t.ltaWhen - warp <= Now + 2   \* bound on what is warped back
  /\ m_WhenHeap' = WarpedHeap(m_WhenHeap, warp)
  /\ m_PriorityHeap' = WarpedHeap(m_PriorityHeap, warp)
  /\ UNCHANGED <<m_Ticket, m_minPriority, objectVars, accountVars, running>>

(* @enable and @disable dequeueing. *)
SetMinPriority(x, e) ==
  /\ Executes(x, e)
  /\ m_minPriority' \in MinPriorities \ {m_minPriority}
  /\ UNCHANGED <<m_WhenHeap, m_PriorityHeap, m_Ticket, objectVars, accountVars, running>>

-----------------------------------------------------------------------------
(* Commands that change the owner or the life of a thing.                  *)

(* do_chown: the new owner pays the old one, and then the queue is halted. *)
(* The thing is stripped of its flags and powers, or not: @chown/nostrip.  *)
Chown(x, e, thing, new) ==
  LET cost == OBJECT_DEPOSIT
      old == owner[thing]
      paid == payfor(new, cost)
  IN /\ Executes(x, e)
     /\ thing \in Chownable /\ Good(thing)
     /\ CanPay(new, cost)
     /\ owner' = [owner EXCEPT ![thing] = new]
     /\ gratis' \in {gratis, gratis \ {thing}}
     /\ halted' = halted \cup {thing}
     /\ LET gone == RunFrom(thing)
            n == Cardinality({t.m_Ticket : t \in gone})
            credited == IF old \in Free THEN paid ELSE [paid EXCEPT ![old] = @ + cost]
        IN /\ queue[new] - n >= -MaxDrift
           /\ m_WhenHeap' = m_WhenHeap \ gone
           /\ m_PriorityHeap' = m_PriorityHeap \ gone
           /\ money' = IF new \in Free THEN credited
                       ELSE [credited EXCEPT ![new] = @ + waitcost * n]
           /\ queue' = [queue EXCEPT ![new] = @ - n]
           /\ drift' = [p \in Players |->
                          drift[p] + (IF p = old THEN n ELSE 0) - (IF p = new THEN n ELSE 0)]
           /\ semaphore' = [s \in Semaphores |-> semaphore[s] - Cardinality(WaitersIn(gone, s))]
     /\ UNCHANGED <<m_Ticket, m_minPriority, going, garbage, running>>

(* @destroy marks the thing; purge_going destroys it later.                *)
Destroy(x, e, thing) ==
  /\ Executes(x, e)
  /\ thing \in Destroyable \ going
  /\ going' = going \cup {thing}
  /\ UNCHANGED <<schedulerVars, owner, gratis, halted, garbage, drift, accountVars, running>>

(* destroy_obj: halt what the object queued, drain its semaphores, refund  *)
(* its deposit, make it garbage.                                           *)
destroy_obj(thing) ==
  LET halts == RunFrom(thing)
      drained == {t \in Tasks : \E s \in Semaphores : s[1] = thing /\ IsWaiter(t, s)}
  IN /\ Discard(halts \cup drained, halts \cup Refunded(drained),
                giveto(Owner(thing), OBJECT_DEPOSIT),
                [s \in Semaphores |->
                   IF s[1] = thing THEN 0 ELSE semaphore[s] - Cardinality(WaitersIn(halts, s))])
     /\ owner' = [owner EXCEPT ![thing] = GOD]
     /\ gratis' = gratis \ {thing}
     /\ halted' = halted \ {thing}
     /\ going' = going \cup {thing}
     /\ garbage' = garbage \cup {thing}
     /\ UNCHANGED <<m_Ticket, m_minPriority, drift, running>>

(* purge_going, from the dbck task. *)
purge_going(thing) ==
  /\ running = Idle
  /\ thing \in going \ garbage
  /\ destroy_obj(thing)

(* @destroy/instant, or of a DESTROY_OK thing.                             *)
DestroyInstant(x, e, thing) ==
  /\ Executes(x, e)
  /\ thing \in Destroyable \ garbage
  /\ destroy_obj(thing)

-----------------------------------------------------------------------------
(* Running.                                                                *)

(* ReadyTasks, at the top of the main loop or from @kick.                  *)
Ready ==
  /\ running = Idle
  /\ Due # {}
  /\ ReadyTasks
  /\ UNCHANGED <<m_Ticket, m_minPriority, objectVars, accountVars, running>>

(* Task_RunQueueEntry, and Task_SemaphoreTimeout which uncounts the waiter *)
(* first.  The entry of a going object just disappears; that of a halted   *)
(* one is paid back but not run.                                           *)
RunEntry(t) ==
  LET x == t.arg.executor
      expired == t.fpTask = "Task_SemaphoreTimeout"
  IN /\ running = Idle
     /\ IsNext(t)
     /\ m_PriorityHeap' = m_PriorityHeap \ {t}
     /\ semaphore' = IF expired THEN add_to(t.arg.sem, -1) ELSE semaphore
     /\ IF x \in going
        THEN /\ drift' = [drift EXCEPT ![Owner(x)] = @ + 1]
             /\ UNCHANGED <<money, queue, running>>
        ELSE /\ money' = giveto(x, waitcost)
             /\ queue' = [queue EXCEPT ![Owner(x)] = @ - 1]
             /\ running' = IF x \in halted THEN Idle
                           ELSE [executor |-> x, enactor |-> t.arg.enactor]
             /\ UNCHANGED drift
     /\ UNCHANGED <<m_WhenHeap, m_Ticket, m_minPriority, owner, gratis, halted, going, garbage>>

(* The command list of the entry is finished.                              *)
EndEntry ==
  /\ running # Idle
  /\ running' = Idle
  /\ UNCHANGED <<schedulerVars, objectVars, accountVars>>

(* "Expensive activity abbreviated.": a command used up max_cmdsecs.  The   *)
(* entry's executor was reset to NOTHING when it started to run, so that   *)
(* only the enactor gets the HALT flag; what both own is halted.           *)
Alarm ==
  /\ running # Idle
  /\ halted' = halted \cup {running.enactor}
  /\ halt_que(OwnedBy(running.enactor) \cup OwnedBy(running.executor), money, semaphore)
  /\ UNCHANGED <<m_Ticket, m_minPriority, owner, gratis, going, garbage, drift, running>>

(* The same for a command that a player typed. *)
AlarmTyped(player) ==
  /\ running = Idle
  /\ halted' = halted \cup {player}
  /\ halt_que(OwnedBy(player), money, semaphore)
  /\ UNCHANGED <<m_Ticket, m_minPriority, owner, gratis, going, garbage, drift, running>>

Tick ==
  /\ SchedulerTick
  /\ UNCHANGED <<objectVars, accountVars, running>>

-----------------------------------------------------------------------------
Command(x, e) ==
  \/ \E victim \in Objects : QueueNow(x, e, victim)
  \/ \E delay \in Delays : WaitTimed(x, e, delay)
  \/ \E s \in Semaphores :
       \/ WaitSemaphore(x, e, s)
       \/ \E delay \in Delays : WaitSemaphoreTimed(x, e, s, delay)
       \/ \E count \in Counts : Notify(x, e, s, count)
       \/ NotifyAll(x, e, s)
       \/ Drain(x, e, s)
  \/ \E target \in Objects : Halt(x, e, target) \/ SetHalted(x, e, target)
  \/ HaltAll(x, e)
  \/ \E warp \in Warps : CallBack_Warp(x, e, warp)
  \/ SetMinPriority(x, e)
  \/ \E thing \in Things :
       \/ \E new \in Players : Chown(x, e, thing, new)
       \/ Destroy(x, e, thing) \/ DestroyInstant(x, e, thing) \/ SetGratis(x, e, thing)

Dequeue ==
  \/ Ready
  \/ \E t \in m_PriorityHeap : RunEntry(t)
  \/ EndEntry

Next ==
  \/ \E x, e \in Objects : Command(x, e)
  \/ \E thing \in Things : purge_going(thing)
  \/ Dequeue
  \/ Alarm
  \/ \E player \in Players : AlarmTyped(player)
  \/ Tick

Spec == Init /\ [][Next]_vars

(* The process is scheduled, the clock advances, command lists are finite, *)
(* and RunTasks takes whichever entry is the next one.                     *)
Fairness ==
  /\ WF_vars(Ready) /\ WF_vars(\E t \in m_PriorityHeap : RunEntry(t)) /\ WF_vars(EndEntry)
  /\ WF_vars(Tick)

-----------------------------------------------------------------------------
(* Properties.                                                             *)

EntryType ==
  [executor : Objects, enactor : Objects, IsTimed : BOOLEAN, sem : Semaphores \cup {NoSemaphore}]

TaskType ==
  [ltaWhen : Nat, iPriority : Priorities, m_Ticket : 0 .. TicketMod - 1,
   fpTask : {"Task_RunQueueEntry", "Task_SemaphoreTimeout"}, arg : EntryType]

(* Every variable keeps the type the code declares for it, and a task that *)
(* waits on a semaphore names one.                                         *)
TypeOK ==
  /\ m_WhenHeap \subseteq TaskType /\ m_PriorityHeap \subseteq TaskType
  /\ \A t \in Tasks : t.fpTask = "Task_SemaphoreTimeout" => t.arg.sem \in Semaphores
  /\ m_Ticket \in 0 .. TicketMod - 1
  /\ m_minPriority \in {PRIORITY_CF_DEQUEUE_ENABLED, PRIORITY_CF_DEQUEUE_DISABLED}
  /\ owner \in [Things -> Players \cup {GOD}]
  /\ gratis \subseteq Things /\ halted \subseteq Objects
  /\ going \subseteq Things /\ garbage \subseteq Things
  /\ money \in [Players -> Int]
  /\ queue \in [Players -> Int] /\ drift \in [Players -> Int]
  /\ semaphore \in [Semaphores -> Int]
  /\ running \in {Idle} \cup [executor : Objects, enactor : Objects]

(* A ticket names one task: heaps are disjoint, and a notified or warped   *)
(* task is never merged with another.                                      *)
TicketsUnique ==
  /\ m_WhenHeap \cap m_PriorityHeap = {}
  /\ \A t, u \in Tasks : t.m_Ticket = u.m_Ticket => t = u

(* Nobody waits uncounted: a semaphore with waiters counts at least as     *)
(* many.  It is what lets nfy_que skip its traversal when the count is not *)
(* positive; otherwise @notify would lose a wake-up.                       *)
WaitersCounted ==
  \A s \in Semaphores : Waiters(s) = {} \/ Cardinality(Waiters(s)) <= semaphore[s]

(* What the queue relies on: tickets name tasks, and semaphores count at   *)
(* least those who wait (halt_que, nfy_que).                               *)
QueueSound == TypeOK /\ TicketsUnique /\ WaitersCounted

(* The queue count of a player is the number of commands its objects have  *)
(* queued (cque.cpp:287, 836), but for two things: @chown takes the entries *)
(* of the thing off the new owner's count, where the old owner's held them, *)
(* and the entry of a going object leaves without being uncounted.          *)
QueueCountsEntries == \A p \in Players : queue[p] = Cardinality(Entries(p)) + drift[p]

(* Although @chown moves entries between counts, and a going object leaves *)
(* its own behind, all the counts together never fall short of what is     *)
(* queued: no sequence of legal commands queues more than the quotas add   *)
(* up to.                                                                  *)
QueueTotal == Sum(queue) >= Cardinality(Tasks)

(* The counts that QueueMax limits: of each player, and of all together.   *)
CountsAgree == QueueCountsEntries /\ QueueTotal

(* Pennies in purses, in things, and in the queue: what halt_que would pay *)
(* back, which asks only who owns the executor now.                        *)
Pennies ==
  Sum(money) + waitcost * Cardinality({t \in Tasks : Pays(t.arg.executor)})
    + OBJECT_DEPOSIT * Cardinality(Things \ garbage)

(* What a thing that pays nothing queues for an owner who pays: the        *)
(* command was free, and will be paid back if it is halted.                *)
QueuedFree ==
  {t \in Tasks' : /\ t.m_Ticket \notin {u.m_Ticket : u \in Tasks}
                  /\ t.arg.executor \in gratis /\ Pays(t.arg.executor)}

(* No sequence of waits, halts, drains, chowns, flags, powers and          *)
(* destructions mints a penny, but in two ways.  A thing with WIZARD or    *)
(* free_money of its own mints one waitcost with each command it queues    *)
(* for an owner who pays.  A step that moves a thing between a player who  *)
(* pays and one who is Free is another matter: what one of them never paid *)
(* the other gets back.                                                    *)
PenniesNotMinted ==
  [][(\A x \in Things \ garbage' : owner[x] \in Free <=> owner'[x] \in Free)
       => Pennies' <= Pennies + waitcost * Cardinality(QueuedFree)]_vars

Age(t) == (m_Ticket - t.m_Ticket) % TicketMod

WasNotified(t) ==
  \E u \in Tasks' : u.m_Ticket = t.m_Ticket /\ t.fpTask # u.fpTask

(* Waiters without a timeout are notified first come, first served, from   *)
(* whichever heap they are in and across a rollover of the tickets.        *)
NotifiedInOrder ==
  [][\A s \in Semaphores : \A t, u \in TasksWaiting(s) :
       ~t.arg.IsTimed /\ ~u.arg.IsTimed /\ Age(u) > Age(t) /\ WasNotified(t)
         => WasNotified(u)]_vars

(* A player's command that was queued for a time, or notified, leaves the  *)
(* queue: it is run, halted or drained, unless dequeueing is disabled.     *)
PlayerEntryServed ==
  \A k \in 0 .. TicketMod - 1 :
    (\E t \in Tasks : t.m_Ticket = k /\ t.iPriority = PRIORITY_PLAYER)
      ~> (m_minPriority # PRIORITY_CF_DEQUEUE_ENABLED \/ ~\E t \in Tasks : t.m_Ticket = k)
=============================================================================
