# TinyMUX 2.6: a verification project

TinyMUX is a single-threaded server for text games (MUDs).  Players connect by
telnet and type commands; objects they build run *softcode*, commands queued for
now, for a later time, or until a semaphore is notified.  This directory models
the server in TLA+, checks small instances with TLC and proves theorems about
the models with TLAPS.  All source paths below are in `src/src/`.

Sections: 1 the system, 2 the modules, 3 the runs, 4 the proofs, 5 what is left.

## 1. The system

One thread runs `shovechars` (bsd.cpp).  A turn of its loop refills the command
quotas of the descriptors, moves due tasks to the priority heap, runs some of
them, sleeps in `select` until a socket is ready or the next task is due, and
reads and writes sockets.  Everything that is not a socket is a *task* of the
scheduler.  There are no data races; what is hard is the order of tasks, what they
find changed when they run, accounts that are kept in several places, and the one
process that does run beside the server: the child that dumps the database.

| component | state | operations | hard | must hold |
|---|---|---|---|---|
| scheduler, timer.cpp | when-heap, priority heap, ticket counter, `m_minPriority` | `DeferTask`, `DeferImmediateTask`, `CancelTask`, `ReadyTasks`, `RunTasks`, `WhenNext` | ticket rollover; cancelled records; starving the network | tasks of one priority run in order; nothing runnable is slept on |
| task heap, timer.cpp | array of records, visit mark | `Insert`, `Remove`, `Update`, `Sort`, `Remake`, traversals | callbacks change the heap under a traversal; mark rollover | heap order; every record visited exactly once |
| recurring tasks, timer.cpp | counters of dump, idle check, dbck, events | `dispatch_*`, `do_timewarp` | cancel and reschedule while the task is ready to run | exactly one live record each |
| main loop, bsd.cpp | locals of `shovechars` | a turn | timeout computed from an old clock; EINTR | network and tasks both served |
| typed commands, netcommon.cpp | input list and quota of a descriptor | `save_command`, `Task_ProcessCommand`, `shutdownsock` | quota runs out; block reused by a new connection | one live task exactly while input waits |
| command queue, cque.cpp | queue entries in the heaps, semaphore attributes, HALT | `@wait`, `@notify`, `@drain`, `@halt`, `@trigger`, timeouts, run | notify against timeout against halt; refusals half-way | counts, pennies and entries agree; no lost wake-up |
| player cache, player_c.cpp | money and queue count | `a_Queue`, `s_Pennies`, `pcache_trim` | write-back; destruction and reuse of numbers | what is kept and what is stored agree |
| economy, predicates.cpp | pennies | `payfor`, `giveto` | refunds to another owner | pennies are not minted |
| objects, object.cpp, create.cpp, walkdb.cpp | types, owners, GOING, free list | create, `@destroy`, `purge_going`, dbck | number reused while still named elsewhere | free list and lists consistent |
| contents, move.cpp, db.cpp | linked lists, locations | move, insert, remove | cycles; half moves | every object in its location's list, once |
| attribute cache and pages, attrcache.cpp, svdhash.cpp | modified and clean chains, pages, directory | get, put, delete, sync, split | eviction against write-back; a forked reader; a crash within a split | reads see the last write |
| attribute names, vattr.cpp, db.cpp | names, numbers, A_LIST | `@attribute`, `@dbclean`, load | numbers given away again | list, names and texts agree |
| mail, mail.cpp | mailboxes, bag of bodies, drafts, aliases | send, purge, dump, load | bodies shared and counted; dump beside the game | letters keep their bodies |
| channels, comsys.cpp | users, list of listeners, aliases | join, leave, connect, destroy, dump | found through aliases only; linked twice or dangling | who is there hears, once |
| sessions, bsd.cpp, netcommon.cpp, mguests.cpp | descriptors, chains by player, programs, guests | connect, LOGOUT, `@boot`, `@program`, `@restart` | overlapping sessions; blocks used again | chains exact; time online exact |
| output and input, netcommon.cpp, bsd.cpp | queue of blocks; a line and a sub-option | `queue_write`, `process_output`, `process_input_helper` | limit in the middle of a block; reads end anywhere | every byte accounted for |
| telnet, bsd.cpp | state of each option on either side | `EnableUs`, `DisableHim`, ... | requests crossing | no endless negotiation; sides agree |
| algorithms | hash tables, calendar, time zones, lists, wildcards, locks | pure functions | boundaries | equal to a reference definition |

Interactions: bsd.cpp puts lines into a descriptor's list and defers
`Task_ProcessCommand`; that task calls `process_command`, and commands call
`wait_que`, `halt_que`, `nfy_que`, `do_timewarp`, `shutdownsock`, all of which
change the scheduler's heaps, some in the middle of a task.  The queue charges
and credits through `payfor`, `giveto` and `a_Queue`, always through the *current*
owner of the executor; destruction and `@chown` call back into the queue, into
mail, channels and the sessions of the destroyed player.  Everything stored in an
attribute goes through the cache; the dump child reads the page file, the mail and
the channels as they were when it was forked.

PROJECT.json lists every component with its status, and the hazards, each at
its line with the properties that watch it.

## 2. Modules and how they correspond to the code

```
Scheduler <- MainLoop <- MCMainLoop <- MCTasks
                      <- MainLoopProofs
          <- CommandQueue (over Totals) <- MCCommandQueue
                                        <- CommandQueueProofs
TaskHeap (implements TaskSet) <- MCTasks, TaskHeapProofs (with LoopTheorems)
ObjectDb <- World <- MCWorld
Mail (implements MailBag <- MailBagProofs) <- MCMail
Channels <- MCChannels, ChannelsProofs
Sessions <- MCSessions
Telnet, Input, Output (over Totals) <- MCWire, WireProofs
PageFile <- AttrCache (implements AttrStore) \
AttrList <- AttrNames                         -> MCStorage
            AttrNames <- StorageProofs (with LoopTheorems)
Lists, Wild, Locks, Calendar <- DateParser  <- CaseBook \
HashTable, TimeZone                                      -> MCAlgorithms
```
(`<-` reads "is extended by".)  A module's actions are the commands, tasks and
handlers of the code, under their names in the code where TLA+ allows them; one
action is one of them run to its end, since the server is single-threaded.

**Scheduler** holds the two heaps as sets of `TASK_RECORD`s and the operators for
every method of `CScheduler`.  A record keeps `ltaWhen`, `iPriority`, `m_Ticket`,
`fpTask` and `arg`; a cancelled one has `fpTask = NoTask`.  Comparison is the signed
subtraction of tickets modulo `TicketMod`.  The clock is kept at the constant `Now`
and stored times grow older instead, so that the state space is finite; a time
of 0 is the `ltaWhen` of an immediate task.

**TaskHeap** has the algorithms on the array of a heap, `SiftDown`, `SiftUp`, `Update`, `Remove`,
`Sort`, `Remake`, where a loop is the recursive function that gives its state after k rounds, and
the class that uses them.  A traversal is a loop with one action per
callback; the callback may leave the record, remove it (`IU_REMOVE_TASK`), or change
its key (`IU_UPDATE_TASK`).  **TaskSet** is what users of a heap assume; `TaskHeap`
implements it (`ImplementsTaskSet`, proved), which is why Scheduler may use sets.

**MainLoop** is `shovechars`: `pc` says which stage of the turn it is in, `iCount` is
the local of `RunTasks`.  Tasks are recurring ones, `Task_ProcessCommand`, and queued
commands.  A command (typed or queued) does one thing to the scheduler: nothing,
queue a command, `@timewarp`, `QUIT`, `LOGOUT`, `@enable`/`@disable dequeueing`.
Clients send data or close at any time.

**CommandQueue** is cque.cpp in detail, with pennies, queue counts, semaphores, HALT,
owners, GOING and garbage.  One action is one command or one task; `running` is the
entry whose command list is being executed.  `wait_que` covers the three ways out of
`setup_que`: refused, too many queued (everything the owner queued is halted), queued.
`halt_que`, `Notify`/`NotifyAll`/`Drain` (`nfy_que`), `Chown`, `destroy_obj`, `RunEntry` and
the CPU alarms follow the functions of these names.  Permission checks are open:
any object may try any command, a refused one does nothing.

**ObjectDb** is the data structure of object.cpp, move.cpp and predicates.cpp: a database
maps a number to a record with the fields of `OBJ` that link objects, so that contents
and exits are the linked lists they are in the code, and an operator returns the
database that the function of its name leaves.  `SAFE_DOLIST` reads `next` one member
ahead exactly as the macro does, and asserts that the loop ends.  `do_dbck` is the
composition of its five passes.

**World** is the state machine over it: an action is one command of one executor
(`@create`, `@dig`, `@open`, `@pcreate`, `@link`, `@unlink`, `@destroy`, `@set GOING`, home, exits,
get, drop, enter, leave, `@teleport`) or the periodic `dbck`.  The hard part is not
interleaving within a command but long sequences: an object that is GOING but still
usable, one that is destroyed while others live in it, lead to it or belong to it,
and a number used again.

**PageFile** is `CHashFile`: a directory by hash bits, pages on disk, a cache of
slots with ages, splits and doublings; its memory and disk are one record, so that
an operation is a composition.  **AttrCache** is attrcache.cpp over it, with the forked
dump that keeps reading the file and crashes between the writes of a split.
**AttrStore** is what its users assume, a table from keys to values that a crash sets
back to what it may: `AttrCache` implements it (`ImplementsStore`).  **AttrList** is the
list of attributes an object keeps (`al_fetch`, `al_store`, `al_add`, ...) with the player
cache over it, and **AttrNames** the names and numbers of user attributes, `@attribute`,
`@dbclean`, creation, destruction and restarts.

**Mail** is mail.cpp and malias: mailboxes, the bag of bodies with its reference
counts, drafts, aliases, the dump by a child and the load.  **MailBag** is what the bag
promises: a letter's place holds the text that was sent.  **Channels** is comsys.cpp: an
array of users and, in it, the linked list of listeners; aliases, by which an object's
channels are found; dumps, restarts and crashes.  **Sessions** is the list of descriptors,
the chains of `desc_htab`, connecting, `@program`, idling, `@boot`, `@restart` and the pool
of guests, over one record `s` that the operators named after functions change.

**Telnet** is both sides of every option: the server as `process_input_helper` has it and
any client that follows RFC 1143.  **Input** is the parser of bytes into lines and
sub-options, beside a second one that gets the same bytes in one read.  **Output** is the
queue of blocks, `TrimText`, `writeToSocket`.  **Totals** counts what a sequence adds up to.

**HashTable** is `CHashPage` and `CHashTable` down to the slots of a page; **TimeZone** the
table of offsets from UTC; **Calendar** and **DateParser** the dates; **Lists** softcode's
functions on lists, **Wild** wildcards, **Locks** boolean expressions as they are typed,
stored and evaluated.  **CaseBook** lists the laws these obey, with their cases.

Abstractions.  Names, texts and arguments are model values, or left out; locks,
costs and permissions only refuse, so that any command may be tried by anybody
the module lets act.  In World flags other than GOING belong to a number for the whole
run, God is the only wizard, no thing listens, zones, parents and robots are absent.
In CommandQueue attributes are only semaphores, the surcharge of `machinecost` is any of
`Surcharges`, and `CF_INTERP` is on: off, `wait_que` does nothing.  In Channels titles,
charges and recall are left out, in Mail subjects and selection by age, in Sessions
names and passwords.  Output counts bytes and does not name them; PageFile takes a page
as a set of records, HashTable has the bytes.

## 3. Runs

A property of a run is a conjunction of named parts where one question has several
sides; every part has a mutant of the code that breaks it.  A module whose instance is
small shares a run with its neighbours: a variable `work`, chosen by the initial state,
says which of them moves, and their state spaces are added, not multiplied.

| run | instance | shows |
|---|---|---|
| loop_chunk | 1 descriptor, 1 recurring task, 2 jobs, one task a turn, which takes time or none; tickets modulo 10 | `OneTaskEach`: one task for a descriptor with lines, one for each recurring task; `NeverSleepsOnWork`: nothing runnable is slept on, and the sleep is late by the run time of the turn's tasks at most; `RunsInOrder` across heaps and rollover |
| loop_all | every ready task a turn, a job that requeues itself; the heap: 4 records, 2 keys, marks modulo 3 | `NobodyStarves` (network, input, tasks); `HeapSound`, `Traversals`, `ImplementsTaskSet` |
| queue | a player and its thing on one semaphore ("accounts"); two players, a thing chowned and destroyed ("owners"); a thing that gets and loses WIZARD or free_money of its own ("powers"); tickets modulo 4 | `QueueSound` (types, `TicketsUnique`, `WaitersCounted`), `CountsAgree` (`QueueCountsEntries`, `QueueTotal`), `PenniesNotMinted`, `NotifiedInOrder` |
| queue_served | fair; timed and untimed waits, `@timewarp` forward, `@disable` | `PlayerEntryServed` |
| world | Limbo, God, a mortal, two numbers to create and use again | `DbSound` (`ContentsListed`, `ExitsListed`, `Located`, `FreeListed`, `OwnersLive`), `DbckSettles`, `ReusedUnnamed` |
| stale_homes | as world | violated: `HomesNotReused`, the finding below |
| mail | God and a mortal, 2 sends, 2 letters, one dump | `BagSound` (`RefsExact`, `BodiesIntact`), `FileHolds`, `Cleaned` (`SweepsExact`, `RetractsOwn`, `AliasesForget`), `ImplementsMailBag` |
| channels | God and two numbers, one channel, two aliases, two dumps | `Audience` (`ListSound`, `MembersHear`, `QuietWhenGone`), `Reachable` (`MembersAliased`, `GarbageOnNone`, `OwnersLive`) |
| sessions | a wizard, a mortal, three descriptors, two guests | `SessionsExact` (`ChainsExact`, `SessionsLive`), `ProgramsHeld`, `TimeExact`, `DarkEnds`, `GuestsServed` |
| wire | three options, any client; 6 bytes typed; 7 bytes queued in blocks of 2, 2 old bytes behind a block | `Agreed`, `InputExact` (`ReadsDoNotMatter`, `InputAccounted`), `OutputExact` (`OutputAccounted`, `OutputBounded`), `Progress` (`TelnetSettles`, `Answered`, `OutputDrains`) |
| storage | 3 keys, pages of 1 record, 3 page slots; 2 objects, 3 names, 5 numbers, lists of 3 | `CopiesAgree` (`CacheAccounted`, `SlotsAgree`, `PagesSuffice`), `DumpSees`, `NamesSound` (`ListsExact`, `NamesAgree`), `TextKept`, `AccountsKept`, `ImplementsStore` |
| algorithms | 3 keys of a hash table, 4 time zones, hundreds of cases of dates, lists, patterns and locks | `TablesExact`, `TimeRight`, `WordsRight`, `LocksRight` |

**Bounds**, all constants.  `TicketMod` must leave room for the live tasks: `TicketFree`
is the guard that stops scheduling when a ticket would be half the space old, 2^31
tasks in the code.  Two or three tasks in the heaps already show each pair of one
running, one waiting, one notified, and the queue limit of 2 is reached and exceeded;
`MaxCount` and `MaxDrift` keep counts finite; `MarkMod` 3 rolls over every third traversal.
In World `MaxTop` 5 leaves numbers 3 and 4 to create: 3 is a thing or a room, sticky and
public, 4 a thing (KEY), an exit or a player.  That is enough for one place inside
another, an exit between them, a dropto, a KEY thing thrown out of its carrier, and
each of them destroyed at once or later by dbck and its number used again; `Links` are
the targets of `@link`, `Creates` which type a number may get, `ByHand` which types God
sets GOING by flag (not players: see the hazard at flags.cpp:195), and `Still` keeps God
and the mortal in Limbo.  `Powered` names the things to which @power and @set
WIZARD may be applied.  In Storage there are 5 numbers and a list of 3 is full, so that `set`, `clone`, @dbclean and
the player cache are refused a number; pages of one record split at the second write and
double the directory, two of three slots are always in use, and a crash leaves the file
as it was after the second half of a split was appended (`CrashPoints`).  In Mail two
sends of letters to two players share bodies, and the place of a body is used again.
In Wire a line holds 2 bytes and a sub-option 3, so both overflow; a block and a
write are of 2 bytes and the limit is 3, so that the limit cuts a block partly sent;
`MaxStale` 2 old bytes suffice for a count below zero that wraps, and for one that later output fills up to
zero again.  The
code's sizes obey `WriteAssumption`: a write is a buffer of `LBUF_SIZE` 8000 bytes whose
IACs are doubled, 15,999 at most, and a block holds more than 16,300.

**Fairness.**  `WF(shovechars)`, `WF(Tick)` and `SF(SelectReturns)`: the process is
scheduled, time passes, signals do not interrupt every `select`.  In CommandQueue the
dequeueing actions and the end of an entry (a command list is finite and the alarm
bounds a command).  In a traversal of the heap, its next callback.  In Wire both ends read
what has arrived, and a socket that is open takes output.  No fairness is assumed of
players, of clients' requests or of signals.  `PlayerEntryServed` is about
`PRIORITY_PLAYER` only, with dequeueing enabled: entries of objects yield to those of
players, for ever if players never stop, as `ComparePriority` has it.  `OutputDrains`
excepts a connection that a zero byte stops, and both `OutputDrains` and `OutputExact` one on which
bytes from behind a block were sent
(interface.h:178: `writeToSocket` writes `strlen` bytes), `Agreed` excepts SGA of the
server's side, which it turns on without waiting for an answer.

**The finding** (stale_homes).  `check_dead_refs` is there to look for references to GOING
objects; of homes it asks only that they are objects with contents (object.cpp:1001, 1042).
An object whose home is GOING keeps it, the home is destroyed in the same dbck, its
number is free at once, and the next `@create` makes it the home of all who lived there.

**Behaviour that is as written, and may surprise.**  A `@wait` that is refused leaves its
count on the semaphore, so that counts exceed waiters (`WaitersCounted` says at
least).  `@chown` changes the owner before it halts the queue: refunds and the queue count
go to the new owner, and an entry of a GOING object is dropped without being uncounted:
`QueueCountsEntries` says by how much each count is off (the history variable `drift`), and
`QueueTotal` that all counts together never fall short of the queue.  The
CPU alarm sets HALT on the enactor only, the executor having been reset.  An entry that a
wizard's object queued free of charge is paid back to the mortal who gets the object by
`@chown`, and a deposit may be paid by one who pays nothing: hence the condition of
`PenniesNotMinted`, that no thing moves between payers and those who are `Free`.  In the run
nobody is; the proof is for any `Free`.  A thing that is exempt itself, by WIZARD or free_money of its
own (`gratis`), queues free for an owner who pays (predicates.cpp:259), and when the command is halted its owner is
paid all the same, since `halt_que` asks of the owner only (cque.cpp:302), although "the deposit is refunded when
the command is run or canceled" (command.cpp:3349) speaks of one that was charged; @drain asks the thing and pays nothing.
`PenniesNotMinted` allows for one waitcost at each such queueing (`QueuedFree`), and for no other penny.

The timeout of `select` is reckoned from the clock that was read before the tasks of the turn ran
(bsd.cpp:1432, 1492): the sleep ends late by the time they took.  `writeToSocket` takes off the sizes what `strlen`
found, which may be more than the block held: the count of the block and `output_size` are unsigned and wrap, so that
a block is done again only when what is queued meanwhile brings its count back to zero exactly; Output has this as
negative numbers (`stale`, `Beyond`).  "who" of a channel unlinks the players it finds
absent, unless DARK hides them, and God's things that are GOING (comsys.cpp:1650-1681); one that is spared afterwards
stays a member and hears nothing until it leaves and joins or a load links it again (`deaf`).

Two ways of destroying at once leave objects in no contents list until the next dbck: what a player carried, when
`destroy_player` leaves it located in what is garbage now (object.cpp:684), and what `empty_obj` sends home into
the very place that is being destroyed, which is its home, or by `new_home` its owner's, and not GOING yet
(object.cpp:613-635, 151).  `StillStranded` follows those objects and `DbSound` says of all others that they are in one list,
once; dbck takes each to where it belongs (`DbckSettles`) before the number is used again (`ReusedUnnamed`).

A @mail/retract that removes the last letter of a mailbox is at the first one again and counts on, so that letters of
the sender outside the range he gave go too (`RetractsOwn`); letters filed in other folders outlive
a destroyed player (db.cpp:3345), with bodies that stay counted.  A time after all that `localtime()`
supports is taken for one in a year of the same type (timeutil.cpp:2109), and the table of offsets learns of that year.

`20010115` is read as day 115 of the year 20010,
`3/28/1999` as day 3 of week 28, and "Jan 28, 2010" is refused because 2010 could be a time;
day 366 of a common year rolls over.  Separators of several characters break
`do_itemfuns`; `remove` and `splice` do not trim leading blanks; a struck-out "" of
`munge` can match an empty word.  A stored lock whose attribute's name has
gone no longer parses, and opens for all but God; a reference beyond the database opens it;
text after a complete lock is ignored.

@dbclean gives a name to a number that has lost it, but not if that name, `DANGLINGATTR-` and the number, is
still in use from an earlier @dbclean that then moved it: `vattr_define_LEN` returns the entry it finds.  The number
then has texts and no name, counts as free, and a higher one may be moved onto it, although the
comment at vattr.cpp:505 says that the new entries are empty: the name moved there is read with the texts
of the lost one.  `TextKept` excepts such names, as it does those of `attr_next` that get a number with texts
(`haunted`), and `AccountsKept` players created under a number with a dead player's entry; the proofs of both need no more.

## 4. Proofs

The theorems hold for every value of the constants that their module's assumptions allow: any
number of players, things, descriptors, semaphores, tickets and bytes.  TLC checks the same
formulas on the instances of section 3.  Each proof module EXTENDS the module it is about,
defines an inductive invariant, and proves that the initial states have it, that every action
keeps it (one lemma for an action, `Next` put together at the end), and that it implies the
property; an action property is proved of one step from a state that has it.

| module | theorems | inductive invariant |
|---|---|---|
| CommandQueueProofs | `QueueIsSound`, `WaitersInOrder` (`NotifiedInOrder`), `CountsAlwaysAgree` (`CountsAgree`), `NoPennyMinted` (`PenniesNotMinted`); `Invariant`, `OrderInvariant`, `AccountsInvariant` | `Inv`, `OrderInv`, `AccountsInv` |
| MainLoopProofs | `OneTaskForEach`, `NoSleepOnWork`, `TasksRunInOrder` (`RunsInOrder`); `LoopInvariant` | `IInv` |
| ChannelsProofs | `AudienceIsExact`, `MembersAreReachable`; `ChannelsInvariant` | `IInv` |
| WireProofs | `OutputIsExact`, `InputIsExact`, `BothEndsAgree` (`Agreed`); `OutputInvariant`, `InputInvariant`, `TelnetInvariant` | `OutputIInv`, `InputIInv`, `TelnetIInv` |
| TaskHeapProofs | `HeapIsSound`, `TraversalsVisit` (`Visits`), `ImplementsSet` (`ImplementsTaskSet`); `HeapInvariant` | `HeapInv` |
| StorageProofs | `NamesAlwaysSound` (`NamesSound`), `TextAlwaysKept` (`TextKept`), `AccountsAlwaysKept` (`AccountsKept`); `NamesInvariant` | `NamesInv`, `TextInv`, `AccountsInv` |
| MailBagProofs | `Bodies` (`BodiesIntact` of the abstract bag), `Covered` | `RefsCover` and the types |

**Queue.**  `WaitersCounted` is not inductive: that a count of tickets is a count of tasks
needs `TicketsUnique`, and that in turn the types.  A new ticket is fresh because of
`TicketFree`.  The lemmas `WaitersLess`, `HaltedCounted`, `FewerCounted`, `AddedCounted` say what
removing and adding tasks does to the count of a set; `NotifiedSame`, `WarpedSame` and `AgedSame`
that what rewrites tasks in place does nothing to it.  For the order of notification
`Queued` is added: no task is older than half the ticket space; an untimed task in the
when-heap is younger than whatever is in the priority heap, since `ReadyTasks` moves all that
are due; waiters without a timeout have one time and one priority.  `SignedDifference`, arithmetic on
residues, shows that the signed subtraction then tells the older of two tickets, rollover or not,
and `OlderVisitedFirst` that the traversal comes to the older waiter first.

**Accounts.**  `AccountsInv` is `Inv`, `Owned` (what can still queue is owned by a player) and
`CountsAgree`.  Sums are counted by their units: `Sum` is the cardinality of a set of
numbered units, and `SumShares` is a bijection between the units a table gains and the things
shared out, so that no induction is needed.  Each action is then one of a few kinds: entries leave with
their refunds (`HaltStep`), one is run and paid back (`PaidBack`) or forgotten (`Forgotten`), all stay
(`SameEntries`), one is new (`OneMore`, where only the surcharge is lost, or the waitcost appears that an exempt
thing did not pay), or a thing changes
hands or is destroyed (`ChownCounts`, `ChownMoney`, `DestroyAccounted`).  The condition of
`PenniesNotMinted` is used in `ChownMoney` alone.

**Main loop.**  `IInv` is the shape of the heaps, the locals of the turn, the net empty
outside `select`, lines that wait having their task, the task being dispatched, and
`NeverSleepsOnWork`; `LeastOf` says that a finite set of times has a least one, from which the
timeout is reckoned.  Since the clock stands still and times grow older instead, the clock of the top of the turn is as far
behind as the tasks took (`busy`).  `LoopAssumption` bounds the recurring tasks by half the ticket space.

**Loops.**  What a loop computes is an induction over its rounds, which the
library's theorems cannot give here: they take an operator.  LoopTheorems has what replaces them.
`NatSetInduction` is induction
over a set of naturals, derived from `WFMin` of WellFoundedInduction, and `LoopExists` builds from
finite runs of a loop the function of all its rounds, so that the recursive definitions have
the solution they describe; `FiniteLoop` is the same for a loop whose number of rounds is known, and
`RoundInduction` hands a property from one round to the next.

**Task heap.**  The loops of the heap are `RisingRounds`, `SinkingRounds`, `SortingRounds` and
`RemakingRounds`.
`Rises` and `Sinks` say that an array is a heap but for one record; a round keeps them and moves it
on, so that after as many rounds as the loop has it rests and the array is a heap.  An `Update` or a
`Remove` in the middle runs both loops: `SiftDown` leaves a heap but for the record at the place
where it began, and `SiftUp` takes that one up.  `Sort` shrinks the
heap from the top, `Remake` grows it.  `HeapInv` then relates the marks and the array to what the
traversal has yet to visit: in `TraverseUnordered` these are the records without its mark, whatever
a callback moves, removes or changes, and every mark in the heap is old enough for the next
traversal to tell, which is why `Insert` takes the mark before the present one.  `ImplementsSet`
maps an array to its `KeysOf`, which is known from its records alone (`KeysUnique`).

**Attribute names and lists.**  `NamesInv` says that every list is exact whichever of them is in
memory (`Sound`), and that the tables of names agree and are typed (`Tables`).  One list comes first:
`ExactAppend` and `ExactRemove`, adding a number and removing the first place that has it.  Then the
calls of db.cpp and player_c.cpp from below: `StoreProperties` and `FetchProperties` (the list
in memory changes its owner and no list is lost), `PutProperties`, `SaveProperties`, `ReloadProperties`,
`AddProperties`; `Kept` says what such a call may change, which is what the loops over them hand from round to
round (`SavingRounds`, `ClearingRounds`, `MovingAllRounds` ...).  `FreeProperties` needs the most: after
the last round nothing but A_MONEY is left of an object, which `pcache_reload` may have stored
again while its list was being walked.  A restart reads the lists as they are stored, so
`SyncProperties` carries that these are exact too (`Stored`).  For the renumbering of @dbclean,
`RankFound` gives a free number of each rank, `EnoughLow` says that there are more of them than
numbers to move, and `TargetProperties` that numbers in use are given away one to one, below
RenumberFrom; so the lowest number that was moved, which is the next to be given, is above them all.

A list is kept in a buffer of `LBUF_SIZE` bytes, and when it is full `al_add` refuses the number and `atr_add_raw` drops
what it is given: @dbclean loses the text it moves, `clone` what it copies, and `pcache_save` the money it writes.
`lost` is the set of the objects that this has happened to.  `TextKept` says of such an object only that
nothing else is read in a text's place, and `AccountsKept` nothing; `NamesSound` holds of all alike.
`TextInv` adds to `NamesInv` that a user's name has one number
(`OneNumber`), that nothing is told of the dead (`Emptied`), since `atr_free` empties them, and `Found`: for each
name that is not haunted, what was last written is stored under its number, flags aside, or the object is among
those that lost something and nothing is.  Each action is one of
few kinds: one text changes (`set`, `clear`), those of one object do (`clone`, `destroy_obj`), names change
hands, the numbers of all texts do (`do_dbclean`), or no text of a user changes at all.  `AccountsInv` says of
each account (`Account`) that an entry that is dirty is cached, that an entry or else the attribute has
the money and the count (`Balance`, `Counted`), that a clean entry repeats what is stored (`Backed`), and
that only players have entries, all but the first for an object that lost nothing and is not haunted; where an action calls several functions of player_c.cpp in turn, what each
leaves of an account goes from call to call as it does from round to round of a loop over objects.

**Channels.**  `IInv` adds to the property what makes it inductive: the list of listeners links each
connected player once, owners live, and what a restart would load from either the file or the image
of a dump in progress would have the property again (`Loadable`); a crash is then harmless.  "who" cuts only players
who are not connected, of whom nothing is promised, and things it makes `deaf`.

**Wire.**  For output, until bytes from behind a block are sent (`stale = 0`): all blocks but the last are full (`WellFilled`), only the head is partly
sent (`Unsent`), and what waits behind the head is below the limit (`HeadCarriesLimit`).  For input:
the parser that gets the bytes in pieces and the one that gets them in one read are in the same state
until a read ends within a full sub-option.  For telnet, each conversation about an option goes
through one of twelve forms (`InStep`); that a message at the head of a queue is about one
option and leaves the others' conversations alone are the lemmas of `About` and `Embeds`.

**Mail.**  The counts of the abstract bag need only cover the letters (`Covered`) for a body
never to be given away under a letter.

Assumptions, each named where its constants are declared: `TicketAssumption` and `NowAssumption`
(Scheduler), `HeapAssumption` (TaskHeap: numbers for keys, finitely many tickets, three marks), `QueueAssumption`, `FiniteAssumption`,
`LoopAssumption`, `ChannelsAssumption`, `ListAssumption`, `NamesAssumption` (what attrs.h fixes: A_MONEY 25 and
A_QUEUEMAX 31 are below the numbers of users; stripping owner and flags from a text twice is stripping them once),
`DanglingAssumption` (users are taken to leave alone the names that @dbclean invents),
`OptionAssumption`, `InputAssumption`, `LimitAssumption` and `WriteAssumption`.  TLC evaluates each
in the runs.

**Only model-checked.**  Liveness (`NobodyStarves`, `PlayerEntryServed`, `Progress`), since the
backends have neither fairness nor ENABLED.  What recursive operators compute for every
input (`TablesExact`, `TimeRight`, `WordsRight`, `LocksRight` of Lists, Wild, Locks, DateParser, HashTable and
TimeZone, and World, whose linked lists are walked by such operators): the backends are not available in a module
that has one.  The loops of TaskHeap, AttrList and AttrNames are recursive functions instead, which is why
they are proved about.  Further, because the proofs are not written: the attribute cache and its refinement of AttrStore
(`CopiesAgree`, `DumpSees`, `ImplementsStore`), Sessions (`SessionsExact`, `ProgramsHeld`, `TimeExact`,
`DarkEnds`, `GuestsServed`), and Mail with its refinement of MailBag (`BagSound`, `FileHolds`, `Cleaned`,
`ImplementsMailBag`), whose sweeps are recursive.

## 5. Not modelled, and what would come next

Not modelled: the DNS and ident slave (its answers fill in a name that nothing
depends on), WebSockets and reality levels (conversions and masks without shared state),
strings and buffers, look, speech, help and logs, the expression evaluator and most of
its functions, vendored code.  Of modelled parts: a nested `@queue/kick`, SQL queries
(`QUERY_SLAVE` is not built), Windows, out of memory, failing system calls; `@clone`,
robots, zones, parents, `@chown` of places, give, rob, kill and quotas; the format of the
database file.  PROJECT.json says of every component what is left out of it.

What would come next:

1. Proofs: `CacheAccounted` and `SlotsAgree` of the attribute cache and
   the step of its refinement to AttrStore; `ChainsExact` of Sessions; the refinement of
   MailBag, whose abstract side is proved, for which the folds of Mail have to become functions.
2. Model: the evaluator's stack of registers and limits, `@clone` and robots in World, the
   DNS slave's pipe in MainLoop, match.cpp beside Wild.
