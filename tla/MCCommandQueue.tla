---------------------------- MODULE MCCommandQueue ----------------------------
(***************************************************************************)
(* Instances of CommandQueue for TLC.  MCSpec has three, one to a          *)
(* behaviour: "accounts", a player and its thing on one semaphore;         *)
(* "owners", two players and a thing that changes owner and is destroyed   *)
(* while it has commands queued; and "powers", two players and a thing     *)
(* that also gets and loses powers of its own, with fewer commands.        *)
(***************************************************************************)
EXTENDS CommandQueue, TLC

CONSTANTS p1, p2, t1, t2, god

VARIABLE work

Switched == {PRIORITY_CF_DEQUEUE_ENABLED, PRIORITY_CF_DEQUEUE_DISABLED}
AlwaysEnabled == {PRIORITY_CF_DEQUEUE_ENABLED}

OneSemaphore == {<<t1, "SEMAPHORE">>}

Alike == Permutations({p1, p2})

AtMostTwo == [p \in Players |-> 2]

\* In "accounts" only the owner of the thing and the thing act and are acted on.
Actors == IF work = "accounts" THEN {owner[t1], t1} ELSE Objects

MCInit ==
  /\ Init
  /\ work \in {"accounts", "owners", "powers"}
  /\ \A p \in Players : money[p] = IF work = "accounts" THEN 3 ELSE 1

AccountsOnly ==
  /\ UNCHANGED <<owner, gratis, going, garbage, drift>>
  /\ halted' \subseteq {owner[t1]}
  /\ \A p \in Players : p # owner[t1] => money'[p] = money[p] /\ queue'[p] = 0

OwnersOnly ==
  /\ UNCHANGED gratis
  /\ halted' \cap Players = {}
  /\ \A t \in m_WhenHeap' \ m_WhenHeap : ~t.arg.IsTimed
  /\ \A s \in Semaphores : semaphore'[s] \in -1 .. 1
  /\ \A p \in Players : queue'[p] >= 0

PowersOnly ==
  /\ halted' \cap Players = {}
  /\ m_PriorityHeap' = {} \/ m_WhenHeap' = {}
  /\ running'.executor \notin Players
  /\ \A t \in m_WhenHeap' \ m_WhenHeap : ~t.arg.IsTimed /\ t.arg.executor \in Things
  /\ \A s \in Semaphores : semaphore'[s] \in 0 .. 1
  /\ \A p \in Players : queue'[p] \in 0 .. 1 /\ money'[p] <= 2 /\ drift'[p] \in -1 .. 1

MCNext ==
  /\ \/ \E x, e \in Actors : Command(x, e)
     \/ \E thing \in Things : purge_going(thing)
     \/ Dequeue \/ Alarm \/ Tick
     \/ \E player \in Players \cap Actors : AlarmTyped(player)
  /\ CASE work = "accounts" -> AccountsOnly
       [] work = "owners" -> OwnersOnly
       [] work = "powers" -> PowersOnly
  /\ UNCHANGED work

MCSpec == MCInit /\ [][MCNext]_<<vars, work>>

\* All that commands do, with the assumptions that serve them.
ServedInit == Init /\ work = "accounts"

ServedNext == Next /\ UNCHANGED work

ServedSpec == ServedInit /\ [][ServedNext]_<<vars, work>> /\ Fairness
=============================================================================
