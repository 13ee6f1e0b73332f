-------------------------------- MODULE TaskSet --------------------------------
(***************************************************************************)
(* What a heap of tasks promises its users (and Scheduler takes for        *)
(* granted): it is a set of tasks.  Inserting adds one, removing the       *)
(* topmost takes one that no other precedes, and a traversal touches one   *)
(* task at a time, none twice and none but those it started with.          *)
(***************************************************************************)
EXTENDS Integers, FiniteSets

CONSTANTS Tickets, Keys

VARIABLES
  key,       \* the tasks in the heap, by ticket, each with its sort key
  unseen     \* the tasks the traversal under way has still to visit

TypeOK ==
  /\ \E held \in SUBSET Tickets : key \in [held -> Keys]
  /\ unseen \subseteq Tickets

(* Earlier key first, then earlier ticket. *)
Precedes(s, t) == key[s] < key[t] \/ (key[s] = key[t] /\ s < t)

Without(t) == [u \in DOMAIN key \ {t} |-> key[u]]

Init == key = [t \in {} |-> 0] /\ unseen = {}

Insert ==
  \E t \in Tickets \ DOMAIN key, k \in Keys :
    key' = [u \in DOMAIN key \cup {t} |-> IF u = t THEN k ELSE key[u]]

RemoveTopmost ==
  \E t \in DOMAIN key :
    /\ \A u \in DOMAIN key \ {t} : Precedes(t, u)
    /\ key' = Without(t)

StartTraversal == unseen = {} /\ unseen' = DOMAIN key /\ UNCHANGED key

(* One task is visited: it may leave, or get another key. *)
Visit ==
  \E t \in unseen :
    /\ unseen' = unseen \ {t}
    /\ \/ key' = Without(t)
       \/ \E k \in Keys : key' = [key EXCEPT ![t] = k]

(* IU_DONE: the traversal ends early. *)
StopTraversal == unseen' = {} /\ UNCHANGED key

Next ==
  \/ unseen = {} /\ unseen' = {} /\ (Insert \/ RemoveTopmost)
  \/ StartTraversal \/ Visit \/ StopTraversal

Spec == Init /\ [][Next]_<<key, unseen>>
=============================================================================
