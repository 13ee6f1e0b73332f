------------------------------- MODULE TaskHeap -------------------------------
(***************************************************************************)
(* CTaskHeap (timer.cpp): a binary heap in an array, with two traversals   *)
(* during which the visiting callback may remove a record or change its    *)
(* key.  The tickets are taken to be ordered as numbers (Scheduler models  *)
(* their rollover); the visit marks do roll over here.                     *)
(*                                                                         *)
(* First the array, a function on 0 .. its length - 1, and the algorithms  *)
(* that keep it a heap.  A loop of theirs is the function that gives its   *)
(* state after k rounds; a round that would break leaves the state as it   *)
(* is.  A traversal is a loop whose body, one callback, is an action.      *)
(***************************************************************************)
EXTENDS Integers, FiniteSets

CONSTANTS
  Tickets,   \* the tickets of the tasks there may be, a set of numbers
  Keys,      \* the sort keys (ltaWhen or iPriority), a set of numbers
  MarkMod    \* the marks roll over at this number

(* A rollover leaves a mark for a new record that is neither the old nor   *)
(* the new one.                                                            *)
ASSUME HeapAssumption ==
  /\ Tickets \subseteq Int /\ IsFiniteSet(Tickets)
  /\ Keys \subseteq Int
  /\ MarkMod \in Nat /\ MarkMod >= 3

\* Negative, in the code, when p comes before q.
Before(p, q) == p.key < q.key \/ (p.key = q.key /\ p.ticket < q.ticket)

Left(x)   == 2 * x + 1
Right(x)  == 2 * x + 2
Parent(x) == (x - 1) \div 2

Swapped(heap, x, y) == [heap EXCEPT ![x] = heap[y], ![y] = heap[x]]

-----------------------------------------------------------------------------
(* The argument n is m_nCurrent, which may be less than the length of the  *)
(* array; x is where the record is that moves.                             *)

Smaller(heap, n, x) ==
  IF Right(x) < n /\ Before(heap[Right(x)], heap[Left(x)]) THEN Right(x) ELSE Left(x)

SinkRound(s, n) ==
  LET child == Smaller(s.heap, n, s.x)
  IN IF Left(s.x) < n /\ Before(s.heap[child], s.heap[s.x])
     THEN [heap |-> Swapped(s.heap, s.x, child), x |-> child]
     ELSE s

Sinking(heap, n, x) ==
  LET after[k \in Nat] == IF k = 0 THEN [heap |-> heap, x |-> x] ELSE SinkRound(after[k - 1], n)
  IN after

SiftDown(heap, n, x) == Sinking(heap, n, x)[n].heap

RiseRound(s) ==
  IF s.x > 0 /\ Before(s.heap[s.x], s.heap[Parent(s.x)])
  THEN [heap |-> Swapped(s.heap, s.x, Parent(s.x)), x |-> Parent(s.x)]
  ELSE s

Rising(heap, x) ==
  LET after[k \in Nat] == IF k = 0 THEN [heap |-> heap, x |-> x] ELSE RiseRound(after[k - 1])
  IN after

SiftUp(heap, x) == Rising(heap, x)[x].heap

-----------------------------------------------------------------------------
\* Mutant: a record never moves up.
Update_DownOnly(heap, x) == SiftDown(heap, Cardinality(DOMAIN heap), x)

Update(heap, x) == SiftUp(SiftDown(heap, Cardinality(DOMAIN heap), x), x)

(* The last record fills the hole and finds its place, which may be above  *)
(* the hole as well as below it.                                           *)
Remove(heap, x) ==
  LET n == Cardinality(DOMAIN heap) - 1
      sifted == SiftUp(SiftDown([heap EXCEPT ![x] = heap[n]], n, x), x)
  IN [y \in 0 .. n - 1 |-> sifted[y]]

(* Moves the topmost to the end of a shrinking heap: last record first.    *)
TopmostLast(heap, n) == SiftDown(Swapped(heap, 0, n), n, 0)

Sorting(heap) ==
  LET n == Cardinality(DOMAIN heap)
      after[k \in 0 .. n] == IF k = 0 THEN heap ELSE TopmostLast(after[k - 1], n - k)
  IN after

\* Mutant: takes a heap for a sorted array.
Sort_Not(heap) == heap

Sort(heap) == Sorting(heap)[Cardinality(DOMAIN heap)]

(* A growing heap: each record in turn rises from its end.                 *)
Remaking(heap) ==
  LET n == Cardinality(DOMAIN heap)
      after[k \in 0 .. n] == IF k = 0 THEN heap ELSE SiftUp(after[k - 1], k - 1)
  IN after

Remake(heap) == Remaking(heap)[Cardinality(DOMAIN heap)]
-----------------------------------------------------------------------------
(* The object and its traversals.                                          *)

VARIABLES
  m_pHeap, m_iVisitedMark,
  at,                   \* "idle", or the traversal under way
  pos, bUnvisitedRecords, \* its locals
  unseen                \* history: the tickets it has yet to visit

heapVars == <<m_pHeap, m_iVisitedMark, at, pos, bUnvisitedRecords, unseen>>

m_nCurrent == Cardinality(DOMAIN m_pHeap)

Held(heap) == {heap[n].ticket : n \in DOMAIN heap}

-----------------------------------------------------------------------------
HeapInit ==
  /\ m_pHeap = [x \in {} |-> 0]
  /\ m_iVisitedMark = 0
  /\ at = "idle"
  /\ pos = 0 /\ bUnvisitedRecords = FALSE
  /\ unseen = {}

Insert(ticket, key) ==
  LET record == [ticket |-> ticket, key |-> key,
                 m_iVisitedMark |-> (m_iVisitedMark - 1) % MarkMod]
      longer == [x \in 0 .. m_nCurrent |-> IF x = m_nCurrent THEN record ELSE m_pHeap[x]]
  IN /\ at = "idle"
     /\ ticket \notin Held(m_pHeap)
     /\ m_pHeap' = SiftUp(longer, m_nCurrent)
     /\ UNCHANGED <<m_iVisitedMark, at, pos, bUnvisitedRecords, unseen>>

\* Mutant: removes the last record.
RemoveTopmost_Last ==
  /\ at = "idle"
  /\ m_nCurrent > 0
  /\ m_pHeap' = Remove(m_pHeap, m_nCurrent - 1)
  /\ UNCHANGED <<m_iVisitedMark, at, pos, bUnvisitedRecords, unseen>>

RemoveTopmost ==
  /\ at = "idle"
  /\ m_nCurrent > 0
  /\ m_pHeap' = Remove(m_pHeap, 0)
  /\ UNCHANGED <<m_iVisitedMark, at, pos, bUnvisitedRecords, unseen>>

-----------------------------------------------------------------------------
(* TraverseUnordered.                                                      *)

\* Mutant: the mark does not roll over.
StartUnordered_Unbounded ==
  /\ at = "idle"
  /\ m_iVisitedMark' = m_iVisitedMark + 1
  /\ at' = "unordered"
  /\ pos' = 0 /\ bUnvisitedRecords' = FALSE
  /\ unseen' = Held(m_pHeap)
  /\ UNCHANGED m_pHeap

(* On a rollover everything gets the mark 0 and the traversal the mark 1.  *)
StartUnordered ==
  LET mark == (m_iVisitedMark + 1) % MarkMod IN
  /\ at = "idle"
  /\ m_iVisitedMark' = IF mark = 0 THEN 1 ELSE mark
  /\ m_pHeap' = IF mark = 0 THEN [x \in DOMAIN m_pHeap |-> [m_pHeap[x] EXCEPT !.m_iVisitedMark = 0]]
                            ELSE m_pHeap
  /\ at' = "unordered"
  /\ pos' = 0 /\ bUnvisitedRecords' = FALSE
  /\ unseen' = Held(m_pHeap)

InPass == at = "unordered" /\ pos < m_nCurrent

SkipVisited ==
  /\ InPass
  /\ m_pHeap[pos].m_iVisitedMark = m_iVisitedMark
  /\ pos' = pos + 1
  /\ UNCHANGED <<m_pHeap, m_iVisitedMark, at, bUnvisitedRecords, unseen>>

(* One callback, and what the loop does with its answer: IU_NEXT_TASK,     *)
(* IU_REMOVE_TASK, or IU_UPDATE_TASK after a change of the key.            *)
VisitUnordered ==
  LET seen == [m_pHeap EXCEPT ![pos].m_iVisitedMark = m_iVisitedMark] IN
  /\ InPass
  /\ m_pHeap[pos].m_iVisitedMark # m_iVisitedMark
  /\ bUnvisitedRecords' = TRUE
  /\ \/ m_pHeap' = seen
     \/ m_pHeap' = Remove(seen, pos)
     \/ \E k \in Keys : m_pHeap' = Update([seen EXCEPT ![pos].key = k], pos)
  /\ pos' = pos + 1
  /\ unseen' = unseen \ {m_pHeap[pos].ticket}
  /\ UNCHANGED <<m_iVisitedMark, at>>

\* Mutants: one pass only; or one more pass for ever.
EndPass_Once ==
  /\ at = "unordered"
  /\ pos >= m_nCurrent
  /\ at' = "idle"
  /\ pos' = 0 /\ bUnvisitedRecords' = FALSE
  /\ UNCHANGED <<m_pHeap, m_iVisitedMark, unseen>>

EndPass_Never ==
  /\ at = "unordered"
  /\ pos >= m_nCurrent
  /\ pos' = 0 /\ bUnvisitedRecords' = FALSE
  /\ UNCHANGED <<m_pHeap, m_iVisitedMark, at, unseen>>

(* Another pass, unless this one found nothing to visit.                   *)
EndPass ==
  /\ at = "unordered"
  /\ pos >= m_nCurrent
  /\ at' = IF bUnvisitedRecords THEN "unordered" ELSE "idle"
  /\ pos' = 0 /\ bUnvisitedRecords' = FALSE
  /\ UNCHANGED <<m_pHeap, m_iVisitedMark, unseen>>

-----------------------------------------------------------------------------
(* TraverseOrdered: sort, visit from the end of the array, make a heap of  *)
(* it again.                                                               *)

StartOrdered ==
  /\ at = "idle"
  /\ m_pHeap' = Sort(m_pHeap)
  /\ pos' = m_nCurrent - 1
  /\ at' = "ordered"
  /\ unseen' = Held(m_pHeap)
  /\ UNCHANGED <<m_iVisitedMark, bUnvisitedRecords>>

(* The notifying callback changes the key, but its answer is not acted on. *)
VisitOrdered ==
  /\ at = "ordered"
  /\ pos >= 0
  /\ \E k \in Keys : m_pHeap' = [m_pHeap EXCEPT ![pos].key = k]
  /\ pos' = pos - 1
  /\ unseen' = unseen \ {m_pHeap[pos].ticket}
  /\ UNCHANGED <<m_iVisitedMark, at, bUnvisitedRecords>>

(* After the last record, or when the callback says IU_DONE.               *)
EndOrdered ==
  /\ at = "ordered"
  /\ m_pHeap' = Remake(m_pHeap)
  /\ at' = "idle"
  /\ pos' = 0
  /\ unseen' = {}
  /\ UNCHANGED <<m_iVisitedMark, bUnvisitedRecords>>

Traversal ==
  \/ SkipVisited \/ VisitUnordered \/ EndPass
  \/ VisitOrdered \/ EndOrdered

HeapNext ==
  \/ \E ticket \in Tickets, key \in Keys : Insert(ticket, key)
  \/ RemoveTopmost
  \/ StartUnordered \/ StartOrdered
  \/ Traversal

HeapSpec == HeapInit /\ [][HeapNext]_heapVars /\ WF_heapVars(Traversal)

-----------------------------------------------------------------------------
(* Properties.                                                             *)

(* The array has no holes and the marks stay in range. *)
HeapTypeOK ==
  /\ DOMAIN m_pHeap = 0 .. m_nCurrent - 1
  /\ \A x \in DOMAIN m_pHeap :
       m_pHeap[x] \in [ticket : Tickets, key : Keys, m_iVisitedMark : 0 .. MarkMod - 1]
  /\ m_iVisitedMark \in 0 .. MarkMod - 1
  /\ at \in {"idle", "unordered", "ordered"}
  /\ pos \in -1 .. Cardinality(Tickets)

(* No record comes before its parent, so the topmost is the first: also    *)
(* between two callbacks of TraverseUnordered that remove and change       *)
(* records.                                                                *)
HeapOrdered ==
  at # "ordered" =>
    \A x \in DOMAIN m_pHeap \ {0} : ~Before(m_pHeap[x], m_pHeap[Parent(x)])

(* A heap without holes, whatever a callback did to it (timer.cpp:617-684).  *)
HeapSound == HeapTypeOK /\ HeapOrdered

(* "in spite of any changes to the heap we will visit every record exactly *)
(* once": no callback gets a record it has seen, and none is left unseen   *)
(* when TraverseUnordered ends, across a rollover of the mark.             *)
VisitsExactlyOnce ==
  [][/\ VisitUnordered => m_pHeap[pos].ticket \in unseen
     /\ at = "unordered" /\ at' = "idle" => unseen = {}]_heapVars

(* TraverseOrdered "does visit each record in sorted order", although the  *)
(* callback moves the records it has visited: the next one comes before    *)
(* all that are still to be visited.                                       *)
VisitsInOrder ==
  [][at = "ordered" /\ at' = "ordered" =>
       \A x \in 0 .. pos - 1 : Before(m_pHeap[pos], m_pHeap[x])]_heapVars

(* Both traversals visit what they should, in the order they should.       *)
Visits == VisitsExactlyOnce /\ VisitsInOrder

(* A traversal comes to its end. *)
TraversalEnds == at # "idle" ~> at = "idle"

(* What IU_NEXT_TASK, IU_REMOVE_TASK and IU_UPDATE_TASK rely on: a         *)
(* traversal visits each record once, or in order, and comes to its end    *)
(* (timer.cpp:700-778).                                                    *)
Traversals == Visits /\ TraversalEnds

(* The array implements the set of tasks.                                  *)
KeyOf == [t \in Held(m_pHeap) |->
            m_pHeap[CHOOSE x \in DOMAIN m_pHeap : m_pHeap[x].ticket = t].key]

Set == INSTANCE TaskSet WITH key <- KeyOf

ImplementsTaskSet == Set!Spec
=============================================================================
