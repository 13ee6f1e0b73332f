-------------------------------- MODULE MCTasks --------------------------------
(***************************************************************************)
(* A behaviour is either one of the main loop or one of the heap of tasks  *)
(* that the loop pops, on which traversals and callbacks work.  They share *)
(* no variable.                                                            *)
(***************************************************************************)
EXTENDS MCMainLoop, TaskHeap

VARIABLE work

MCInit == work \in {"loop", "heap"} /\ Init /\ HeapInit

MCNext ==
  \/ work = "loop" /\ Next /\ UNCHANGED <<work, heapVars>>
  \/ work = "heap" /\ HeapNext /\ UNCHANGED <<work, vars>>

HeapTraversal == Traversal /\ UNCHANGED <<work, vars>>

\* The fairness of MainLoop, and that a traversal that is under way goes on.
MCSpec ==
  /\ MCInit /\ [][MCNext]_<<work, vars, heapVars>>
  /\ WF_vars(work = "loop" /\ shovechars /\ UNCHANGED <<work, heapVars>>)
  /\ WF_vars(work = "loop" /\ Tick /\ UNCHANGED <<work, heapVars>>)
  /\ SF_vars(work = "loop" /\ SelectReturns /\ UNCHANGED <<work, heapVars>>)
  /\ []<>(at = "idle") \/ []<><<HeapTraversal>>_heapVars
=============================================================================
