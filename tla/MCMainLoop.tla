------------------------------ MODULE MCMainLoop ------------------------------
(* Instances of MainLoop for TLC. *)
EXTENDS MainLoop

CONSTANTS r1, j1, j2, d1

Switched == {PRIORITY_CF_DEQUEUE_ENABLED, PRIORITY_CF_DEQUEUE_DISABLED}
AlwaysEnabled == {PRIORITY_CF_DEQUEUE_ENABLED}

PlayerJobs == [j \in Jobs |-> PRIORITY_PLAYER]
=============================================================================
