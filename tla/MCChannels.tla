----------------------------- MODULE MCChannels -----------------------------
(***************************************************************************)
(* Instances of Channels for TLC: in each behaviour either two players or  *)
(* things use channels, or fewer commands are mixed with dumps and crashes.*)
(***************************************************************************)
EXTENDS Channels

CONSTANTS g, a, b, x1, x2, MaxDumps   \* bound: dumps and crashes

VARIABLES work, dumps

MCInit == Init /\ work \in {"aliases", "dumps"} /\ dumps = 0

MCNext ==
  \/ /\ work = "aliases"
     /\ \E o \in Object : Command(o) \/ Coming(o)
     /\ UNCHANGED <<work, dumps>>
  \/ /\ work = "dumps"
     /\ \E o \in {g, a} :
          \/ Coming(o)
          \/ \E n \in Name :
               \/ do_createchannel(o, n) \/ do_addcom(o, x1, n) \/ do_processcom(o, {n}, "who")
               \/ do_editchannel(o, n, a)
          \/ do_delcom(o, x1)
     /\ UNCHANGED <<work, dumps>>
  \/ /\ work = "dumps" /\ dumps < MaxDumps
     /\ fork_and_dump \/ do_restart \/ Crash
     /\ dumps' = dumps + 1
     /\ UNCHANGED work
  \/ ReplaceFile /\ UNCHANGED <<work, dumps>>

MCSpec == MCInit /\ [][MCNext]_<<vars, work, dumps>>
=============================================================================
