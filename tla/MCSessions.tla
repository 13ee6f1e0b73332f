------------------------------ MODULE MCSessions ------------------------------
(***************************************************************************)
(* Instances of Sessions for TLC: in each behaviour the sessions of one    *)
(* player overlap, or those of a wizard grow idle, or players run          *)
(* programs, or guests come and go.                                        *)
(***************************************************************************)
EXTENDS Sessions

CONSTANTS d1, d2, d3, b1, b2

VARIABLE work

MCInit == Init /\ work \in {"overlap", "idle", "programs", "guests"}

In(works) == work \in works

\* At most two descriptors are open, or three.
Connecting ==
  /\ Len(s.list) < (IF work = "overlap" THEN 3 ELSE 2)
  /\ \E d \in Descriptor : new_connection(d)

\* One line at a time is typed.
Typing == (\A d \in Descriptor : ~s.desc[d].line) /\ \E d \in Descriptor : process_input(d)

Session(d) ==
  \/ Quit(d) \/ check_connect(d)
  \/ In({"overlap", "idle", "programs"}) /\ Logout(d)
  \/ In({"idle"}) /\ (SocketDied(d) \/ Command(d) \/ BadLogin(d))
  \/ In({"programs"}) /\ (handle_prog(d) \/ check_connect_create(d))
  \/ In({"guests"}) /\ check_connect_guest(d)

\* Whom orders are about.
Booted == CASE work = "overlap" -> Mortals [] work = "idle" -> Wizards
            [] work = "programs" -> Wizards \cup Mortals [] OTHER -> {}
Destroyed == CASE work = "programs" -> Mortals [] work = "guests" -> Number \ Mortals [] OTHER -> {}

Orders ==
  \/ \E n \in Booted : do_boot(n)
  \/ \E n \in Destroyed : do_destroy(n)
  \/ In({"idle"}) /\ \E n \in Wizards : SetDark(n)
  \/ In({"programs"}) /\ \E n \in Wizards \cup Mortals, by \in Wizards : do_prog(by, n) \/ do_quitprog(by, n)

Housekeeping ==
  \/ In({"idle"}) /\ (Tick \/ check_idle)
  \/ In({"overlap", "idle", "programs"}) /\ do_restart
  \/ In({"programs", "guests"}) /\ do_dbck
  \/ In({"guests"}) /\ (do_pcreate \/ dispatch_FreeListReconstruction)

\* Only players of a set log in, and in time.
Who == CASE work = "overlap" -> Mortals [] work = "idle" -> Wizards
         [] work = "programs" -> Number [] OTHER -> Number \ Mortals

MCNext ==
  /\ Connecting \/ Typing \/ (\E d \in Descriptor : Session(d)) \/ Orders \/ Housekeeping
  /\ \A d \in Online(s)' : s'.desc[d].player \in Who
  /\ In({"programs", "guests"}) => now' < MaxTime
  /\ UNCHANGED work

MCSpec == MCInit /\ [][MCNext]_<<vars, work>>

Alike == Permutations(Descriptor) \cup Permutations(Program)
=============================================================================
