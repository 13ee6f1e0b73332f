------------------------------ MODULE ObjectDb ------------------------------
(***************************************************************************)
(* The object database of object.cpp, move.cpp and predicates.cpp as pure  *)
(* operators.  A database d maps every number below db_top to its record:  *)
(* the members of OBJ that link objects to one another.  Contents and      *)
(* exits are singly linked through next.  An operator is named after the   *)
(* function it stands for and returns the database that function leaves.   *)
(*                                                                         *)
(* Messages, queued attributes (@aleave and the like), names, money and    *)
(* quota are left out; no object but God is a wizard or set INHERIT.       *)
(***************************************************************************)
EXTENDS Integers, FiniteSets, TLC
LOCAL INSTANCE SequencesExt

CONSTANTS
  PUBLIC,   \* numbers whose object carries LINK_OK, OPEN_OK, ABODE, ENTER_OK, JUMP_OK
  KEY,      \* numbers whose object carries KEY
  STICKY    \* numbers whose object carries STICKY

NOTHING == -1
HOME == -3
GOD == 1
start_room == 0

Types == {"ROOM", "THING", "EXIT", "PLAYER", "GARBAGE"}

\* What db_grow initialises a number to, and what destroy_obj leaves of one.
Garbage == [type |-> "GARBAGE", going |-> TRUE, loc |-> NOTHING,
            contents |-> NOTHING, exits |-> NOTHING, next |-> NOTHING,
            link |-> NOTHING, owner |-> GOD, destroyer |-> NOTHING]

db_top(d) == Cardinality(DOMAIN d)
Good_obj(d, x) == x \in DOMAIN d /\ d[x].type # "GARBAGE"
isType(d, x, t) == x \in DOMAIN d /\ d[x].type = t
Going(d, x) == x \in DOMAIN d => d[x].going
Has_contents(d, x) == ~isType(d, x, "EXIT")
Has_location(d, x) == x \in DOMAIN d => d[x].type \in {"THING", "PLAYER", "GARBAGE"}
NextOf(d, x) == IF x = NOTHING THEN NOTHING ELSE d[x].next

IS_CLEAN(d, x) == x \in DOMAIN d /\ d[x] = [Garbage EXCEPT !.link = d[x].link]

\* God controls all; others what they own, but no player controls another,
\* and a thing does not control its owner, who inherits from himself.
Controls(d, p, x) ==
  /\ Good_obj(d, x)
  /\ \/ p = GOD
     \/ /\ x # GOD
        /\ d[p].owner = d[x].owner
        /\ x = d[x].owner => p = d[p].owner

-----------------------------------------------------------------------------
(* Loops.                                                                  *)

\* Body folds a number below top into a state.
DO_WHOLE_DB(Body(_, _), top, s) == FoldLeft(Body, s, [i \in 1 .. top |-> i - 1])

\* SAFE_DOLIST: next is read one step ahead, and a self-referential next ends
\* the loop.  Body returns the database and whether to break.
SAFE_DOLIST(Body(_, _), d, head) ==
  LET Over(s) == s.thing = NOTHING \/ NextOf(s.d, s.thing) = s.thing
      Step(s, k) ==
        IF Over(s) THEN s
        ELSE LET b == Body(s.d, s.thing)
             IN IF b.break THEN [s EXCEPT !.d = b.d, !.thing = NOTHING]
                ELSE [d |-> b.d, thing |-> s.next, next |-> NextOf(b.d, s.next)]
      end == FoldLeft(Step, [d |-> d, thing |-> head, next |-> NextOf(d, head)],
                      [i \in 1 .. db_top(d) |-> i])
  IN IF Assert(Over(end), "a list that does not end") THEN end.d ELSE d

Done(d) == [d |-> d, break |-> FALSE]
Break(d) == [d |-> d, break |-> TRUE]

-----------------------------------------------------------------------------
(* Lists (predicates.cpp).  f is "contents" or "exits", the field of the    *)
(* place that heads the list.                                              *)

insert_first(d, f, at, thing) ==
  [d EXCEPT ![thing].next = d[at][f], ![at][f] = thing]

Members(d, head) ==
  LET walk[n \in 1 .. db_top(d)] == IF n = 1 THEN head ELSE NextOf(d, walk[n - 1])
  IN {walk[n] : n \in DOMAIN walk} \ {NOTHING}

\* Mutant: only the head of a list is unlinked.
remove_first_Head(d, f, at, thing) ==
  IF d[at][f] = thing THEN [d EXCEPT ![at][f] = d[thing].next] ELSE d

\* Unlinks thing from the list at heads, if it is there.
remove_first(d, f, at, thing) ==
  LET prev == {p \in Members(d, d[at][f]) \ {thing} : d[p].next = thing}
  IN IF d[at][f] = thing THEN [d EXCEPT ![at][f] = d[thing].next]
     ELSE IF prev = {} THEN d
     ELSE [d EXCEPT ![CHOOSE p \in prev : TRUE].next = d[thing].next]

RECURSIVE reverse_list(_, _, _)
reverse_list(d, newlist, list) ==
  IF list = NOTHING THEN [d |-> d, head |-> newlist]
  ELSE reverse_list([d EXCEPT ![list].next = newlist], list, d[list].next)

-----------------------------------------------------------------------------
(* Moves (move.cpp).                                                       *)

\* Every operator that takes HOME resolves it against the home of thing.
move_object(d, thing, dest) ==
  LET src == d[thing].loc
      out == IF src = NOTHING THEN d ELSE remove_first(d, "contents", src, thing)
      to == IF dest = HOME THEN out[thing].link ELSE dest
      in == IF to = NOTHING THEN [out EXCEPT ![thing].next = NOTHING]
            ELSE insert_first(out, "contents", to, thing)
  IN [in EXCEPT ![thing].loc = to]

\* Leaving and arriving only run attributes and show messages.
move_via_generic(d, thing, dest) == move_object(d, thing, dest)

\* Mutant: the exit takes its new place before it is unlinked.
move_the_exit_PlacedFirst(d, thing, dest) ==
  insert_first(remove_first([d EXCEPT ![thing].exits = dest], "exits", dest, thing),
               "exits", dest, thing)

move_the_exit(d, thing, dest) ==
  LET out == remove_first(d, "exits", d[thing].exits, thing)
  IN [insert_first(out, "exits", dest, thing) EXCEPT ![thing].exits = dest]

can_set_home(d, player, thing, home) ==
  /\ Good_obj(d, player) /\ Good_obj(d, home) /\ thing # home
  /\ d[home].type # "EXIT" /\ ~Going(d, home)
  /\ Controls(d, player, home) \/ home \in PUBLIC

default_home == start_room

new_home(d, player) ==
  LET owner == d[player].owner
      Accepts(home) == can_set_home(d, owner, player, home)
  IN IF Accepts(d[player].loc) THEN d[player].loc
     ELSE IF Accepts(d[owner].link) THEN d[owner].link
     ELSE default_home

Homeless(d, x) == ~Good_obj(d, d[x].link) \/ Going(d, d[x].link)

Rehomed(d, x) == [d EXCEPT ![x].link = new_home(d, x)]

\* KEY objects that thing does not control leave it for their homes.
divest_object(d, thing) ==
  SAFE_DOLIST(LAMBDA e, curr :
      IF ~Controls(e, thing, curr) /\ Has_location(e, curr) /\ curr \in KEY
      THEN Done(move_via_generic(IF Homeless(e, curr) THEN Rehomed(e, curr) ELSE e,
                                 curr, HOME))
      ELSE Done(e),
    d, d[thing].contents)

send_dropto(d, thing) ==
  LET to == IF thing \in STICKY THEN HOME ELSE d[d[thing].loc].loc
  IN divest_object(move_via_generic(d, thing, to), thing)

\* A STICKY room is emptied through its dropto once no player is left in it.
\* Every player is taken to be connected, and no thing to listen.
process_sticky_dropto(d, loc) ==
  LET Heard == \E x \in Members(d, d[loc].contents) : isType(d, x, "PLAYER")
      turned == reverse_list(d, NOTHING, d[loc].contents)
      e == [turned.d EXCEPT ![loc].contents = turned.head]
  IN IF /\ isType(d, loc, "ROOM") /\ loc \in STICKY
        /\ d[loc].loc \notin {NOTHING, loc}
        /\ ~Heard
     THEN SAFE_DOLIST(LAMBDA f, thing : Done(send_dropto(f, thing)), e, e[loc].contents)
     ELSE d

process_dropped_dropto(d, thing) ==
  LET loc == d[thing].loc
  IN IF thing \in STICKY THEN divest_object(move_via_generic(d, thing, HOME), thing)
     ELSE IF isType(d, loc, "ROOM") /\ d[loc].loc # NOTHING /\ loc \notin STICKY
     THEN send_dropto(d, thing)
     ELSE d

-----------------------------------------------------------------------------
(* Creation and destruction (object.cpp).                                  *)

\* Mutants: any garbage is reused, listed or not; the head stays on the list; a
\* player is left without an owner.
FreshNumber_Any(d, freelist) ==
  LET garbage == {x \in DOMAIN d : d[x].type = "GARBAGE"}
  IN IF garbage = {} THEN db_top(d) ELSE CHOOSE x \in garbage : TRUE

FreeAfter_Kept(d, freelist) ==
  IF freelist # NOTHING /\ IS_CLEAN(d, freelist) THEN freelist ELSE NOTHING

create_obj_Unowned(d, freelist, type, owner) ==
  LET free == freelist # NOTHING /\ IS_CLEAN(d, freelist)
  IN ((IF free THEN freelist ELSE db_top(d)) :>
        [Garbage EXCEPT !.type = type, !.going = FALSE, !.owner = owner]) @@ d

\* The number create_obj gives out, and the free list it leaves: one that is
\* not clean costs the whole list.
FreshNumber(d, freelist) ==
  IF freelist # NOTHING /\ IS_CLEAN(d, freelist) THEN freelist ELSE db_top(d)

FreeAfter(d, freelist) ==
  IF freelist # NOTHING /\ IS_CLEAN(d, freelist) THEN d[freelist].link ELSE NOTHING

create_obj(d, freelist, type, owner) ==
  LET obj == FreshNumber(d, freelist)
  IN (obj :> [Garbage EXCEPT !.type = type, !.going = FALSE,
                             !.owner = IF owner = NOTHING THEN obj ELSE owner]) @@ d

\* The record is wiped as it stands: the caller has emptied and unlinked it.
destroy_obj(d, obj) == [d EXCEPT ![obj] = Garbage]

make_freelist(d) ==
  FoldRight(LAMBDA i, s : IF IS_CLEAN(s.d, i)
                          THEN [d |-> [s.d EXCEPT ![i].link = s.freelist], freelist |-> i]
                          ELSE s,
            [i \in 1 .. db_top(d) |-> i - 1], [d |-> d, freelist |-> NOTHING])

\* Contents are taken out of the list by clearing their own pointers only.
SendHome(d, obj, targ) ==
  LET out == [d EXCEPT ![targ].loc = NOTHING, ![targ].next = NOTHING]
      homed == IF Homeless(out, targ) \/ out[targ].link = obj THEN Rehomed(out, targ)
               ELSE out
  IN divest_object(move_via_generic(homed, targ, HOME), targ)

empty_obj(d, obj) ==
  LET emptied == SAFE_DOLIST(LAMBDA e, targ :
                     IF ~Has_location(e, targ) \/ e[targ].loc # obj THEN Break(e)
                     ELSE Done(SendHome(e, obj, targ)),
                   d, d[obj].contents)
  IN SAFE_DOLIST(LAMBDA e, targ :
         IF e[targ].type \notin {"EXIT", "GARBAGE"} \/ e[targ].exits # obj THEN Break(e)
         ELSE Done(destroy_obj(e, targ)),
       emptied, emptied[obj].exits)

destroy_exit(d, exit) ==
  destroy_obj(remove_first(d, "exits", d[exit].exits, exit), exit)

destroy_room(d, room) == destroy_obj(empty_obj(d, room), room)

\* Mutant: a thing goes without being emptied.
destroy_thing_Full(d, thing) == destroy_obj(move_via_generic(d, thing, NOTHING), thing)

destroy_thing(d, thing) ==
  destroy_obj(empty_obj(move_via_generic(d, thing, NOTHING), thing), thing)

\* Mutant: what is GOING keeps its owner.
chown_all_SkipsGoing(d, from, to) ==
  [x \in DOMAIN d |->
     IF d[x].owner # from \/ x = from \/ d[x].going THEN d[x]
     ELSE [d[x] EXCEPT !.owner = IF d[x].type = "PLAYER" THEN x ELSE d[to].owner]]

chown_all(d, from, to) ==
  [x \in DOMAIN d |->
     IF d[x].owner # from \/ x = from THEN d[x]
     ELSE [d[x] EXCEPT !.owner = IF d[x].type = "PLAYER" THEN x ELSE d[to].owner]]

\* What the player carries stays where it is.
destroy_player(d, player, victim) ==
  destroy_obj(move_via_generic(chown_all(d, victim, player), victim, NOTHING), victim)

\* Objects that are GOING are destroyed in the order of their numbers.  A player
\* that God set GOING by flag remembers no destroyer, and is spared.
purge_going(d) ==
  DO_WHOLE_DB(LAMBDA e, i :
      CASE ~e[i].going \/ e[i].type = "GARBAGE" -> e
        [] e[i].type = "PLAYER" -> IF e[i].destroyer = NOTHING
                                   THEN [e EXCEPT ![i].going = FALSE]
                                   ELSE destroy_player(e, e[i].destroyer, i)
        [] e[i].type = "ROOM" -> destroy_room(e, i)
        [] e[i].type = "THING" -> destroy_thing(e, i)
        [] e[i].type = "EXIT" -> destroy_exit(e, i),
    db_top(d), d)

-----------------------------------------------------------------------------
(* Consistency check (object.cpp), without DBCK_FULL.                      *)

\* A place to live or to be in.
Place(d, x) == Good_obj(d, x) /\ Has_contents(d, x)

CheckOwner(d, i) ==
  IF Good_obj(d, d[i].owner) THEN d
  ELSE [d EXCEPT ![i].owner = IF d[i].type = "PLAYER" THEN i ELSE GOD]

CheckInhabitant(d, i) ==
  LET homed == IF Place(d, d[i].link) THEN d
               ELSE [d EXCEPT ![i].link = IF d[i].type = "PLAYER" THEN default_home
                                          ELSE new_home(d, i)]
      placed == IF Place(homed, homed[i].loc) THEN homed ELSE move_object(homed, i, HOME)
  IN IF placed[i].next = i THEN [placed EXCEPT ![i].next = NOTHING] ELSE placed

CheckDropto(d, i) ==
  LET to == d[i].loc
  IN IF to \in {NOTHING, HOME} \/ (Good_obj(d, to) /\ ~Going(d, to)) THEN d
     ELSE [d EXCEPT ![i].loc = NOTHING]

\* Mutant: only a missing place is looked for.
CheckDestination_Missing(d, i) ==
  LET to == d[i].loc
      gone == to \notin {NOTHING, HOME} /\ ~Good_obj(d, to)
  IN [d EXCEPT ![i].going = @ \/ gone, ![i].next = IF @ = i THEN NOTHING ELSE @]

\* An exit to a GOING or missing place goes with it.
CheckDestination(d, i) ==
  LET to == d[i].loc
      gone == to \notin {NOTHING, HOME} /\ (~Good_obj(d, to) \/ Going(d, to))
  IN [d EXCEPT ![i].going = @ \/ gone, ![i].next = IF @ = i THEN NOTHING ELSE @]

check_dead_refs(d) ==
  DO_WHOLE_DB(LAMBDA e, i :
      LET o == CheckOwner(e, i)
      IN CASE e[i].type \in {"PLAYER", "THING"} -> CheckInhabitant(o, i)
           [] e[i].type = "ROOM" -> CheckDropto(o, i)
           [] e[i].type = "EXIT" -> CheckDestination(o, i)
           [] e[i].type = "GARBAGE" -> o,
    db_top(d), d)

\* The rest of a list is given up after back, its last good member.
Terminate(d, f, loc, back) ==
  IF back # NOTHING THEN [d EXCEPT ![back].next = NOTHING]
  ELSE [d EXCEPT ![loc][f] = NOTHING]

\* The checks of lists carry a database and the set of marked numbers.
Mark(s, x) == [s EXCEPT !.marked = @ \cup {x}]
Unmark(s, x) == [s EXCEPT !.marked = @ \ {x}]

RECURSIVE check_loc_exits(_, _), ExitsFrom(_, _, _, _)

check_loc_exits(s, loc) ==
  IF ~Good_obj(s.d, loc) \/ isType(s.d, loc, "EXIT") \/ Going(s.d, loc) \/ loc \in s.marked
  THEN s
  ELSE ExitsFrom(Mark(s, loc), loc, NOTHING, s.d[loc].exits)

ExitsFrom(s, loc, back, exit) ==
  LET d == s.d
      End(t) == [t EXCEPT !.d = Terminate(@, "exits", loc, back)]
      Keep(t) == ExitsFrom(Mark(t, exit), loc, exit, t.d[exit].next)
      rest == d[exit].next
      skipped == IF back # NOTHING THEN [d EXCEPT ![back].next = rest]
                 ELSE [d EXCEPT ![loc].exits = rest]
      dest == d[exit].loc
      other == check_loc_exits(s, d[exit].exits)
  IN IF exit = NOTHING THEN s
     ELSE IF ~isType(d, exit, "EXIT") THEN End(s)
     ELSE IF Going(d, exit)
     THEN ExitsFrom([s EXCEPT !.d = destroy_obj(skipped, exit)], loc, back, rest)
     ELSE IF exit \in s.marked THEN End(s)
     ELSE IF ~Good_obj(d, dest) /\ dest \notin {HOME, NOTHING}
     THEN Keep([s EXCEPT !.d[exit].loc = NOTHING])
     ELSE IF d[exit].exits = loc THEN Keep(s)
     ELSE IF exit \in other.marked THEN End(other)
     ELSE Keep([other EXCEPT !.d[exit].exits = loc])

check_exit_chains(d) ==
  LET s == DO_WHOLE_DB(check_loc_exits, db_top(d), [d |-> d, marked |-> {}])
  IN [x \in DOMAIN d |-> IF isType(s.d, x, "EXIT") /\ x \notin s.marked THEN Garbage
                         ELSE s.d[x]]

RECURSIVE check_loc_contents(_, _), ContentsFrom(_, _, _, _)

check_loc_contents(s, loc) ==
  IF ~Good_obj(s.d, loc) \/ isType(s.d, loc, "EXIT") \/ Going(s.d, loc) THEN s
  ELSE ContentsFrom(s, loc, NOTHING, s.d[loc].contents)

\* check_misplaced_obj has lost the list it was called for when it corrects:
\* it cuts and resets with the location of the object.
ContentsFrom(s, loc, back, obj) ==
  LET d == s.d
      Keep(t) == ContentsFrom(Mark(t, obj), loc, obj, t.d[obj].next)
      other == check_loc_contents(Unmark(s, obj), d[obj].loc)
  IN IF obj = NOTHING THEN s
     ELSE IF ~Good_obj(d, obj) \/ ~Has_location(d, obj)
     THEN [s EXCEPT !.d = Terminate(@, "contents", loc, back)]
     ELSE IF d[obj].loc = loc THEN Keep(s)
     ELSE IF obj \in other.marked
     THEN [other EXCEPT !.d = Terminate(@, "contents", d[obj].loc, back)]
     ELSE Keep([other EXCEPT !.d[obj].contents = d[obj].loc])

\* What no list of a place that stays has reached is moved home; the places
\* that are GOING were not looked into.
check_contents_chains(d) ==
  LET s == DO_WHOLE_DB(check_loc_contents, db_top(d), [d |-> d, marked |-> {}])
  IN DO_WHOLE_DB(LAMBDA e, i :
         IF e[i].going \/ i \in s.marked \/ ~Has_location(e, i) THEN e
         ELSE LET out == [e EXCEPT ![i].loc = NOTHING, ![i].next = NOTHING]
              IN move_via_generic(IF Homeless(out, i) THEN Rehomed(out, i) ELSE out,
                                  i, HOME),
       db_top(d), s.d)

\* do_dbck as the timer calls it, without an executor (no Guest.CleanUp).
do_dbck(d) ==
  make_freelist(purge_going(check_contents_chains(check_exit_chains(check_dead_refs(d)))))

=============================================================================
