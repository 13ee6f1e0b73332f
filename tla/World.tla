------------------------------- MODULE World -------------------------------
(***************************************************************************)
(* Players and things build, move, link and destroy objects; dbck cleans   *)
(* up behind them.  One action is one command of one executor, or the      *)
(* periodic dbck: the server runs each to its end.  The state is the       *)
(* database of module ObjectDb and the head of the free list.              *)
(*                                                                         *)
(* Locks, costs and quotas are open: they only refuse a command.           *)
(***************************************************************************)
EXTENDS ObjectDb

CONSTANTS
  MaxTop,        \* bound: the database grows to this many numbers
  DESTROY_OK,    \* numbers whose object carries DESTROY_OK
  Creates,       \* bound: the types of objects that are created at each number
  Executors,     \* bound: who gives commands
  Links,         \* bound: what homes, exits and droptos are linked to
  Still,         \* bound: who stays where he is and keeps his home
  ByHand         \* the types of objects that God sets GOING by hand

ASSUME WorldAssumption ==
  /\ MaxTop \in Nat \ (0 .. 2)
  /\ Creates \in [0 .. MaxTop - 1 -> SUBSET (Types \ {"GARBAGE"})]
  /\ ByHand \subseteq Types

VARIABLES
  db,            \* number -> record
  freelist,      \* mudstate.freelist
  stranded       \* history: what places that were destroyed at once left in themselves

vars == <<db, freelist, stranded>>

Numbers == 0 .. MaxTop - 1
Ref == Numbers \cup {NOTHING, HOME}

TypeOK ==
  /\ \E top \in 1 .. MaxTop :
       db \in [0 .. top - 1 ->
                 [type : Types, going : BOOLEAN, loc : Ref, contents : Ref, exits : Ref,
                  next : Ref, link : Ref, owner : Numbers, destroyer : Ref]]
  /\ freelist \in DOMAIN db \cup {NOTHING}
  /\ stranded \subseteq {x \in DOMAIN db : Good_obj(db, x)}

\* Limbo, the Wizard, and a mortal player (numbers 0, 1 and 2), both in Limbo.
Player(next, owner) ==
  [Garbage EXCEPT !.type = "PLAYER", !.going = FALSE, !.loc = start_room,
                  !.next = next, !.link = start_room, !.owner = owner]

Init ==
  /\ db = (0 :> [Garbage EXCEPT !.type = "ROOM", !.going = FALSE, !.contents = 2])
          @@ (1 :> Player(NOTHING, 1)) @@ (2 :> Player(1, 2))
  /\ freelist = NOTHING
  /\ stranded = {}

-----------------------------------------------------------------------------
(* Who does what.                                                          *)

Executor(e) == e \in Executors /\ db[e].type \in {"PLAYER", "THING"} /\ ~db[e].going
Inhabits(x) == db[x].type \in {"PLAYER", "THING"}
Enterable(e, x) == x \in PUBLIC \/ Controls(db, e, x)
Linkable(e, x) == Good_obj(db, x) /\ Has_contents(db, x) /\ (x \in PUBLIC \/ Controls(db, e, x))
Neighbor(e, x) == db[x].loc = db[e].loc \/ e = GOD

\* Any but the first numbers and God may be destroyed.
destroyable(x) == x \notin {start_room, GOD}

Becomes(d) == db' = d /\ UNCHANGED freelist

\* A new object, put in its place by Place(database, number).
Makes(type, owner, Put(_, _)) ==
  LET obj == FreshNumber(db, freelist)
  IN /\ obj < MaxTop
     /\ type \in Creates[obj]
     /\ db' = Put(create_obj(db, freelist, type, owner), obj)
     /\ freelist' = FreeAfter(db, freelist)

-----------------------------------------------------------------------------
(* Creation (create.cpp).                                                  *)

do_create(e) ==
  Makes("THING", db[e].owner,
        LAMBDA d, thing : LET in == move_via_generic(d, thing, e)
                          IN [in EXCEPT ![thing].link = new_home(in, e)])

\* Without the exits that @dig opens on request: they are opened one by one.
do_dig(e) == Makes("ROOM", db[e].owner, LAMBDA d, room : d)

\* linkto is NOTHING when no destination is given.  No back link is asked for.
do_open(e, loc, linkto) ==
  /\ loc \in {e, db[e].loc}
  /\ loc \in PUBLIC \/ Controls(db, e, loc)
  /\ linkto \in {NOTHING, HOME} \/ Linkable(e, linkto)
  /\ Makes("EXIT", db[e].owner,
           LAMBDA d, exit : [insert_first(d, "exits", loc, exit)
                               EXCEPT ![exit].exits = loc, ![exit].loc = linkto])

do_pcreate(e) ==
  /\ e = GOD
  /\ Makes("PLAYER", NOTHING,
           LAMBDA d, player : move_object([d EXCEPT ![player].link = start_room],
                                          player, start_room))

-----------------------------------------------------------------------------
(* Links (create.cpp, set.cpp).  link_exit takes an unlinked exit over.     *)

link_exit(e, exit, dest) ==
  /\ isType(db, exit, "EXIT")
  /\ dest = HOME \/ Linkable(e, dest)
  /\ db[exit].loc = NOTHING \/ Controls(db, e, exit)
  /\ Becomes([db EXCEPT ![exit].loc = dest, ![exit].owner = db[e].owner])

link_home(e, thing, home) ==
  /\ Inhabits(thing) /\ thing \notin Still
  /\ Controls(db, e, thing)
  /\ can_set_home(db, e, thing, home)
  /\ Becomes([db EXCEPT ![thing].link = home])

link_dropto(e, room, to) ==
  /\ isType(db, room, "ROOM")
  /\ Controls(db, e, room)
  /\ to = HOME \/ (isType(db, to, "ROOM") /\ Linkable(e, to))
  /\ Becomes([db EXCEPT ![room].loc = to])

do_unlink(e, x) ==
  /\ isType(db, x, "EXIT") \/ isType(db, x, "ROOM")
  /\ Controls(db, e, x)
  /\ Becomes([db EXCEPT ![x].loc = NOTHING])

-----------------------------------------------------------------------------
(* Destruction (create.cpp) and the GOING flag (flags.cpp).                *)

\* What one controls, the exits of a place one controls, and DESTROY_OK things
\* one carries.
MayDestroy(e, x) ==
  \/ Controls(db, e, x)
  \/ isType(db, x, "EXIT") /\ db[x].exits = db[e].loc /\ Controls(db, e, db[e].loc)
  \/ isType(db, x, "THING") /\ db[x].loc = e /\ x \in DESTROY_OK

Destroyed(e, x) ==
  CASE db[x].type = "EXIT" -> destroy_exit(db, x)
    [] db[x].type = "PLAYER" -> destroy_player(db, e, x)
    [] db[x].type = "ROOM" -> destroy_room(db, x)
    [] db[x].type = "THING" -> destroy_thing(db, x)

do_destroy(e, x, instant) ==
  /\ MayDestroy(e, x)
  /\ destroyable(x)
  /\ isType(db, x, "PLAYER") => e = GOD
  /\ ~db[x].going                      \* destroy_going_now is off
  /\ Becomes(IF instant \/ x \in DESTROY_OK \/ db[x].owner \in DESTROY_OK
             THEN Destroyed(e, x)
             ELSE [db EXCEPT ![x].going = TRUE,
                             ![x].destroyer = IF db[x].type = "PLAYER" THEN e ELSE @])

\* @set x=GOING by God, @set x=!GOING by who controls x.
set_going(x) ==
  /\ Good_obj(db, x) /\ db[x].type \in ByHand /\ destroyable(x) /\ ~db[x].going
  /\ Becomes([db EXCEPT ![x].going = TRUE])

spare(e, x) ==
  /\ Controls(db, e, x)
  /\ db[x].going
  /\ Becomes([db EXCEPT ![x].going = FALSE])

-----------------------------------------------------------------------------
(* Movement (move.cpp, wiz.cpp).                                           *)

\* After a move, KEY things leave x and the room it left may empty itself.
Settled(d, x) == process_sticky_dropto(divest_object(d, x), db[x].loc)

home(e) == e \notin Still /\ Becomes(Settled(move_via_generic(db, e, HOME), e))

move_exit(x, exit) ==
  LET dest == IF db[exit].loc = HOME THEN db[x].link ELSE db[exit].loc
      moved == move_object(db, x, dest)
  IN /\ isType(db, exit, "EXIT") /\ db[exit].exits = db[x].loc
     /\ Good_obj(db, dest) /\ Has_contents(db, dest) /\ x \notin Still
     /\ \/ /\ db[dest].type = "ROOM"
           /\ Becomes(process_sticky_dropto(moved, db[x].loc))
        \/ /\ db[dest].type # "ROOM" /\ ~db[dest].going
           /\ Becomes(divest_object(process_sticky_dropto(moved, db[x].loc), x))

\* From the place one is in, or from what others carry there.
do_get(e, thing) ==
  LET here == db[e].loc
      from == db[thing].loc
  IN /\ isType(db, here, "ROOM") \/ (Good_obj(db, here) /\ Enterable(e, here))
     /\ Inhabits(thing) /\ thing # e /\ from # e /\ thing \notin Still
     /\ Neighbor(e, thing) \/ (Good_obj(db, from) /\ db[from].loc = here)
     /\ Becomes(move_via_generic(db, thing, e))

get_exit(e, exit) ==
  LET here == db[e].loc
  IN /\ isType(db, here, "ROOM") \/ (Good_obj(db, here) /\ Enterable(e, here))
     /\ isType(db, exit, "EXIT") /\ db[exit].exits # e
     /\ db[exit].exits = here \/ e = GOD
     /\ Controls(db, e, exit) \/ Controls(db, e, here)
     /\ Becomes(move_the_exit(db, exit, e))

do_drop(e, thing) ==
  /\ Good_obj(db, db[e].loc)
  /\ Inhabits(thing) /\ db[thing].loc = e
  /\ Becomes(process_dropped_dropto(move_via_generic(db, thing, db[e].loc), thing))

drop_exit(e, exit) ==
  /\ isType(db, exit, "EXIT") /\ db[exit].exits = e
  /\ Controls(db, e, db[e].loc)
  /\ Becomes(move_the_exit(db, exit, db[e].loc))

do_enter(e, thing) ==
  /\ Inhabits(thing) /\ e # thing /\ Neighbor(e, thing) /\ e \notin Still
  /\ Enterable(e, thing)
  /\ Becomes(Settled(move_via_generic(db, e, thing), e))

do_leave(e) ==
  LET loc == db[e].loc
      newLoc == db[loc].loc
  IN /\ Good_obj(db, loc) /\ ~db[loc].going /\ Has_location(db, loc)
     /\ Good_obj(db, newLoc) /\ ~db[newLoc].going /\ e \notin Still
     /\ Becomes(move_via_generic(db, e, newLoc))

move_via_teleport(x, dest) ==
  Becomes(IF db[x].type = "EXIT" THEN move_the_exit(db, x, dest)
          ELSE Settled(move_object(db, x, dest), x))

MayTeleport(e, x) ==
  /\ Good_obj(db, x) /\ db[x].type # "ROOM" /\ x \notin Still
  /\ \/ Controls(db, e, x)
     \/ Controls(db, e, IF db[x].type = "EXIT" THEN db[x].exits ELSE db[x].loc)

do_teleport(e, x, dest) ==
  /\ MayTeleport(e, x)
  /\ \/ dest = HOME /\ db[x].type # "EXIT" /\ move_via_teleport(x, HOME)
     \/ /\ dest # x /\ Good_obj(db, dest) /\ Has_contents(db, dest)
        /\ Has_location(db, dest) => ~isType(db, db[dest].loc, "GARBAGE")
        /\ Enterable(e, dest)
        /\ db[x].type = "EXIT" /\ dest = GOD => e = GOD
        /\ move_via_teleport(x, dest)
     \/ db[x].type # "EXIT" /\ isType(db, dest, "EXIT") /\ move_exit(x, dest)

-----------------------------------------------------------------------------

dbck ==
  LET s == do_dbck(db) IN db' = s.d /\ freelist' = s.freelist

\* A command of executor e.
Command(e) ==
  \/ do_create(e) \/ do_dig(e) \/ do_pcreate(e)
  \/ home(e) \/ do_leave(e)
  \/ \E x \in DOMAIN db :
       \/ do_unlink(e, x) \/ spare(e, x)
       \/ \E instant \in BOOLEAN : do_destroy(e, x, instant)
       \/ do_get(e, x) \/ get_exit(e, x) \/ do_drop(e, x) \/ drop_exit(e, x)
       \/ do_enter(e, x) \/ move_exit(e, x)
       \/ \E y \in Links :
            do_open(e, x, y) \/ link_exit(e, x, y) \/ link_home(e, x, y) \/ link_dropto(e, x, y)
       \/ \E y \in DOMAIN db \cup {HOME} : do_teleport(e, x, y)

\* The place whose list an object belongs in.
Whereabouts(d, x) == IF d[x].type = "EXIT" THEN d[x].exits ELSE d[x].loc

\* What is left located in a number, or starting at it, that a command destroys at
\* once: what a player carried; and what was sent home into the very place, which is
\* its home, or its owner's, and not GOING yet.
StillStranded ==
  {x \in DOMAIN db :
     LET at == Whereabouts(db', x)
     IN /\ Good_obj(db', x)
        /\ \/ /\ x \in stranded /\ Whereabouts(db, x) = at
              /\ x \notin Members(db', db'[at].contents)
           \/ /\ Good_obj(db, at) /\ isType(db', at, "GARBAGE")
              /\ \/ isType(db, at, "PLAYER")
                 \/ Inhabits(x) /\ at \in {db[x].link, db[db[x].owner].link}}

Next ==
  \/ /\ \/ \E e \in DOMAIN db : Executor(e) /\ Command(e)
        \/ \E x \in DOMAIN db : set_going(x)
     /\ stranded' = StillStranded
  \/ dbck /\ stranded' = {}

Spec == Init /\ [][Next]_vars

-----------------------------------------------------------------------------
(* Properties.                                                             *)

\* Following next from head visits every member of S once and then ends.
Lists(head, S) ==
  LET walk[n \in 0 .. Cardinality(S)] == IF n = 0 THEN head ELSE NextOf(db, walk[n - 1])
  IN /\ {walk[n] : n \in 0 .. Cardinality(S) - 1} = S
     /\ walk[Cardinality(S)] = NOTHING

\* Every live player, thing and exit is in one list and once: the contents or the
\* exits of the number it is located in or starts at, be that a place or, when its
\* home was destroyed before it was sent there, garbage (move_object, empty_obj,
\* divest_object, process_sticky_dropto, dbck).  In none is, until it moves, only what
\* @destroy/instant of a player, or of the home one is in, left behind; dbck leaves
\* nothing so.
ContentsListed ==
  \A p \in DOMAIN db :
    Lists(db[p].contents, {x \in DOMAIN db : Inhabits(x) /\ db[x].loc = p} \ stranded)

ExitsListed ==
  \A p \in DOMAIN db : Has_contents(db, p) =>
    Lists(db[p].exits,
          {x \in DOMAIN db : isType(db, x, "EXIT") /\ db[x].exits = p} \ stranded)

Located ==
  \A x \in DOMAIN db :
    Good_obj(db, x) /\ db[x].type # "ROOM" => Whereabouts(db, x) \in DOMAIN db

\* The free list ends, and every number on it is garbage (create_obj still looks
\* whether it is clean).
FreeListed ==
  LET walk[n \in 0 .. MaxTop] ==
        IF n = 0 THEN freelist
        ELSE IF walk[n - 1] = NOTHING THEN NOTHING ELSE db[walk[n - 1]].link
  IN /\ \A n \in DOMAIN walk : walk[n] # NOTHING => isType(db, walk[n], "GARBAGE")
     /\ walk[MaxTop] = NOTHING

\* Whoever owns something is a live player, even after players are destroyed and
\* their numbers used again (chown_all, link_exit).
OwnersLive == \A x \in DOMAIN db : isType(db, db[x].owner, "PLAYER")

\* The database is sound between any two commands: every object is in its one list,
\* the free list holds what is free, and owners are players (what dbck is there to
\* find).
DbSound ==
  TypeOK /\ ContentsListed /\ ExitsListed /\ Located /\ FreeListed /\ OwnersLive

\* A number is used again only once nothing is located in it, starts, leads or
\* drops there, or lists it (destroy_obj forgets the object, dbck the references).
Names(x) == {db[x].loc, db[x].contents}
              \cup (IF db[x].type = "EXIT" THEN {db[x].exits} ELSE {})

ReusedUnnamed ==
  [][\A n \in DOMAIN db :
       isType(db, n, "GARBAGE") /\ db'[n].type # "GARBAGE" =>
         \A x \in DOMAIN db : Good_obj(db, x) => n \notin Names(x)]_vars

\* Whenever dbck runs, it leaves nothing GOING, every player and thing in a place,
\* and every exit and dropto leading to one (check_dead_refs, purge_going).
DbckSettles ==
  LET d == do_dbck(db).d
  IN \A x \in DOMAIN d : Good_obj(d, x) =>
       /\ ~d[x].going
       /\ d[x].type \in {"PLAYER", "THING"} => Place(d, d[x].loc)
       /\ d[x].loc \in {NOTHING, HOME} \/ Place(d, d[x].loc)

\* The home of an object is never a number that is free to be given to another
\* object ("check_dead_refs: Look for references to GOING or illegal objects").
HomesNotReused ==
  [][\A n \in DOMAIN db :
       isType(db, n, "GARBAGE") /\ db'[n].type # "GARBAGE" =>
         \A x \in DOMAIN db : Good_obj(db, x) /\ Inhabits(x) => n # db[x].link]_vars

=============================================================================
