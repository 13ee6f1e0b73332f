------------------------------- MODULE Sessions -------------------------------
(***************************************************************************)
(* Connections and the players behind them (bsd.cpp, netcommon.cpp,        *)
(* mguests.cpp, predicates.cpp): the list of descriptors, the chains by    *)
(* player of desc_htab, logging in and out, @program, idle sessions, the   *)
(* pool of guests, dbck as far as it destroys players, and @restart, which *)
(* hands the sockets over to a new process.                                *)
(*                                                                         *)
(* The state the code changes is one record s; the operators named after   *)
(* functions of the code take it and return it changed.                    *)
(***************************************************************************)
EXTENDS Integers, Sequences, FiniteSets, SequencesExt, FiniteSetsExt

CONSTANTS
  Descriptor,        \* DESC blocks, used again after free_desc
  Number,            \* numbers of players, those of future ones included
  Program,           \* PROG blocks, used again after MEMFREE
  Wizards, Mortals,  \* those who exist at the start
  NULL,
  max_players, min_guests, number_guests,
  idle_timeout, conn_timeout,
  MaxTime            \* bound: the clock; every login takes a tick of it

ASSUME SessionsAssumption ==
  /\ Number \subseteq Nat \ {0} /\ IsFiniteSet(Descriptor)
  /\ Wizards \cup Mortals \subseteq Number /\ Wizards \cap Mortals = {}
  /\ max_players \in Nat
  /\ min_guests \in Nat /\ number_guests \in Nat
  /\ idle_timeout \in Nat \ {0} /\ conn_timeout \in Nat \ {0} /\ MaxTime \in Nat

VARIABLES
  s,        \* see Start
  now,      \* the clock
  online,   \* history: how long each player has had a session
  dimmed,   \* history: players set DARK by check_idle who have not logged in since
  carried   \* history: players of a restart that kept two sessions or more

vars == <<s, now, online, dimmed, carried>>
history == <<online, dimmed, carried>>

NOTHING == -1

\* No player has number 0, which every descriptor starts with.
Key == Number \cup {0}

Fresh(t) == [open |-> TRUE, flags |-> {}, player |-> 0, hashnext |-> NULL,
             program_data |-> NULL, connected_at |-> t, last_time |-> t, line |-> FALSE]
Freed == [Fresh(0) EXCEPT !.open = FALSE]

Player(wizard, guest) ==
  [type |-> "player", wizard |-> wizard, guest |-> guest, flags |-> {},
   CIF_TOTALTIME |-> 0, A_PROGCMD |-> NULL]
Garbage == [Player(FALSE, FALSE) EXCEPT !.type = "garbage"]
Unused == [Player(FALSE, FALSE) EXCEPT !.type = "free"]

\* desc: the blocks; list: descriptor_list; htab: heads of the chains by player;
\* db: players; prog: who started each program; Guests: the pool.
Start ==
  [desc |-> [d \in Descriptor |-> Freed],
   list |-> <<>>,
   htab |-> [k \in Key |-> NULL],
   db |-> [n \in Number |-> IF n \in Wizards THEN Player(TRUE, FALSE)
                            ELSE IF n \in Mortals THEN Player(FALSE, FALSE) ELSE Unused],
   prog |-> [b \in Program |-> NULL],
   Guests |-> <<>>]

-----------------------------------------------------------------------------
\* DESC_ITER_PLAYER: from the head of the chain along hashnext.
Chain(t, k) ==
  LET N == Cardinality(Descriptor)
      At[i \in 1 .. N + 1] == IF i = 1 THEN t.htab[k]
                              ELSE IF At[i - 1] = NULL THEN NULL ELSE t.desc[At[i - 1]].hashnext
  IN SelectSeq([i \in 1 .. N |-> At[i]], LAMBDA d : d # NULL)

OnChain(t, k) == Range(Chain(t, k))

Sessions(t, n) == {d \in Descriptor : "CONNECTED" \in t.desc[d].flags /\ t.desc[d].player = n}
Online(t) == {d \in Descriptor : "CONNECTED" \in t.desc[d].flags}
isPlayer(t, n) == n \in Number /\ t.db[n].type = "player"
Connected(t, n) == isPlayer(t, n) /\ "CONNECTED" \in t.db[n].flags

desc_addhash(t, d) ==
  LET k == t.desc[d].player
  IN [t EXCEPT !.desc[d].hashnext = t.htab[k], !.htab[k] = d]

\* Mutant: the head of the chain is not looked at.
desc_delhash_NotHead(t, d) ==
  LET chain == Chain(t, t.desc[d].player)
      i == SelectInSeq(chain, LAMBDA e : e = d)
  IN IF i <= 1 THEN [t EXCEPT !.desc[d].hashnext = NULL]
     ELSE [t EXCEPT !.desc = [@ EXCEPT ![chain[i - 1]].hashnext = t.desc[d].hashnext,
                                       ![d].hashnext = NULL]]

desc_delhash(t, d) ==
  LET k == t.desc[d].player
      chain == Chain(t, k)
      i == SelectInSeq(chain, LAMBDA e : e = d)
      after == t.desc[d].hashnext
      cut == [t EXCEPT !.desc[d].hashnext = NULL]
  IN IF i = 0 THEN cut
     ELSE IF i = 1 THEN [cut EXCEPT !.htab[k] = after]
     ELSE [cut EXCEPT !.desc[chain[i - 1]].hashnext = after]

\* The oldest session of a player and the one that was the oldest before it was met.
find_oldest(t, n) ==
  FoldLeft(LAMBDA o, d : IF o[1] = NULL \/ t.desc[d].connected_at < t.desc[o[1]].connected_at
                         THEN <<d, o[1]>> ELSE o,
           <<NULL, NULL>>, Chain(t, n))

\* Mutant: the two ends of the time alone are swapped.
TimeOf_Swapped(t, d) ==
  LET oldest == find_oldest(t, t.desc[d].player)
  IN IF oldest[1] # d THEN 0
     ELSE IF oldest[2] = NULL THEN now - t.desc[d].connected_at
     ELSE t.desc[d].connected_at - t.desc[oldest[2]].connected_at

\* Mutant: the other sessions of the player are forgotten.
TimeOf_Full(t, d) ==
  IF find_oldest(t, t.desc[d].player)[1] # d THEN 0 ELSE now - t.desc[d].connected_at

\* The time online that the end of session d adds: what only d covered so far.
TimeOf(t, d) ==
  LET oldest == find_oldest(t, t.desc[d].player)
  IN IF oldest[1] # d THEN 0
     ELSE IF oldest[2] = NULL THEN now - t.desc[d].connected_at
     ELSE t.desc[oldest[2]].connected_at - t.desc[d].connected_at

\* Mutant: a player made DARK for being idle stays DARK.
TakenOff_Connected(t, d) == {"CONNECTED"}

\* The flags that the last session takes with it.
TakenOff(t, d) ==
  {"CONNECTED"} \cup (IF "AUTODARK" \in t.desc[d].flags THEN {"DARK"} ELSE {})

announce_disconnect(t, d) ==
  LET n == t.desc[d].player
      on == IF t.db[n].guest THEN {"DARK"} ELSE {}
      gone == [t EXCEPT !.db[n].flags = (@ \ TakenOff(t, d)) \cup on, !.desc[d].flags = @ \ {"AUTODARK"}]
  IN desc_delhash(IF Len(Chain(t, n)) < 2 THEN gone ELSE t, d)

\* The program of a player goes with his last session.
LeaveProgram(t, d) ==
  LET n == t.desc[d].player
      b == t.desc[d].program_data
      left == [t EXCEPT !.desc[d].program_data = NULL]
  IN IF b = NULL THEN t
     ELSE IF Chain(t, n) # <<>> THEN left
     ELSE [left EXCEPT !.prog[b] = NULL, !.db[n].A_PROGCMD = NULL]

\* A session ends; with LOGOUT the descriptor goes back to the login screen.
EndSession(t, d) ==
  LET n == t.desc[d].player
      counted == [t EXCEPT !.db[n].CIF_TOTALTIME = @ + TimeOf(t, d)]
      left == LeaveProgram([announce_disconnect(counted, d) EXCEPT
                              !.desc[d].flags = @ \ {"CONNECTED"}], d)
  IN IF "CONNECTED" \in t.desc[d].flags THEN left ELSE t

shutdownsock(t, d) ==
  LET u == EndSession(t, d)
  IN [u EXCEPT !.desc[d] = Freed, !.list = SelectSeq(@, LAMBDA e : e # d)]

\* shutdownsock with R_LOGOUT.
LoggedOut(t, d) ==
  LET u == EndSession(t, d)
  IN IF "CONNECTED" \notin t.desc[d].flags THEN shutdownsock(t, d)
     ELSE [u EXCEPT !.desc[d] = [@ EXCEPT !.connected_at = now, !.last_time = now, !.player = 0]]

boot_off(t, n) == FoldLeft(shutdownsock, t, Chain(t, n))

-----------------------------------------------------------------------------
(* Guests *)

\* create_player takes a free number; none may be left within the bound.
FreeNumber(t) ==
  LET free == {n \in Number : t.db[n].type = "free"}
  IN IF free = {} THEN NOTHING ELSE Min(free)

GuestsNamed(t) == {n \in Number : t.db[n].type = "player" /\ t.db[n].guest}

\* The new guest, or NOTHING when all names are taken or no player can be created.
MakeGuestChar(t) ==
  IF Cardinality(GuestsNamed(t)) >= number_guests THEN NOTHING ELSE FreeNumber(t)

With(t, n, player) == IF n = NOTHING THEN t ELSE [t EXCEPT !.db[n] = player]

Unfit(t, n) == ~isPlayer(t, n) \/ ~t.db[n].guest

\* Mutant: the first guest of the pool is taken, connected or not.
Usable_Connected(t, i) == TRUE

Usable(t, i) == Unfit(t, t.Guests[i]) \/ ~Connected(t, t.Guests[i])

\* Guest.Create: the first guest of the pool who is free, or a new one.
\* [state |-> ..., guest |-> his number or NOTHING]
CreateGuest(t) ==
  LET usable == {i \in DOMAIN t.Guests : Usable(t, i)}
      i == Min(usable)
      made == MakeGuestChar(t)
      new == With(t, made, Player(FALSE, TRUE))
  IN IF usable # {} /\ Unfit(t, t.Guests[i])
     THEN [state |-> [new EXCEPT !.Guests[i] = made], guest |-> made]
     ELSE IF usable # {}
     THEN [state |-> [t EXCEPT !.db[t.Guests[i]].flags = {}],
           guest |-> t.Guests[i]]
     ELSE IF Len(t.Guests) >= number_guests \/ made = NOTHING
     THEN [state |-> t, guest |-> NOTHING]
     ELSE [state |-> [new EXCEPT !.Guests = Append(@, made)], guest |-> made]

\* Mutant: the sessions of the player are not ended.
destroy_player_Online(t, n) == [t EXCEPT !.db[n] = Garbage]

\* Nothing is left of a player but his number.
destroy_player(t, n) == [boot_off(t, n) EXCEPT !.db[n] = Garbage]

\* The first entries of the pool are replaced where they are unfit.
Replaced(t) ==
  LET Fix(u, i) ==
        IF ~Unfit(u, u.Guests[i]) THEN u
        ELSE [With(u, MakeGuestChar(u), Player(FALSE, TRUE)) EXCEPT !.Guests[i] = MakeGuestChar(u)]
  IN FoldLeft(Fix, t, [i \in 1 .. Min({min_guests, Len(t.Guests)}) |-> i])

\* PASS 1: each connected guest changes places with the first entry that is not his kind.
Sorted(pool, on) ==
  LET Swap(a, i) ==
        IF a.pool[i] \notin on THEN a
        ELSE [pool |-> [a.pool EXCEPT ![a.next] = a.pool[i], ![i] = a.pool[a.next]],
              next |-> a.next + 1]
      rest == [i \in 1 .. Len(pool) - min_guests |-> min_guests + i]
  IN FoldLeft(Swap, [pool |-> pool, next |-> min_guests + 1], rest).pool

\* Mutant: the pool is cut to its minimum.
Kept_Minimum(pool, extra) == SubSeq(pool, 1, min_guests)

\* The pool without its last entries, as many as were extra.
Kept(pool, extra) == SubSeq(pool, 1, Len(pool) - Cardinality(extra))

\* Guest.CleanUp: PASS 2 destroys those beyond the minimum who are not connected.
CleanUp(t) ==
  LET u == Replaced(t)
      on == {n \in Number : Connected(u, n)}
      pool == Sorted(u.Guests, on)
      extra == {i \in DOMAIN pool : i > min_guests /\ pool[i] \notin on}
      Doom(v, n) == IF Unfit(v, n) THEN v ELSE destroy_player(v, n)
      trimmed == FoldSet(LAMBDA i, v : Doom(v, pool[i]), u, extra)
  IN IF Len(t.Guests) <= min_guests THEN u
     ELSE [trimmed EXCEPT !.Guests = Kept(pool, extra)]

\* Guest.StartUp of a new process.
StartUp(t) ==
  LET More(u, i) ==
        IF Len(u.Guests) >= min_guests \/ MakeGuestChar(u) = NOTHING THEN u
        ELSE [With(u, MakeGuestChar(u), Player(FALSE, TRUE)) EXCEPT
                !.Guests = Append(@, MakeGuestChar(u))]
  IN FoldLeft(More, [t EXCEPT !.Guests = SetToSortSeq(GuestsNamed(t), <)],
              [i \in 1 .. min_guests |-> i])

CheckGuest(t, n) == n \in Range(t.Guests)

Purged(t) ==
  LET going == {n \in Number : isPlayer(t, n) /\ "GOING" \in t.db[n].flags}
  IN FoldSet(LAMBDA n, u : destroy_player(u, n), t, going)

make_freelist(t) ==
  [t EXCEPT !.db = [n \in Number |-> IF @[n].type = "garbage" THEN Unused ELSE @[n]]]

-----------------------------------------------------------------------------
Init ==
  /\ s = StartUp(Start)
  /\ now = 0
  /\ online = [n \in Number |-> 0]
  /\ dimmed = {} /\ carried = {}

\* How long each player is online once the clock is at t.
Elapsed(t) == [n \in Number |-> online[n] + (IF Sessions(s, n) # {} THEN t - now ELSE 0)]

\* A restart puts the descriptors at the login screen into the chain of #0, where
\* they stay when they log in; an idle login screen then wakes them.
Plain(t, players) == {n \in players : Sessions(t, n) \cap OnChain(t, 0) = {}}

\* What the histories forget when the state becomes t.
Forget(t) ==
  /\ online' = [n \in Number |-> IF isPlayer(t, n) THEN online[n] ELSE 0]
  /\ dimmed' = {n \in Plain(t, dimmed) : isPlayer(t, n) /\ "DARK" \in t.db[n].flags}
  /\ carried' = {n \in carried : isPlayer(t, n) \/ Sessions(t, n) # {}}

Becomes(t) == s' = t /\ UNCHANGED now /\ Forget(t)

Tick ==
  /\ now < MaxTime
  /\ now' = now + 1
  /\ online' = Elapsed(now + 1)
  /\ UNCHANGED <<s, dimmed, carried>>

new_connection(d) ==
  /\ ~s.desc[d].open
  /\ Becomes([s EXCEPT !.desc[d] = Fresh(now), !.list = <<d>> \o @])

\* Bytes arrive: the player is no longer dark for being idle.
Awake(t, d) ==
  LET k == t.desc[d].player
      awake == OnChain(t, k)
      lit == [t EXCEPT !.desc = [e \in Descriptor |->
                                   IF e \in awake THEN [@[e] EXCEPT !.flags = @ \ {"AUTODARK"}]
                                   ELSE @[e]]]
  IN IF "AUTODARK" \notin t.desc[d].flags THEN t
     ELSE IF k = 0 THEN lit ELSE [lit EXCEPT !.db[k].flags = @ \ {"DARK"}]

process_input(d) ==
  /\ s.desc[d].open /\ ~s.desc[d].line
  /\ Becomes([Awake(s, d) EXCEPT !.desc[d].line = TRUE])

\* The end of input is found by reading, or an error by writing.
SocketDied(d) ==
  s.desc[d].open /\ (Becomes(shutdownsock(Awake(s, d), d)) \/ Becomes(shutdownsock(s, d)))

\* Task_ProcessCommand takes the line and looks at the clock.
HasLine(d) == s.desc[d].line
Taken(d) == [s EXCEPT !.desc[d].line = FALSE, !.desc[d].last_time = now]

Quit(d) == HasLine(d) /\ Becomes(shutdownsock(Taken(d), d))

Logout(d) == HasLine(d) /\ Becomes(LoggedOut(Taken(d), d))

Command(d) == HasLine(d) /\ "CONNECTED" \in s.desc[d].flags /\ Becomes(Taken(d))

-----------------------------------------------------------------------------
(* Logging in *)

AtLogin(d) == HasLine(d) /\ "CONNECTED" \notin s.desc[d].flags

\* Mutant: the new session does not join the program.
Joined_Not(t, d) == t

\* The new session joins the program of the others.
Joined(t, d) ==
  LET programs == {t.desc[e].program_data : e \in OnChain(t, t.desc[d].player)} \ {NULL}
  IN IF programs = {} THEN t ELSE [t EXCEPT !.desc[d].program_data = CHOOSE b \in programs : TRUE]

\* Player n behind descriptor d, at the next tick.
Login(t, d, n, dark) ==
  LET in == [t EXCEPT !.desc[d].flags = @ \cup {"CONNECTED"}, !.desc[d].connected_at = now + 1,
                      !.desc[d].player = n]
      off == IF t.db[n].guest THEN {"DARK"} ELSE {}
  IN /\ now < MaxTime
     /\ now' = now + 1
     /\ s' = [desc_addhash(Joined(in, d), d) EXCEPT
                !.db[n].flags = ((@ \cup {"CONNECTED"}) \cup dark) \ off]
     /\ online' = Elapsed(now + 1)
     /\ dimmed' = dimmed \ {n}
     /\ UNCHANGED carried

\* failconn, or the last retry: the descriptor is closed.
Refused(t, d) == Becomes(shutdownsock(t, d))

\* A wrong password, or a name that cannot be created; it may have been the last retry.
BadLogin(d) == AtLogin(d) /\ (Becomes(Taken(d)) \/ Refused(Taken(d), d))

Full == Cardinality(Online(s)) >= max_players

check_connect(d) ==
  /\ AtLogin(d)
  /\ \E n \in Number :
       /\ isPlayer(s, n) /\ ~CheckGuest(s, n)
       /\ IF Full /\ ~s.db[n].wizard THEN Refused(Taken(d), d)
          ELSE \E cd \in BOOLEAN :
                 Login(Taken(d), d, n, IF cd /\ s.db[n].wizard THEN {"DARK"} ELSE {})

check_connect_guest(d) ==
  LET got == CreateGuest(Taken(d))
  IN /\ AtLogin(d)
     /\ IF got.guest = NOTHING THEN Becomes(got.state)
        ELSE IF Full THEN Refused(got.state, d)
        ELSE Login(got.state, d, got.guest, {})

\* "create" compares with > where "connect" asks for <.
Overfull == Cardinality(Online(s)) > max_players

check_connect_create(d) ==
  LET n == FreeNumber(s)
  IN /\ AtLogin(d)
     /\ IF Overfull THEN Refused(Taken(d), d)
        ELSE n # NOTHING /\ Login(With(Taken(d), n, Player(FALSE, FALSE)), d, n, {})

-----------------------------------------------------------------------------
(* @program *)

ProgramOf(t, n) == IF t.htab[n] = NULL THEN NULL ELSE t.desc[t.htab[n]].program_data

\* Every session of n waits for program b.
Waiting(t, n, b) ==
  [t EXCEPT !.desc = [d \in Descriptor |->
                        IF d \in OnChain(t, n) THEN [@[d] EXCEPT !.program_data = b] ELSE @[d]]]

Cleared(t, n) ==
  LET b == ProgramOf(t, n)
      u == [t EXCEPT !.db[n].A_PROGCMD = NULL]
  IN IF b = NULL THEN u ELSE [Waiting(u, n, NULL) EXCEPT !.prog[b] = NULL]

\* The command of by is stored even when another program is pending.
do_prog(by, n) ==
  LET stored == [s EXCEPT !.db[n].A_PROGCMD = by]
  IN /\ isPlayer(s, by) /\ Connected(s, n) /\ (s.db[by].wizard \/ by = n)
     /\ IF \E d \in OnChain(s, n) : s.desc[d].program_data # NULL THEN Becomes(stored)
        ELSE \E b \in Program :
               /\ s.prog[b] = NULL
               /\ Becomes([Waiting(stored, n, b) EXCEPT !.prog[b] = by])

do_quitprog(by, n) ==
  /\ isPlayer(s, by) /\ Connected(s, n) /\ (s.db[by].wizard \/ by = n)
  /\ \E d \in OnChain(s, n) : s.desc[d].program_data # NULL
  /\ Becomes(Cleared(s, n))

\* A line that does not start with | goes to the program, which ends.
handle_prog(d) ==
  /\ HasLine(d) /\ s.desc[d].program_data # NULL
  /\ Becomes(Cleared(Taken(d), s.desc[d].player))

-----------------------------------------------------------------------------
(* Idle sessions, booting, destruction, restart *)

Idle(t, d) == now - t.desc[d].last_time > idle_timeout

\* No session of the wizard is active.
Asleep(t, n) == \A d \in OnChain(t, n) : Idle(t, d)

\* What check_idle does about one descriptor.
IdleChecked(t, d) ==
  LET e == t.desc[d]
      n == e.player
      dark == [t EXCEPT !.db[n].flags = @ \cup {"DARK"},
                        !.desc = [x \in Descriptor |->
                                    IF x \in OnChain(t, n)
                                    THEN [@[x] EXCEPT !.flags = @ \cup {"AUTODARK"}] ELSE @[x]]]
  IN IF "AUTODARK" \in e.flags THEN t
     ELSE IF "CONNECTED" \notin e.flags
     THEN IF now - e.connected_at > conn_timeout THEN shutdownsock(t, d) ELSE t
     ELSE IF ~t.db[n].wizard THEN IF Idle(t, d) THEN shutdownsock(t, d) ELSE t
     ELSE IF "DARK" \notin t.db[n].flags /\ Idle(t, d) /\ Asleep(t, n) THEN dark ELSE t

check_idle ==
  LET t == FoldLeft(IdleChecked, s, s.list)
      darkened == {n \in Number : "DARK" \in t.db[n].flags \ s.db[n].flags /\ t.db[n].wizard}
  IN /\ s' = t
     /\ dimmed' = Plain(t, dimmed \cup darkened)
     /\ UNCHANGED <<now, online, carried>>

do_boot(n) == isPlayer(s, n) /\ s.htab[n] # NULL /\ Becomes(boot_off(s, n))

\* A wizard sets himself DARK or not; what check_idle meant is then moot.
SetDark(n) ==
  /\ isPlayer(s, n) /\ s.db[n].wizard
  /\ s' = [s EXCEPT !.db[n].flags = IF "DARK" \in @ THEN @ \ {"DARK"} ELSE @ \cup {"DARK"}]
  /\ dimmed' = dimmed \ {n}
  /\ UNCHANGED <<now, online, carried>>

do_pcreate ==
  /\ FreeNumber(s) # NOTHING
  /\ Becomes(With(s, FreeNumber(s), Player(FALSE, FALSE)))

\* Wizards are out of reach of each other.
do_destroy(n) ==
  /\ isPlayer(s, n) /\ ~s.db[n].wizard /\ "GOING" \notin s.db[n].flags
  /\ \/ Becomes([s EXCEPT !.db[n].flags = @ \cup {"GOING"}])
     \/ Becomes(destroy_player(s, n))

do_dbck == Becomes(make_freelist(Purged(CleanUp(s))))

\* The recurring check cleans up the pool last; a new guest may get the number of
\* a player whom it purged.
Cleaned(t, u) ==
  /\ s' = u
  /\ online' = [n \in Number |-> IF isPlayer(t, n) /\ isPlayer(s', n) THEN online[n] ELSE 0]
  /\ dimmed' = {n \in Plain(s', dimmed) : isPlayer(t, n)}
  /\ carried' = {n \in carried : isPlayer(s', n) \/ Sessions(s', n) # {}}
  /\ UNCHANGED now

PurgedThenCleaned(t) == Cleaned(t, CleanUp(t))

dispatch_FreeListReconstruction == PurgedThenCleaned(make_freelist(Purged(s)))

\* load_restart_db: chains are built anew, programs and typed lines are lost.
Loaded(t) ==
  LET bare == [t EXCEPT
                !.desc = [d \in Descriptor |->
                            [@[d] EXCEPT !.hashnext = NULL, !.program_data = NULL, !.line = FALSE]],
                !.htab = [k \in Key |-> NULL],
                !.prog = [b \in Program |-> NULL],
                !.db = [n \in Number |-> [@[n] EXCEPT !.flags = @ \ {"CONNECTED"}]]]
      back == make_freelist(Purged(StartUp(bare)))
      Add(u, d) ==
        LET n == u.desc[d].player
            added == desc_addhash(u, d)
        IN IF isPlayer(u, n) THEN [added EXCEPT !.db[n].flags = @ \cup {"CONNECTED"}] ELSE added
      all == FoldLeft(Add, back, t.list)
      lost == SelectSeq(t.list, LAMBDA d : d \in Online(all) /\ ~isPlayer(all, all.desc[d].player))
  IN IF lost = <<>> THEN all ELSE shutdownsock(all, lost[1])

do_restart ==
  LET kept == {s.desc[d].player : d \in Online(s)}
  IN /\ s' = Loaded(s)
     /\ online' = [n \in Number |-> IF isPlayer(s', n) THEN online[n] ELSE 0]
     /\ dimmed' = {n \in dimmed : isPlayer(s', n)}
     /\ carried' = IF Cardinality(Online(s)) < 2 THEN carried ELSE carried \cup kept
     /\ UNCHANGED now

-----------------------------------------------------------------------------
Connection(d) ==
  \/ new_connection(d) \/ process_input(d) \/ SocketDied(d)
  \/ Quit(d) \/ Logout(d) \/ Command(d) \/ handle_prog(d)
  \/ BadLogin(d) \/ check_connect(d) \/ check_connect_guest(d) \/ check_connect_create(d)

Order(n) ==
  \/ do_boot(n) \/ SetDark(n) \/ do_destroy(n)
  \/ \E by \in Number : do_prog(by, n) \/ do_quitprog(by, n)

Server == Tick \/ check_idle \/ do_pcreate \/ do_dbck \/ dispatch_FreeListReconstruction \/ do_restart

Next == (\E d \in Descriptor : Connection(d)) \/ (\E n \in Number : Order(n)) \/ Server

Spec == Init /\ [][Next]_vars
-----------------------------------------------------------------------------
TypeOK ==
  /\ s.desc \in [Descriptor ->
       [open : BOOLEAN, flags : SUBSET {"CONNECTED", "AUTODARK"}, player : Key,
        hashnext : Descriptor \cup {NULL}, program_data : Program \cup {NULL},
        connected_at : 0 .. MaxTime, last_time : 0 .. MaxTime, line : BOOLEAN]]
  /\ s.list \in Seq(Descriptor)
  /\ s.htab \in [Key -> Descriptor \cup {NULL}]
  /\ s.db \in [Number ->
       [type : {"player", "garbage", "free"}, wizard : BOOLEAN, guest : BOOLEAN,
        flags : SUBSET {"CONNECTED", "DARK", "GOING"}, CIF_TOTALTIME : Nat,
        A_PROGCMD : Number \cup {NULL}]]
  /\ s.prog \in [Program -> Number \cup {NULL}]
  /\ s.Guests \in Seq(Number \cup {NOTHING})
  /\ now \in 0 .. MaxTime /\ online \in [Number -> 0 .. MaxTime]
  /\ dimmed \subseteq Number /\ carried \subseteq Number

\* The chain of a player is exactly his sessions, each once, and he is CONNECTED
\* when he has one: messages, @boot and the counts of sessions all go by it
\* (netcommon.cpp:555): unless a restart carried
\* two sessions, of which load_restart_db may leave one to a player it purged.
ChainsExact ==
  \A n \in Number \ carried :
    /\ OnChain(s, n) = Sessions(s, n) /\ IsInjective(Chain(s, n))
    /\ isPlayer(s, n) => (Connected(s, n) <=> Sessions(s, n) # {})

\* Nobody plays as a player who was destroyed, or as whoever got his number,
\* the sessions that such a restart left behind excepted.
SessionsLive ==
  \A d \in Online(s) : s.desc[d].player \in carried \/ isPlayer(s, s.desc[d].player)

\* Descriptors, chains and players agree on who is connected (netcommon.cpp:555).
SessionsExact == TypeOK /\ ChainsExact /\ SessionsLive

\* All sessions of a player wait for the same program, as the assertions of
\* check_connect and handle_prog demand; a PROG block is held by the sessions of
\* one player, who has its command, and is freed with the last of them.
ProgramsHeld ==
  /\ \A n \in Number : \A d, e \in Sessions(s, n) :
       s.desc[d].program_data = s.desc[e].program_data
  /\ \A b \in Program :
       LET holders == {d \in Descriptor : s.desc[d].program_data = b}
       IN /\ (s.prog[b] = NULL) <=> (holders = {})
          /\ \A d, e \in holders : s.desc[d].player = s.desc[e].player
          /\ \A d \in holders : s.db[s.desc[d].player].A_PROGCMD # NULL

\* The total of A_CONNINFO and what the open sessions will add is the time the
\* player was online, however his sessions overlapped: unless a restart turned
\* round the chain of several sessions, in which find_oldest sees one only.
TimeExact ==
  \A n \in Number \ carried : isPlayer(s, n) =>
    LET since == {s.desc[d].connected_at : d \in Sessions(s, n)}
    IN s.db[n].CIF_TOTALTIME + (IF since = {} THEN 0 ELSE now - Min(since)) = online[n]

\* A wizard whom idleness made DARK, and who has not logged in since, is DARK no
\* more once he is gone, and any session of his will wake him (netcommon.cpp:1350):
\* unless a restart left a session of his in the chain of #0.
DarkEnds ==
  \A n \in dimmed :
    /\ Sessions(s, n) # {}
    /\ \A d \in Sessions(s, n) : "AUTODARK" \in s.desc[d].flags

\* A guest of the pool has one session at most, although anybody may ask for one.
GuestsAlone == \A n \in Range(s.Guests) \ carried : isPlayer(s, n) /\ s.db[n].guest =>
  Cardinality(Sessions(s, n)) <= 1

\* A guest who is connected is in the pool, or else his password, which is the
\* same for all, would let anybody in (Guest.CheckGuest, Guest.CleanUp).
GuestsPooled ==
  \A n \in Number : Connected(s, n) /\ s.db[n].guest => CheckGuest(s, n)

\* The pool of guests serves those who ask for one, each with a guest of his own
\* (mguests.cpp:211).
GuestsServed == GuestsAlone /\ GuestsPooled
=============================================================================
