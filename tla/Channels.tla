------------------------------- MODULE Channels -------------------------------
(***************************************************************************)
(* Chat channels (comsys.cpp): a channel has an array of users and, inside *)
(* it, a linked list of those who hear it; every object has aliases for    *)
(* the channels it joined.  What an object joined is found again through   *)
(* its aliases only: when it connects, disconnects, leaves or is destroyed.*)
(*                                                                         *)
(* Abstracted: titles, headers, charges, recall, the channel object; locks *)
(* may refuse anybody.  Sorted arrays are sets and functions.              *)
(***************************************************************************)
EXTENDS Integers, FiniteSets

CONSTANTS
  Object,        \* numbers of the database
  Name, NoName,  \* names of channels; what an alias that is not used names
  Alias,
  GOD,
  Comm_All,      \* numbers that are, or will be, of wizards
  OfGod,         \* numbers that belong to God when they are things
  MAX_ALIASES_PER_PLAYER,
  MAX_USERS_PER_CHANNEL

ASSUME ChannelsAssumption ==
  /\ GOD \in Object /\ GOD \in Comm_All /\ Comm_All \subseteq Object /\ OfGod \subseteq Object
  /\ NoName \notin Name
  /\ MAX_ALIASES_PER_PLAYER \in Nat /\ MAX_USERS_PER_CHANNEL \in Nat

VARIABLES
  kind,          \* number -> "player", "thing" or "garbage"
  going,         \* things marked for destruction
  connected,     \* players with a connection
  channels,      \* mudstate.channel_htab
  charge_who,    \* name -> owner of the channel
  users,         \* name -> ch->users
  bUserIsOn,     \* name -> users who have not said "off"
  on_users,      \* name -> how often each object is linked in ch->on_users
  comsys,        \* object -> alias -> name of a channel, or NoName
  child,         \* the dump under way
  file,          \* the object file and the comsys file
  stray, fresh, torn,  \* history: see MembersAliased, QuietWhenGone, OwnersLive
  deaf                 \* history: see MembersHear

people == <<kind, going, connected>>
disk == <<child, file, torn>>
vars == <<kind, going, connected, channels, charge_who, users, bUserIsOn, on_users, comsys,
          child, file, stray, fresh, torn, deaf>>

Kinds == {"player", "thing", "garbage"}
NoAliases == [o \in Object |-> [a \in Alias |-> NoName]]
NoLinks == [n \in Name |-> [o \in Object |-> 0]]
Nobody == [n \in Name |-> {}]

Image == [kind : [Object -> Kinds], going : SUBSET Object, channels : SUBSET Name,
          charge_who : [Name -> Object], users : [Name -> SUBSET Object],
          bUserIsOn : [Name -> SUBSET Object], comsys : [Object -> [Alias -> Name \cup {NoName}]],
          stray : [Name -> SUBSET Object], whole : BOOLEAN]

Init ==
  /\ kind = [o \in Object |-> IF o = GOD THEN "player" ELSE "garbage"]
  /\ going = {} /\ connected = {}
  /\ channels = {}
  /\ charge_who = [n \in Name |-> GOD]
  /\ users = Nobody /\ bUserIsOn = Nobody
  /\ on_users = NoLinks
  /\ comsys = NoAliases
  /\ file = [kind |-> kind, going |-> {}, channels |-> {}, charge_who |-> charge_who,
             users |-> Nobody, bUserIsOn |-> Nobody, comsys |-> NoAliases, stray |-> Nobody,
             whole |-> TRUE]
  /\ child = [stage |-> "none", image |-> file]
  /\ stray = Nobody /\ fresh = {} /\ torn = FALSE /\ deaf = Nobody

-----------------------------------------------------------------------------
\* Connected players and objects that are not garbage are ok.
UNDEAD(o) == kind[o] = "thing" \/ o \in connected

\* Who can run commands.
Live(o) == kind[o] # "garbage" /\ o \notin going

Controls(p, n) == p = charge_who[n] \/ p \in Comm_All

\* The channels that the aliases of o name.
Aliased(o) == {comsys[o][a] : a \in Alias} \cap Name

\* Those of them where o can be found.
Joined(o) == {n \in Aliased(o) : n \in channels /\ o \in users[n]}

\* One more user, or listener, of a channel.
With(sets, o, n) == [sets EXCEPT ![n] = @ \cup {o}]
Linked(o, n) == [on_users EXCEPT ![n][o] = @ + 1]

\* One user less in each of these channels.
Without(sets, o, ns) == [n \in Name |-> IF n \in ns THEN sets[n] \ {o} ELSE sets[n]]

\* Mutant: whoever joins is linked, connected or not.
do_joinchannel_Unconnected(o, n) ==
  /\ users' = With(users, o, n)
  /\ bUserIsOn' = With(bUserIsOn, o, n)
  /\ on_users' = IF o \in users[n] THEN on_users ELSE Linked(o, n)

\* Mutant: only the players who are connected are linked.
do_joinchannel_PlayersOnly(o, n) ==
  /\ users' = With(users, o, n)
  /\ bUserIsOn' = With(bUserIsOn, o, n)
  /\ on_users' = IF o \notin users[n] /\ o \in connected THEN Linked(o, n) ELSE on_users

\* A new user, unless the channel is full; or one who was off is on again.
do_joinchannel(o, n) ==
  IF o \notin users[n]
  THEN IF Cardinality(users[n]) >= MAX_USERS_PER_CHANNEL
       THEN UNCHANGED <<users, bUserIsOn, on_users>>
       ELSE /\ users' = With(users, o, n)
            /\ bUserIsOn' = With(bUserIsOn, o, n)
            /\ on_users' = IF UNDEAD(o) THEN Linked(o, n) ELSE on_users
  ELSE /\ bUserIsOn' = With(bUserIsOn, o, n)
       /\ UNCHANGED <<users, on_users>>

\* Mutant: a link is cut without looking for it.
Unlinked_Unfound(o, ns) ==
  [n \in Name |-> IF n \in ns THEN [on_users[n] EXCEPT ![o] = @ - 1] ELSE on_users[n]]

\* do_comdisconnectchannel of o in each of these channels: the first link is cut.
Unlinked(o, ns) ==
  [n \in Name |-> IF n \in ns /\ on_users[n][o] > 0 THEN [on_users[n] EXCEPT ![o] = @ - 1]
                  ELSE on_users[n]]

\* do_delcomchannel of o in each of these channels: of those that exist, where o is found.
do_delcomchannel(o, ns) ==
  LET out == {n \in ns \cap channels : o \in users[n]}
  IN /\ users' = Without(users, o, out)
     /\ bUserIsOn' = Without(bUserIsOn, o, out)
     /\ on_users' = Unlinked(o, out)
     /\ stray' = Without(stray, o, out) /\ deaf' = Without(deaf, o, out)

\* A set of each channel, after some channels were freed.
Emptied(sets, ns) == [n \in Name |-> IF n \in ns THEN {} ELSE sets[n]]

\* The channels and their users are freed.
Freed(ns) ==
  /\ channels' = channels \ ns
  /\ users' = Emptied(users, ns)
  /\ bUserIsOn' = Emptied(bUserIsOn, ns)
  /\ on_users' = [n \in Name |-> IF n \in ns THEN NoLinks[n] ELSE on_users[n]]
  /\ stray' = Emptied(stray, ns) /\ deaf' = Emptied(deaf, ns)

-----------------------------------------------------------------------------
(* Commands.                                                               *)

do_createchannel(p, n) ==
  /\ Live(p) /\ p \in Comm_All
  /\ n \notin channels
  /\ channels' = channels \cup {n}
  /\ charge_who' = [charge_who EXCEPT ![n] = p]
  /\ UNCHANGED <<people, users, bUserIsOn, on_users, comsys, disk, stray, fresh, deaf>>

do_destroychannel(p, n) ==
  /\ Live(p) /\ n \in channels /\ Controls(p, n)
  /\ Freed({n})
  /\ UNCHANGED <<people, charge_who, comsys, disk, fresh>>

\* A new alias for a channel that its lock lets p join.  The alias is kept
\* when the channel turns out to be full.
do_addcom(p, a, n) ==
  /\ Live(p) /\ n \in channels
  /\ Cardinality({b \in Alias : comsys[p][b] # NoName}) < MAX_ALIASES_PER_PLAYER
  /\ comsys[p][a] = NoName
  /\ comsys' = [comsys EXCEPT ![p] = [@ EXCEPT ![a] = n]]
  /\ IF p \notin users[n] THEN do_joinchannel(p, n) ELSE UNCHANGED <<users, bUserIsOn, on_users>>
  /\ UNCHANGED <<people, channels, charge_who, disk, stray, fresh, deaf>>

\* Mutant: an alias is deleted, and the channel never left.
do_delcom_StaysOn(p, a) ==
  /\ Live(p) /\ comsys[p][a] # NoName
  /\ comsys' = [comsys EXCEPT ![p][a] = NoName]
  /\ UNCHANGED <<people, channels, charge_who, users, bUserIsOn, on_users, disk, stray, fresh, deaf>>

\* The last alias of a channel takes its owner off the channel.
do_delcom(p, a) ==
  LET n == comsys[p][a]
  IN /\ Live(p) /\ n # NoName
     /\ do_delcomchannel(p, IF \E b \in Alias \ {a} : comsys[p][b] = n THEN {} ELSE {n})
     /\ comsys' = [comsys EXCEPT ![p] = [@ EXCEPT ![a] = NoName]]
     /\ UNCHANGED <<people, channels, charge_who, disk, fresh>>

\* Garbage, which is God's and going, and what of God's is going.
Purgeable(k, g) == {o \in Object : k[o] = "garbage" \/ (k[o] = "thing" /\ o \in OfGod /\ o \in g)}

\* Players who are not connected.
Absent == {o \in Object : kind[o] = "player" /\ o \notin connected}

\* Mutant: the things of players are cut as well.
do_comwho_Anyones(ns, hidden) ==
  LET cut == (Absent \ hidden) \cup {o \in Object : kind[o] # "player" /\ o \in going}
  IN /\ on_users' = [n \in Name |->
                       IF n \in ns THEN [o \in Object |-> IF o \in cut THEN 0 ELSE on_users[n][o]]
                       ELSE on_users[n]]
     /\ UNCHANGED deaf

\* The list of who hears each of these channels cuts the links of the players
\* who are not connected, unless DARK hides them, and of what will be purged.
do_comwho(ns, hidden) ==
  LET cut == (Absent \ hidden) \cup Purgeable(kind, going)
  IN /\ on_users' = [n \in Name |->
                       IF n \in ns THEN [o \in Object |-> IF o \in cut THEN 0 ELSE on_users[n][o]]
                       ELSE on_users[n]]
     /\ deaf' = [n \in Name |->
                   IF n \in ns THEN deaf[n] \cup {o \in users[n] \cap cut : kind[o] = "thing"}
                   ELSE deaf[n]]

\* "on", "off" and "who", by one alias or, with allcom, by all.
do_processcom(p, ns, word) ==
  LET found == ns \cap Joined(p)
  IN /\ Live(p) /\ found # {}
     /\ \/ /\ word = "on"
           /\ bUserIsOn' = [n \in Name |-> bUserIsOn[n] \cup IF n \in found THEN {p} ELSE {}]
           /\ UNCHANGED <<on_users, deaf>>
        \/ /\ word = "off"
           /\ bUserIsOn' = Without(bUserIsOn, p, found)
           /\ UNCHANGED <<on_users, deaf>>
        \/ /\ word = "who"
           /\ \E hidden \in SUBSET Absent : do_comwho({n \in found : p \in bUserIsOn[n]}, hidden)
           /\ UNCHANGED bUserIsOn
     /\ UNCHANGED <<people, channels, charge_who, users, comsys, disk, stray, fresh>>

do_comsystem(p, word) == \E n \in Name : do_processcom(p, {n}, word)
do_allcom(p, word) == do_processcom(p, Name, word)

\* @cboot leaves the victim its alias.
do_chboot(p, n, victim) ==
  /\ Live(p) /\ n \in channels /\ p \in users[n] /\ Controls(p, n)
  /\ kind[victim] # "garbage" /\ victim \in users[n]
  /\ do_delcomchannel(victim, {n})
  /\ UNCHANGED <<people, channels, charge_who, comsys, disk, fresh>>

\* @cchown, to the owner of somebody.
do_editchannel(p, n, owner) ==
  /\ Live(p) /\ n \in channels /\ Controls(p, n)
  /\ kind[owner] = "player"
  /\ charge_who' = [charge_who EXCEPT ![n] = owner]
  /\ UNCHANGED <<people, channels, users, bUserIsOn, on_users, comsys, disk, stray, fresh, deaf>>

-----------------------------------------------------------------------------
(* Connections and objects.                                                *)

\* Mutant: who is linked already is linked again.
do_comconnect_Again(p) ==
  on_users' = [n \in Name |-> IF n \in Joined(p) THEN [on_users[n] EXCEPT ![p] = @ + 1]
                              ELSE on_users[n]]

do_comconnect(p) ==
  on_users' = [n \in Name |-> IF n \in Joined(p) /\ on_users[n][p] = 0
                              THEN [on_users[n] EXCEPT ![p] = 1] ELSE on_users[n]]

do_comdisconnect(p) == on_users' = Unlinked(p, Aliased(p) \cap channels)

\* The first connection and the end of the last one.
announce_connect(p) ==
  /\ kind[p] = "player" /\ p \notin connected
  /\ connected' = connected \cup {p}
  /\ do_comconnect(p)
  /\ UNCHANGED <<kind, going, channels, charge_who, users, bUserIsOn, comsys, disk, stray, fresh, deaf>>

announce_disconnect(p) ==
  /\ p \in connected
  /\ connected' = connected \ {p}
  /\ do_comdisconnect(p)
  /\ fresh' = fresh \ {p}
  /\ UNCHANGED <<kind, going, channels, charge_who, users, bUserIsOn, comsys, disk, stray, deaf>>

create_obj(o, k) ==
  /\ kind[o] = "garbage"
  /\ kind' = [kind EXCEPT ![o] = k]
  /\ UNCHANGED <<going, connected, channels, charge_who, users, bUserIsOn, on_users, comsys,
                 disk, stray, fresh, deaf>>

\* @destroy of a thing that dbck will destroy later.
Doom(o) ==
  /\ kind[o] = "thing" /\ o \notin going
  /\ going' = going \cup {o}
  /\ UNCHANGED <<kind, connected, channels, charge_who, users, bUserIsOn, on_users, comsys,
                 disk, stray, fresh, deaf>>

\* @set <thing> = !GOING.
Spare(o) ==
  /\ kind[o] = "thing" /\ o \in going
  /\ going' = going \ {o}
  /\ UNCHANGED <<kind, connected, channels, charge_who, users, bUserIsOn, on_users, comsys,
                 disk, stray, fresh, deaf>>

\* Mutant: what the object owned stays.
do_channelnuke_None(o) == {}

\* The channels that do_channelnuke frees.
do_channelnuke(o) == {n \in channels : charge_who[n] = o}

\* Mutant: aliases are forgotten before they are used to leave.
ReleaseAllResources_AliasesFirst(o) ==
  /\ Freed(do_channelnuke(o))
  /\ comsys' = [comsys EXCEPT ![o] = NoAliases[o]]

\* do_comdisconnect, do_clearcom, do_channelnuke and del_comsys, in this order.
\* The first cuts a link in each channel, the second would cut another.
ReleaseAllResources(o) ==
  LET nuked == do_channelnuke(o)
      links == Unlinked(o, Aliased(o) \cap channels)
  IN /\ channels' = channels \ nuked
     /\ users' = Emptied(Without(users, o, Joined(o)), nuked)
     /\ bUserIsOn' = Emptied(Without(bUserIsOn, o, Joined(o)), nuked)
     /\ stray' = Emptied(Without(stray, o, Joined(o)), nuked)
     /\ deaf' = Emptied(Without(deaf, o, Joined(o)), nuked)
     /\ on_users' = [n \in Name |->
                       IF n \in nuked THEN NoLinks[n]
                       ELSE IF n \in Joined(o) /\ links[n][o] > 0 THEN [links[n] EXCEPT ![o] = @ - 1]
                       ELSE links[n]]
     /\ comsys' = [comsys EXCEPT ![o] = NoAliases[o]]

\* A player has been disconnected before.
destroy_obj(o) ==
  /\ o # GOD /\ kind[o] # "garbage" /\ o \notin connected
  /\ ReleaseAllResources(o)
  /\ kind' = [kind EXCEPT ![o] = "garbage"]
  /\ going' = going \ {o}
  /\ fresh' = fresh \ {o}
  /\ UNCHANGED <<connected, charge_who, disk>>

-----------------------------------------------------------------------------
(* Dumps, restarts and crashes.                                            *)

\* The aliases of God's doomed things go, and of garbage.
purge_comsystem(c, k, g) ==
  [o \in Object |-> IF o \in Purgeable(k, g) THEN NoAliases[o] ELSE c[o]]

\* What a dump writes of the present state.
Saved == [kind |-> kind, going |-> going, channels |-> channels, charge_who |-> charge_who,
          users |-> users, bUserIsOn |-> bUserIsOn,
          comsys |-> purge_comsystem(comsys, kind, going),
          stray |-> [n \in Name |-> stray[n] \cup (users[n] \cap Purgeable(kind, going))],
          whole |-> ~torn]

\* A forked dump: only the child's copy is purged.
fork_and_dump ==
  /\ child.stage = "none"
  /\ child' = [stage |-> "objects", image |-> Saved]
  /\ UNCHANGED <<people, channels, charge_who, users, bUserIsOn, on_users, comsys, file,
                 stray, fresh, torn, deaf>>

\* Each file is renamed into place, the one of objects first.
ReplaceFile ==
  /\ \/ /\ child.stage = "objects"
        /\ file' = [file EXCEPT !.kind = child.image.kind, !.going = child.image.going,
                                  !.whole = FALSE]
        /\ child' = [child EXCEPT !.stage = "comsys"]
     \/ /\ child.stage = "comsys"
        /\ file' = child.image
        /\ child' = [stage |-> "none", image |-> file']
  /\ UNCHANGED <<people, channels, charge_who, users, bUserIsOn, on_users, comsys,
                 stray, fresh, torn, deaf>>

\* load_comsys of these files.  All users hear, and things that had said
\* "off" are on again.
load_comsys(f) ==
  LET lost == Purgeable(f.kind, f.going)
      found == [n \in Name |-> {o \in f.users[n] : f.kind[o] # "garbage"}]
  IN /\ kind' = f.kind /\ going' = f.going
     /\ channels' = f.channels /\ charge_who' = f.charge_who
     /\ users' = found
     /\ bUserIsOn' = [n \in Name |-> (f.bUserIsOn[n] \cap found[n])
                                     \cup {o \in found[n] \ lost : f.kind[o] = "thing"}]
     /\ on_users' = [n \in Name |-> [o \in Object |-> IF o \in found[n] THEN 1 ELSE 0]]
     /\ comsys' = purge_comsystem(f.comsys, f.kind, f.going)
     /\ stray' = [n \in Name |-> found[n] \cap (f.stray[n] \cup lost)]
     /\ fresh' = {o \in Object : f.kind[o] = "player"}
     /\ torn' = ~f.whole /\ deaf' = Nobody

\* @restart dumps without a fork and loads; connections are kept.
do_restart ==
  /\ child.stage = "none"
  /\ file' = Saved
  /\ load_comsys(Saved)
  /\ child' = [stage |-> "none", image |-> file']
  /\ UNCHANGED connected

\* The machine stops at any time, with one file of a dump perhaps renamed.
Crash ==
  /\ load_comsys(file)
  /\ connected' = {}
  /\ child' = [stage |-> "none", image |-> file]
  /\ UNCHANGED file

-----------------------------------------------------------------------------
Command(p) ==
  \/ \E n \in Name :
       \/ do_createchannel(p, n)
       \/ do_destroychannel(p, n)
       \/ \E a \in Alias : do_addcom(p, a, n)
       \/ \E q \in Object : do_chboot(p, n, q) \/ do_editchannel(p, n, q)
  \/ \E a \in Alias : do_delcom(p, a)
  \/ \E word \in {"on", "off", "who"} : do_comsystem(p, word) \/ do_allcom(p, word)

Coming(o) ==
  \/ announce_connect(o) \/ announce_disconnect(o)
  \/ \E k \in {"player", "thing"} : create_obj(o, k)
  \/ Doom(o) \/ Spare(o) \/ destroy_obj(o)

Dumping == fork_and_dump \/ ReplaceFile \/ do_restart \/ Crash

Next == (\E o \in Object : Command(o) \/ Coming(o)) \/ Dumping

Spec == Init /\ [][Next]_vars
-----------------------------------------------------------------------------
TypeOK ==
  /\ kind \in [Object -> Kinds]
  /\ going \subseteq Object /\ connected \subseteq Object /\ fresh \subseteq Object
  /\ channels \subseteq Name
  /\ charge_who \in [Name -> Object]
  /\ users \in [Name -> SUBSET Object] /\ bUserIsOn \in [Name -> SUBSET Object]
  /\ stray \in [Name -> SUBSET Object] /\ deaf \in [Name -> SUBSET Object]
  /\ on_users \in [Name -> [Object -> Nat]]
  /\ comsys \in [Object -> [Alias -> Name \cup {NoName}]]
  /\ child.stage \in {"none", "objects", "comsys"} /\ child.image \in Image
  /\ file \in Image
  /\ torn \in BOOLEAN

\* The list of those who hear a channel links nobody twice, which would make
\* it endless, and nobody whose user record was freed (comsys.cpp:2768).
ListSound ==
  \A n \in Name, o \in Object :
    on_users[n][o] <= 1 /\ (on_users[n][o] = 1 => o \in users[n])

\* Whoever is on a channel has an alias for it, by which he is found when he
\* disconnects or is destroyed: unless a purge took his aliases alone.
MembersAliased ==
  \A n \in Name : \A o \in users[n] \ stray[n] :
    n \in channels /\ \E a \in Alias : comsys[o][a] = n

\* A number given up is on no channel and has no alias that the next object of
\* that number would have (ReleaseAllResources).
GarbageOnNone ==
  \A o \in Object : kind[o] = "garbage" =>
    /\ \A n \in Name : o \in users[n] => o \in stray[n]
    /\ \A a \in Alias : comsys[o][a] = NoName

\* A user who is connected, or is a thing, hears the channel, whatever was
\* joined, left and booted while connected or not: unless it is a thing of
\* God's and "who" found it doomed.  Spared or not, it hears again only when it
\* has left and joined, or after a load.
MembersHear ==
  \A n \in Name : \A o \in users[n] \ (stray[n] \cup deaf[n]) : UNDEAD(o) => on_users[n][o] = 1

\* A player who has disconnected since the last load is linked nowhere.
QuietWhenGone ==
  \A n \in Name, o \in Object :
    kind[o] = "player" /\ o \notin connected \cup fresh \cup stray[n] => on_users[n][o] = 0

\* The owner of a channel exists, to be paid and to control it: unless a crash
\* left files of different dumps (do_channelnuke).
OwnersLive ==
  ~torn => \A n \in channels : kind[charge_who[n]] # "garbage"

\* The lists of those who hear hold exactly the members who are there
\* (do_joinchannel, do_comconnectchannel, do_comdisconnectchannel).
Audience == ListSound /\ MembersHear /\ QuietWhenGone

\* Members can be found to be taken off again, and nothing outlives its object
\* (comsys.cpp:2632, ReleaseAllResources).
Reachable == TypeOK /\ MembersAliased /\ GarbageOnNone /\ OwnersLive
=============================================================================
