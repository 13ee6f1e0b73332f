---------------------------- MODULE ChannelsProofs ----------------------------
(***************************************************************************)
(* The invariants of Channels, for any objects, channels and aliases.      *)
(* They are proved together: a list is sound because users are, users are  *)
(* found through aliases, and what a dump wrote must be fit to be loaded.  *)
(***************************************************************************)
EXTENDS Channels, TLAPS

ConnectedPlayers == \A o \in connected : kind[o] = "player"

\* The files of a dump can be loaded at any time.
Loadable(f) ==
  /\ f \in Image
  /\ \A n \in Name : \A o \in f.users[n] \ f.stray[n] :
       n \in f.channels /\ \E a \in Alias : f.comsys[o][a] = n
  /\ f.whole => \A n \in f.channels : f.kind[f.charge_who[n]] # "garbage"

UsersInv == ListSound /\ MembersAliased /\ GarbageOnNone /\ MembersHear /\ QuietWhenGone

IInv ==
  /\ TypeOK
  /\ UsersInv
  /\ OwnersLive
  /\ ConnectedPlayers
  /\ Loadable(child.image) /\ Loadable(file)

LEMMA InitInv == Init => IInv
<1> SUFFICES ASSUME Init PROVE IInv
  OBVIOUS
<1> USE ChannelsAssumption DEF Init
<1>1. file \in Image /\ child.image = file /\ child.stage = "none"
  BY DEF Image, Kinds, NoAliases, Nobody
<1>2. TypeOK
  BY <1>1 DEF TypeOK, Kinds, NoAliases, NoLinks, Nobody
<1>3. UsersInv
  BY DEF UsersInv, ListSound, MembersAliased, GarbageOnNone, MembersHear, QuietWhenGone, NoLinks,
         NoAliases, Nobody
<1>4. OwnersLive /\ ConnectedPlayers
  BY DEF OwnersLive, ConnectedPlayers
<1>5. Loadable(file)
  BY <1>1 DEF Loadable, Nobody
<1> QED
  BY <1>1, <1>2, <1>3, <1>4, <1>5 DEF IInv

LEMMA CreateChannelInv ==
  ASSUME IInv, NEW p \in Object, NEW n \in Name, do_createchannel(p, n)
  PROVE  IInv'
  BY DEF do_createchannel, Live, people, disk, IInv, TypeOK, UsersInv, ListSound, MembersAliased,
         GarbageOnNone, MembersHear, UNDEAD, QuietWhenGone, OwnersLive, ConnectedPlayers, Aliased

LEMMA DestroyChannelInv ==
  ASSUME IInv, NEW p \in Object, NEW n \in Name, do_destroychannel(p, n)
  PROVE  IInv'
  BY DEF do_destroychannel, Freed, Emptied, NoLinks, people, disk, IInv, TypeOK, UsersInv, ListSound, MembersAliased,
         GarbageOnNone, MembersHear, UNDEAD, QuietWhenGone, OwnersLive, ConnectedPlayers, Aliased

LEMMA AddcomInv ==
  ASSUME IInv, NEW p \in Object, NEW a \in Alias, NEW n \in Name, do_addcom(p, a, n)
  PROVE  IInv'
<1>1. /\ UNCHANGED <<people, channels, charge_who, disk, stray, fresh, deaf>> /\ n \in channels
      /\ comsys[p][a] = NoName /\ kind[p] # "garbage"
      /\ comsys' = [comsys EXCEPT ![p] = [@ EXCEPT ![a] = n]]
      /\ TypeOK
  BY DEF do_addcom, Live, IInv
<1>2. \/ UNCHANGED <<users, bUserIsOn, on_users>>
      \/ /\ p \notin users[n]
         /\ users' = With(users, p, n) /\ bUserIsOn' = With(bUserIsOn, p, n)
         /\ on_users' = IF UNDEAD(p) THEN Linked(p, n) ELSE on_users
  BY DEF do_addcom, do_joinchannel
<1>3. \A o \in Object, b \in Alias : comsys'[o][b] = IF o = p /\ b = a THEN n ELSE comsys[o][b]
  BY <1>1 DEF TypeOK
<1>4. UsersInv /\ ListSound /\ MembersAliased /\ GarbageOnNone /\ MembersHear /\ QuietWhenGone
  BY DEF IInv, UsersInv
<1>5. comsys' \in [Object -> [Alias -> Name \cup {NoName}]]
  BY <1>1 DEF TypeOK
<1>6. CASE UNCHANGED <<users, bUserIsOn, on_users>>
  <2>1. TypeOK'
    BY <1>1, <1>5, <1>6 DEF TypeOK, people, disk
  <2>2. MembersAliased'
    BY <1>1, <1>3, <1>4, <1>6, ChannelsAssumption DEF MembersAliased
  <2>3. GarbageOnNone' /\ ListSound' /\ MembersHear' /\ QuietWhenGone'
    BY <1>1, <1>3, <1>4, <1>6 DEF GarbageOnNone, ListSound, MembersHear, UNDEAD, QuietWhenGone, people
  <2> QED
    BY <2>1, <2>2, <2>3, <1>1 DEF IInv, UsersInv, OwnersLive, ConnectedPlayers, people, disk
<1>7. CASE /\ p \notin users[n]
           /\ users' = With(users, p, n) /\ bUserIsOn' = With(bUserIsOn, p, n)
           /\ on_users' = IF UNDEAD(p) THEN Linked(p, n) ELSE on_users
  <2>1. \A m \in Name : users'[m] = IF m = n THEN users[n] \cup {p} ELSE users[m]
    BY <1>1, <1>7 DEF With, TypeOK
  <2>2. /\ users' \in [Name -> SUBSET Object] /\ bUserIsOn' \in [Name -> SUBSET Object]
        /\ on_users' \in [Name -> [Object -> Nat]]
    <3>1. on_users \in [Name -> [Object -> Nat]] /\ [on_users[n] EXCEPT ![p] = @ + 1] \in [Object -> Nat]
      BY <1>1 DEF TypeOK
    <3>2. Linked(p, n) \in [Name -> [Object -> Nat]]
      BY <3>1 DEF Linked
    <3> QED
      BY <1>1, <1>7, <3>1, <3>2 DEF With, TypeOK
  <2>3. TypeOK'
    BY <1>1, <1>5, <2>2 DEF TypeOK, people, disk
  <2>4. \A m \in Name, o \in Object :
          /\ on_users[m][o] \in Nat
          /\ on_users'[m][o] = IF UNDEAD(p) /\ m = n /\ o = p THEN on_users[m][o] + 1 ELSE on_users[m][o]
    <3>1. CASE UNDEAD(p)
      <4>1. on_users' = [on_users EXCEPT ![n] = [on_users[n] EXCEPT ![p] = @ + 1]]
        BY <1>7, <3>1 DEF Linked
      <4>2. on_users \in [Name -> [Object -> Nat]]
        BY <1>1 DEF TypeOK
      <4>3. \A m \in Name : on_users'[m] = IF m = n THEN [on_users[n] EXCEPT ![p] = @ + 1] ELSE on_users[m]
        BY <4>1, <4>2
      <4> QED
        BY <3>1, <4>2, <4>3
    <3>2. CASE ~UNDEAD(p)
      BY <1>1, <1>7, <3>2 DEF TypeOK
    <3> QED
      BY <3>1, <3>2
  <2>5. on_users[n][p] = 0
    BY <1>4, <1>7, <2>4 DEF ListSound
  <2>6. ListSound'
    BY <1>4, <2>1, <2>4, <2>5 DEF ListSound
  <2>7. MembersAliased'
    BY <1>1, <1>3, <1>4, <2>1, ChannelsAssumption DEF MembersAliased
  <2>8. GarbageOnNone'
    BY <1>1, <1>3, <1>4, <2>1 DEF GarbageOnNone, people
  <2>9. MembersHear'
    <3> SUFFICES ASSUME NEW m \in Name, NEW o \in users'[m] \ (stray[m] \cup deaf[m]), UNDEAD(o)
                 PROVE  on_users'[m][o] = 1
      BY <1>1 DEF MembersHear, UNDEAD, people
    <3>1. o \in Object
      BY <2>2
    <3>2. CASE m = n /\ o = p
      BY <2>4, <2>5, <3>1, <3>2
    <3>3. CASE ~(m = n /\ o = p)
      <4>1. o \in users[m]
        BY <2>1, <3>3
      <4> QED
        BY <1>4, <2>4, <3>1, <3>3, <4>1 DEF MembersHear
    <3> QED
      BY <3>2, <3>3
  <2>10. QuietWhenGone'
    BY <1>1, <1>4, <2>4 DEF QuietWhenGone, UNDEAD, people
  <2> QED
    BY <2>3, <2>6, <2>7, <2>8, <2>9, <2>10, <1>1
    DEF IInv, UsersInv, OwnersLive, ConnectedPlayers, people, disk
<1> QED
  BY <1>2, <1>6, <1>7

LEMMA DelcomInv ==
  ASSUME IInv, NEW p \in Object, NEW a \in Alias, do_delcom(p, a)
  PROVE  IInv'
  BY DEF do_delcom, do_delcomchannel, Without, Unlinked, Live, people, disk, IInv, TypeOK, UsersInv, ListSound, MembersAliased,
         GarbageOnNone, MembersHear, UNDEAD, QuietWhenGone, OwnersLive, ConnectedPlayers, Aliased

LEMMA BootInv ==
  ASSUME IInv, NEW p \in Object, NEW n \in Name, NEW victim \in Object, do_chboot(p, n, victim)
  PROVE  IInv'
  BY DEF do_chboot, do_delcomchannel, Without, Unlinked, people, disk, IInv, TypeOK, UsersInv, ListSound, MembersAliased,
         GarbageOnNone, MembersHear, UNDEAD, QuietWhenGone, OwnersLive, ConnectedPlayers, Aliased

\* A list of who hears cuts links, and those of members are excepted then.
LEMMA ComwhoInv ==
  ASSUME IInv, NEW ns \in SUBSET Name, NEW hidden \in SUBSET Absent, do_comwho(ns, hidden),
         UNCHANGED <<people, channels, charge_who, users, comsys, disk, stray, fresh>>
  PROVE  UsersInv' /\ on_users' \in [Name -> [Object -> Nat]] /\ deaf' \in [Name -> SUBSET Object]
<1> DEFINE cut == (Absent \ hidden) \cup Purgeable(kind, going)
<1>1. TypeOK /\ ListSound /\ MembersAliased /\ GarbageOnNone /\ MembersHear /\ QuietWhenGone
      /\ UNCHANGED <<kind, going, connected>>
  BY DEF IInv, UsersInv, people
<1>2. /\ on_users' = [n \in Name |->
                       IF n \in ns THEN [o \in Object |-> IF o \in cut THEN 0 ELSE on_users[n][o]]
                       ELSE on_users[n]]
      /\ deaf' = [n \in Name |->
                   IF n \in ns THEN deaf[n] \cup {o \in users[n] \cap cut : kind[o] = "thing"}
                   ELSE deaf[n]]
  BY DEF do_comwho
<1>3. \A o \in cut : o \in Object /\ (kind[o] = "player" => o \notin connected)
  BY DEF Absent, Purgeable
<1> HIDE DEF cut
<1>4. \A n \in Name, o \in Object :
        /\ on_users[n][o] \in Nat
        /\ on_users'[n][o] = IF n \in ns /\ o \in cut THEN 0 ELSE on_users[n][o]
  BY <1>1, <1>2 DEF TypeOK
<1>5. on_users' \in [Name -> [Object -> Nat]] /\ deaf' \in [Name -> SUBSET Object]
  <2>1. \A n \in Name : [o \in Object |-> IF o \in cut THEN 0 ELSE on_users[n][o]] \in [Object -> Nat]
    BY <1>4
  <2> QED
    BY <1>1, <1>2, <2>1 DEF TypeOK
<1>6. ListSound' /\ MembersAliased' /\ GarbageOnNone' /\ QuietWhenGone'
  BY <1>1, <1>4 DEF ListSound, MembersAliased, GarbageOnNone, QuietWhenGone
<1>7. MembersHear'
  <2> SUFFICES ASSUME NEW n \in Name, NEW o \in users[n] \ (stray[n] \cup deaf'[n]), UNDEAD(o)
               PROVE  on_users'[n][o] = 1
    BY <1>1 DEF MembersHear, UNDEAD
  <2>1. o \in Object /\ o \notin deaf[n] /\ on_users[n][o] = 1
    BY <1>1, <1>2 DEF TypeOK, MembersHear
  <2>2. ~(n \in ns /\ o \in cut)
    <3> SUFFICES ASSUME n \in ns, o \in cut PROVE FALSE
      OBVIOUS
    <3>1. kind[o] # "thing"
      BY <1>2
    <3>2. o \in connected /\ kind[o] # "player"
      BY <1>3, <3>1 DEF UNDEAD
    <3> QED
      BY <3>2 DEF IInv, ConnectedPlayers
  <2> QED
    BY <1>4, <2>1, <2>2
<1> QED
  BY <1>1, <1>5, <1>6, <1>7 DEF UsersInv

LEMMA ProcesscomInv ==
  ASSUME IInv, NEW p \in Object, NEW ns \in SUBSET Name, NEW word, do_processcom(p, ns, word)
  PROVE  IInv'
<1> DEFINE found == ns \cap Joined(p)
<1>1. UNCHANGED <<people, channels, charge_who, users, comsys, disk, stray, fresh>>
  BY DEF do_processcom
<1>2. /\ UsersInv' /\ on_users' \in [Name -> [Object -> Nat]] /\ deaf' \in [Name -> SUBSET Object]
      /\ bUserIsOn' \in [Name -> SUBSET Object]
  <2>1. CASE /\ UNCHANGED <<on_users, deaf>>
             /\ \/ bUserIsOn' = [n \in Name |-> bUserIsOn[n] \cup IF n \in found THEN {p} ELSE {}]
                \/ bUserIsOn' = Without(bUserIsOn, p, found)
    <3>1. UsersInv'
      BY <1>1, <2>1 DEF IInv, people, UsersInv, ListSound, MembersAliased, GarbageOnNone,
         MembersHear, UNDEAD, QuietWhenGone
    <3>2. bUserIsOn' \in [Name -> SUBSET Object]
      <4> HIDE DEF found
      <4> QED
        BY <2>1 DEF Without, IInv, TypeOK
    <3> QED
      BY <2>1, <3>1, <3>2 DEF IInv, TypeOK
  <2>2. CASE /\ \E hidden \in SUBSET Absent :
                  do_comwho({n \in found : p \in bUserIsOn[n]}, hidden)
             /\ UNCHANGED bUserIsOn
    <3>1. PICK hidden \in SUBSET Absent : do_comwho({n \in found : p \in bUserIsOn[n]}, hidden)
      BY <2>2
    <3>2. {n \in found : p \in bUserIsOn[n]} \in SUBSET Name
      OBVIOUS
    <3> QED
      BY <1>1, <2>2, <3>1, <3>2, ComwhoInv DEF IInv, TypeOK
  <2> QED
    BY <2>1, <2>2 DEF do_processcom
<1> QED
  BY <1>1, <1>2 DEF IInv, TypeOK, OwnersLive, ConnectedPlayers, people, disk

LEMMA EditchannelInv ==
  ASSUME IInv, NEW p \in Object, NEW n \in Name, NEW owner \in Object, do_editchannel(p, n, owner)
  PROVE  IInv'
  BY DEF do_editchannel, people, disk, IInv, TypeOK, UsersInv, ListSound, MembersAliased,
         GarbageOnNone, MembersHear, UNDEAD, QuietWhenGone, OwnersLive, ConnectedPlayers

LEMMA ConnectInv ==
  ASSUME IInv, NEW p \in Object, announce_connect(p)
  PROVE  IInv'
<1>1. /\ UNCHANGED <<kind, going, channels, charge_who, users, bUserIsOn, comsys, disk, stray, fresh, deaf>>
      /\ kind[p] = "player" /\ p \notin connected /\ connected' = connected \cup {p}
      /\ TypeOK
  BY DEF announce_connect, IInv
<1>2. ListSound /\ MembersAliased /\ GarbageOnNone /\ MembersHear /\ QuietWhenGone
  BY DEF IInv, UsersInv
<1>3. on_users' \in [Name -> [Object -> Nat]]
  BY <1>1 DEF announce_connect, do_comconnect, TypeOK
<1>4. \A n \in Name, o \in Object :
        /\ on_users[n][o] \in Nat
        /\ on_users'[n][o] = IF o = p /\ n \in Joined(p) /\ on_users[n][p] = 0 THEN 1 ELSE on_users[n][o]
  BY <1>1 DEF announce_connect, do_comconnect, TypeOK
<1>5. TypeOK'
  BY <1>1, <1>3 DEF TypeOK, disk
<1>6. ListSound'
  BY <1>1, <1>2, <1>4 DEF ListSound, Joined
<1>7. MembersAliased' /\ GarbageOnNone'
  BY <1>1, <1>2 DEF MembersAliased, GarbageOnNone
<1>8. \A n \in Name : p \in users[n] \ stray[n] => n \in Joined(p)
  BY <1>2, <1>1 DEF MembersAliased, Joined, Aliased, TypeOK
<1>9. MembersHear'
  <2> SUFFICES ASSUME NEW n \in Name, NEW o \in users[n] \ (stray[n] \cup deaf[n]), o \in Object,
                      kind[o] = "thing" \/ o \in connected \cup {p}
               PROVE  on_users'[n][o] = 1
    BY <1>1 DEF MembersHear, UNDEAD, TypeOK
  <2>1. on_users[n][o] \in Nat /\ on_users[n][o] <= 1
    BY <1>2, <1>4 DEF ListSound
  <2>2. CASE o = p
    BY <1>4, <1>8, <2>1, <2>2
  <2>3. CASE o # p
    BY <1>2, <1>4, <2>3 DEF MembersHear, UNDEAD
  <2> QED
    BY <2>2, <2>3
<1>10. QuietWhenGone'
  BY <1>1, <1>2, <1>4 DEF QuietWhenGone
<1>11. OwnersLive' /\ ConnectedPlayers' /\ Loadable(child.image)' /\ Loadable(file)'
  BY <1>1 DEF IInv, OwnersLive, ConnectedPlayers, disk
<1> QED
  BY <1>5, <1>6, <1>7, <1>9, <1>10, <1>11 DEF IInv, UsersInv

LEMMA DisconnectInv ==
  ASSUME IInv, NEW p \in Object, announce_disconnect(p)
  PROVE  IInv'
  BY DEF announce_disconnect, do_comdisconnect, Unlinked, Aliased, disk, IInv, TypeOK, UsersInv,
         ListSound, MembersAliased, GarbageOnNone, MembersHear, UNDEAD, QuietWhenGone, OwnersLive,
         ConnectedPlayers, Kinds

LEMMA CreateInv ==
  ASSUME IInv, NEW o \in Object, NEW k \in {"player", "thing"}, create_obj(o, k)
  PROVE  IInv'
<1>1. /\ UNCHANGED <<going, connected, channels, charge_who, users, bUserIsOn, on_users, comsys,
                     disk, stray, fresh, deaf>>
      /\ kind[o] = "garbage" /\ kind' = [kind EXCEPT ![o] = k]
      /\ TypeOK
  BY DEF create_obj, IInv
<1>2. ListSound /\ MembersAliased /\ GarbageOnNone /\ MembersHear /\ QuietWhenGone
  BY DEF IInv, UsersInv
<1>3. \A p \in Object : kind'[p] = IF p = o THEN k ELSE kind[p]
  BY <1>1 DEF TypeOK
<1>4. TypeOK'
  BY <1>1 DEF TypeOK, disk, Kinds
<1>5. ListSound' /\ MembersAliased' /\ GarbageOnNone'
  BY <1>1, <1>2, <1>3 DEF ListSound, MembersAliased, GarbageOnNone
<1>6. MembersHear'
  BY <1>1, <1>2, <1>3 DEF MembersHear, UNDEAD, GarbageOnNone, TypeOK
<1>7. QuietWhenGone'
  <2> SUFFICES ASSUME NEW n \in Name, NEW p \in Object, kind'[p] = "player",
                      p \notin connected \cup fresh \cup stray[n]
               PROVE  on_users[n][p] = 0
    BY <1>1 DEF QuietWhenGone
  <2>1. CASE p = o
    \* Nobody links a number that was given up.
    <3>1. on_users[n][o] \in Nat /\ on_users[n][o] <= 1 /\ o \notin users[n]
      BY <1>1, <1>2, <2>1 DEF GarbageOnNone, ListSound, TypeOK
    <3> QED
      BY <1>2, <2>1, <3>1 DEF ListSound
  <2>2. CASE p # o
    BY <1>2, <1>3, <2>2 DEF QuietWhenGone
  <2> QED
    BY <2>1, <2>2
<1>8. OwnersLive' /\ ConnectedPlayers' /\ Loadable(child.image)' /\ Loadable(file)'
  BY <1>1, <1>3 DEF IInv, OwnersLive, ConnectedPlayers, disk, TypeOK
<1> QED
  BY <1>4, <1>5, <1>6, <1>7, <1>8 DEF IInv, UsersInv

LEMMA DoomInv ==
  ASSUME IInv, NEW o \in Object, Doom(o)
  PROVE  IInv'
  BY DEF Doom, disk, IInv, TypeOK, UsersInv,
         ListSound, MembersAliased, GarbageOnNone, MembersHear, UNDEAD, QuietWhenGone, OwnersLive,
         ConnectedPlayers, Kinds

LEMMA SpareInv ==
  ASSUME IInv, NEW o \in Object, Spare(o)
  PROVE  IInv'
  BY DEF Spare, disk, IInv, TypeOK, UsersInv,
         ListSound, MembersAliased, GarbageOnNone, MembersHear, UNDEAD, QuietWhenGone, OwnersLive,
         ConnectedPlayers, Kinds

LEMMA DestroyInv ==
  ASSUME IInv, NEW o \in Object, destroy_obj(o)
  PROVE  IInv'
<1>1. TypeOK /\ UsersInv /\ OwnersLive /\ ConnectedPlayers /\ Loadable(child.image) /\ Loadable(file)
  BY DEF IInv
<1> DEFINE nuked == do_channelnuke(o)
<1>2. /\ channels' = channels \ nuked /\ UNCHANGED <<connected, charge_who, child, file, torn>>
      /\ kind' = [kind EXCEPT ![o] = "garbage"] /\ comsys' = [comsys EXCEPT ![o] = NoAliases[o]]
      /\ going' = going \ {o} /\ fresh' = fresh \ {o} /\ o \notin connected
  BY DEF destroy_obj, ReleaseAllResources, disk
<1>3. \A n \in Name :
        /\ users'[n] = IF n \in nuked THEN {} ELSE IF n \in Joined(o) THEN users[n] \ {o} ELSE users[n]
        /\ bUserIsOn'[n] = IF n \in nuked THEN {} ELSE IF n \in Joined(o) THEN bUserIsOn[n] \ {o} ELSE bUserIsOn[n]
        /\ stray'[n] = IF n \in nuked THEN {} ELSE IF n \in Joined(o) THEN stray[n] \ {o} ELSE stray[n]
        /\ deaf'[n] = IF n \in nuked THEN {} ELSE IF n \in Joined(o) THEN deaf[n] \ {o} ELSE deaf[n]
  BY DEF destroy_obj, ReleaseAllResources, Emptied, Without
\* The links of others stay, and those of the object can only go.
<1>4. \A n \in Name : \A p \in Object :
        /\ on_users'[n][p] \in Nat
        /\ n \in nuked => on_users'[n][p] = 0
        /\ n \notin nuked /\ p # o => on_users'[n][p] = on_users[n][p]
        /\ on_users'[n][o] <= on_users[n][o]
        /\ n \in Joined(o) => on_users'[n][o] = 0
  <2> SUFFICES ASSUME NEW n \in Name, NEW p \in Object
               PROVE  /\ on_users'[n][p] \in Nat
                      /\ n \in nuked => on_users'[n][p] = 0
                      /\ n \notin nuked /\ p # o => on_users'[n][p] = on_users[n][p]
                      /\ on_users'[n][o] <= on_users[n][o]
                      /\ n \in Joined(o) => on_users'[n][o] = 0
    OBVIOUS
  <2> DEFINE l == Unlinked(o, Aliased(o) \cap channels)[n]
  <2>1. on_users[n] \in [Object -> Nat] /\ on_users[n][o] <= 1
    BY <1>1 DEF TypeOK, UsersInv, ListSound
  <2>2. /\ l \in [Object -> Nat] /\ l[o] <= on_users[n][o] /\ \A x \in Object : x # o => l[x] = on_users[n][x]
        /\ n \in Joined(o) => l[o] = 0
    BY <2>1 DEF Unlinked, Joined
  <2>3. on_users'[n] = IF n \in nuked THEN NoLinks[n]
                       ELSE IF n \in Joined(o) /\ l[o] > 0 THEN [l EXCEPT ![o] = @ - 1] ELSE l
    BY DEF destroy_obj, ReleaseAllResources
  <2> HIDE DEF l, nuked
  <2> QED
    BY <2>1, <2>2, <2>3 DEF NoLinks
<1>5. nuked \subseteq channels /\ \A n \in channels \ nuked : charge_who[n] # o
  BY DEF do_channelnuke
<1> HIDE DEF nuked
<1>6. TypeOK'
  <2>1. on_users' \in [Name -> [Object -> Nat]]
    <3>1. \A n \in Name : DOMAIN on_users'[n] = Object
      BY <1>1 DEF destroy_obj, ReleaseAllResources, Unlinked, NoLinks, TypeOK
    <3>2. \A n \in Name : on_users'[n] \in [Object -> Nat]
      BY <1>1, <1>4, <3>1 DEF destroy_obj, ReleaseAllResources, Unlinked, NoLinks, TypeOK
    <3> QED
      BY <1>1, <3>2 DEF destroy_obj, ReleaseAllResources, TypeOK
  <2>2. comsys' \in [Object -> [Alias -> Name \cup {NoName}]]
    BY <1>1, <1>2 DEF TypeOK, NoAliases
  <2>3. /\ users' \in [Name -> SUBSET Object] /\ bUserIsOn' \in [Name -> SUBSET Object]
        /\ stray' \in [Name -> SUBSET Object] /\ deaf' \in [Name -> SUBSET Object]
    BY <1>1 DEF destroy_obj, ReleaseAllResources, Emptied, Without, TypeOK
  <2> QED
    BY <1>1, <1>2, <2>1, <2>2, <2>3 DEF TypeOK, Kinds
<1>7. \A n \in Name : o \in users[n] => o \in stray[n] \/ n \in Joined(o)
  BY <1>1 DEF UsersInv, MembersAliased, Joined, Aliased
<1>8. ListSound'
  <2> SUFFICES ASSUME NEW n \in Name, NEW p \in Object
               PROVE  on_users'[n][p] <= 1 /\ (on_users'[n][p] = 1 => p \in users'[n])
    BY DEF ListSound
  <2>1. on_users[n][p] \in Nat /\ on_users[n][p] <= 1 /\ (on_users[n][p] = 1 => p \in users[n])
    BY <1>1 DEF TypeOK, UsersInv, ListSound
  <2>2. CASE on_users'[n][p] = 0
    BY <2>2
  <2>3. CASE on_users'[n][p] # 0
    <3>1. n \notin nuked /\ (n \in Joined(o) => p # o) /\ on_users'[n][p] <= on_users[n][p]
      BY <1>4, <2>1, <2>3
    <3>2. on_users'[n][p] \in Nat
      BY <1>4
    <3>3. p \in users[n] => p \in users'[n]
      BY <1>3, <3>1
    <3> QED
      BY <2>1, <3>1, <3>2, <3>3
  <2> QED
    BY <2>2, <2>3
<1>9. ASSUME NEW n \in Name, NEW p \in users'[n] \ stray'[n]
      PROVE  p # o /\ n \notin nuked /\ p \in users[n] \ stray[n] /\ p \in Object
  BY <1>1, <1>3, <1>7, <1>9 DEF TypeOK
<1>10. MembersAliased' /\ GarbageOnNone'
  <2>1. MembersAliased'
    BY <1>1, <1>2, <1>9 DEF TypeOK, UsersInv, MembersAliased
  <2>2. ASSUME NEW p \in Object, kind'[p] = "garbage", NEW n \in Name, p \in users'[n]
        PROVE  p \in stray'[n]
    BY <1>1, <1>2, <1>9, <2>2 DEF TypeOK, UsersInv, GarbageOnNone
  <2>3. ASSUME NEW p \in Object, kind'[p] = "garbage", NEW a \in Alias
        PROVE  comsys'[p][a] = NoName
    BY <1>1, <1>2, <2>3 DEF TypeOK, UsersInv, GarbageOnNone, NoAliases
  <2> QED
    BY <2>1, <2>2, <2>3 DEF GarbageOnNone
<1>11. MembersHear' /\ QuietWhenGone'
  <2>1. ASSUME NEW n \in Name, NEW p \in users'[n] \ (stray'[n] \cup deaf'[n]), UNDEAD(p)'
        PROVE  on_users'[n][p] = 1
    <3>0. p # o /\ n \notin nuked /\ p \in users[n] \ stray[n] /\ p \in Object
      BY <1>9, <2>1
    <3>1. p \notin deaf[n] /\ UNDEAD(p)
      BY <1>1, <1>2, <1>3, <2>1, <3>0 DEF TypeOK, UNDEAD
    <3> QED
      BY <1>1, <1>4, <3>0, <3>1 DEF UsersInv, MembersHear
  <2>2. ASSUME NEW n \in Name, NEW p \in Object, kind'[p] = "player",
               p \notin connected' \cup fresh' \cup stray'[n]
        PROVE  on_users'[n][p] = 0
    <3>1. p # o /\ kind[p] = "player" /\ p \notin connected \cup fresh
      BY <1>1, <1>2, <2>2 DEF TypeOK
    <3>2. n \notin nuked => p \notin stray[n]
      BY <1>3, <2>2, <3>1
    <3> QED
      BY <1>1, <1>4, <3>1, <3>2 DEF UsersInv, QuietWhenGone
  <2> QED
    BY <2>1, <2>2 DEF MembersHear, QuietWhenGone
<1>12. OwnersLive' /\ ConnectedPlayers' /\ Loadable(child.image)' /\ Loadable(file)'
  BY <1>1, <1>2, <1>5 DEF TypeOK, OwnersLive, ConnectedPlayers
<1> QED
  BY <1>6, <1>8, <1>10, <1>11, <1>12 DEF IInv, UsersInv

\* What is written can be loaded.
LEMMA SavedLoadable == ASSUME IInv PROVE Loadable(Saved)
<1> DEFINE c == purge_comsystem(comsys, kind, going)
<1> DEFINE lost == Purgeable(kind, going)
<1>1. \A o \in Object : c[o] = IF o \in lost THEN NoAliases[o] ELSE comsys[o]
  BY DEF purge_comsystem
<1>2. TypeOK /\ MembersAliased /\ OwnersLive
  BY DEF IInv, UsersInv
<1>3. c \in [Object -> [Alias -> Name \cup {NoName}]]
  <2>1. NoAliases \in [Object -> [Alias -> Name \cup {NoName}]]
    BY DEF NoAliases
  <2> QED
    BY <2>1, <1>2 DEF purge_comsystem, TypeOK
<1>4. [n \in Name |-> stray[n] \cup (users[n] \cap lost)] \in [Name -> SUBSET Object]
  BY <1>2 DEF TypeOK
<1>5. Saved \in Image
  <2> HIDE DEF c
  <2> QED
    BY <1>2, <1>3, <1>4 DEF Saved, Image, TypeOK, c
<1>6. \A n \in Name : \A o \in users[n] \ (stray[n] \cup (users[n] \cap lost)) :
        n \in channels /\ \E a \in Alias : c[o][a] = n
  <2> HIDE DEF c, lost
  <2> QED
    BY SMTT(30), <1>1, <1>2 DEF MembersAliased, TypeOK
<1>7. /\ Saved.users = users /\ Saved.channels = channels /\ Saved.comsys = c
      /\ Saved.stray = [n \in Name |-> stray[n] \cup (users[n] \cap lost)]
      /\ Saved.kind = kind /\ Saved.charge_who = charge_who /\ Saved.whole = ~torn
  BY DEF Saved
<1> HIDE DEF c, lost
<1>8. \A n \in Name : \A o \in Saved.users[n] \ Saved.stray[n] :
        n \in Saved.channels /\ \E a \in Alias : Saved.comsys[o][a] = n
  BY <1>6, <1>7
<1>9. Saved.whole => \A n \in Saved.channels : Saved.kind[Saved.charge_who[n]] # "garbage"
  BY <1>2, <1>7 DEF OwnersLive
<1> QED
  BY <1>5, <1>8, <1>9 DEF Loadable

LEMMA ForkInv ==
  ASSUME IInv, fork_and_dump
  PROVE  IInv'
  BY SavedLoadable DEF fork_and_dump, people, IInv, TypeOK, UsersInv, ListSound, MembersAliased,
         GarbageOnNone, MembersHear, UNDEAD, QuietWhenGone, OwnersLive, ConnectedPlayers, Loadable

LEMMA ReplaceInv ==
  ASSUME IInv, ReplaceFile
  PROVE  IInv'
<1>1. /\ Loadable(file)' /\ Loadable(child.image)' /\ child'.stage \in {"none", "comsys"}
  <2>1. CASE /\ file' = [file EXCEPT !.kind = child.image.kind, !.going = child.image.going,
                                     !.whole = FALSE]
             /\ child' = [child EXCEPT !.stage = "comsys"]
    <3>1. child'.image = child.image /\ child'.stage = "comsys"
      BY <2>1 DEF IInv, Loadable, TypeOK
    <3>2. file' \in Image /\ file'.whole = FALSE
      BY <2>1 DEF IInv, Loadable, Image
    <3>3. UNCHANGED <<file.users, file.stray, file.channels, file.comsys>>
      BY <2>1 DEF IInv, Loadable, Image
    <3> QED
      BY <3>1, <3>2, <3>3 DEF IInv, Loadable
  <2>2. CASE file' = child.image /\ child' = [stage |-> "none", image |-> file']
    BY <2>2 DEF IInv, Loadable
  <2> QED
    BY <2>1, <2>2 DEF ReplaceFile
<1>2. UNCHANGED <<people, channels, charge_who, users, bUserIsOn, on_users, comsys,
                 stray, fresh, torn, deaf>>
  BY DEF ReplaceFile
<1> QED
  BY <1>1, <1>2 DEF people, IInv, TypeOK, UsersInv, ListSound, MembersAliased,
         GarbageOnNone, MembersHear, UNDEAD, QuietWhenGone, OwnersLive, ConnectedPlayers, Loadable

\* After a load whoever is a user is linked, and is found by his aliases
\* unless these were purged.
LEMMA LoadInv ==
  ASSUME NEW f, Loadable(f), load_comsys(f)
  PROVE  /\ ListSound' /\ MembersAliased' /\ GarbageOnNone' /\ MembersHear' /\ QuietWhenGone'
         /\ OwnersLive'
<1> DEFINE found == [n \in Name |-> {o \in f.users[n] : f.kind[o] # "garbage"}]
           lost == Purgeable(f.kind, f.going)
<1>1. /\ kind' = f.kind /\ channels' = f.channels /\ charge_who' = f.charge_who
      /\ users' = found
      /\ on_users' = [n \in Name |-> [o \in Object |-> IF o \in found[n] THEN 1 ELSE 0]]
      /\ comsys' = purge_comsystem(f.comsys, f.kind, f.going)
      /\ stray' = [n \in Name |-> found[n] \cap (f.stray[n] \cup lost)]
      /\ fresh' = {o \in Object : f.kind[o] = "player"}
      /\ torn' = ~f.whole
  BY DEF load_comsys
<1>2. \A n \in Name : f.users[n] \subseteq Object
  BY DEF Loadable, Image
<1>3. \A n \in Name, o \in Object : /\ o \in users'[n] <=> o \in f.users[n] /\ f.kind[o] # "garbage"
                                   /\ on_users'[n][o] = IF o \in users'[n] THEN 1 ELSE 0
  BY <1>1
<1>4. \A n \in Name : users'[n] \subseteq Object
  BY <1>1, <1>2
<1>5. \A o \in Object, b \in Alias : comsys'[o][b] = IF o \in lost THEN NoName ELSE f.comsys[o][b]
  BY <1>1 DEF purge_comsystem, NoAliases
<1>6. \A n \in Name, o \in Object :
        o \in stray'[n] <=> o \in users'[n] /\ (o \in f.stray[n] \/ o \in lost)
  BY <1>1
<1> HIDE DEF found, lost
<1>7. ListSound' /\ MembersHear'
  BY <1>3, <1>4 DEF ListSound, MembersHear
<1>8. MembersAliased'
  BY <1>1, <1>3, <1>4, <1>5, <1>6 DEF MembersAliased, Loadable
<1>9. GarbageOnNone'
  BY <1>1, <1>3, <1>5 DEF GarbageOnNone, lost, Purgeable
<1>10. QuietWhenGone'
  BY <1>1 DEF QuietWhenGone
<1>11. OwnersLive'
  BY <1>1 DEF OwnersLive, Loadable
<1> QED
  BY <1>7, <1>8, <1>9, <1>10, <1>11

\* and everything is of its type.
LEMMA LoadType ==
  ASSUME NEW f, Loadable(f), load_comsys(f), connected' \subseteq Object,
         child'.stage = "none", child'.image \in Image, file' \in Image
  PROVE  TypeOK'
<1>1. /\ kind' \in [Object -> Kinds] /\ going' \subseteq Object /\ fresh' \subseteq Object
      /\ channels' \subseteq Name /\ charge_who' \in [Name -> Object] /\ torn' \in BOOLEAN
  BY DEF load_comsys, Loadable, Image
<1>2. /\ users' \in [Name -> SUBSET Object] /\ bUserIsOn' \in [Name -> SUBSET Object]
      /\ stray' \in [Name -> SUBSET Object] /\ deaf' \in [Name -> SUBSET Object]
  BY DEF Nobody, load_comsys, Loadable, Image
<1>3. on_users' \in [Name -> [Object -> Nat]]
  BY DEF load_comsys
<1>4. comsys' \in [Object -> [Alias -> Name \cup {NoName}]]
  BY DEF load_comsys, Loadable, Image, purge_comsystem, NoAliases
<1> QED
  BY <1>1, <1>2, <1>3, <1>4 DEF TypeOK

LEMMA RestartInv ==
  ASSUME IInv, do_restart
  PROVE  IInv'
<1>1. /\ Loadable(Saved) /\ load_comsys(Saved) /\ connected' = connected
      /\ file' = Saved /\ child'.stage = "none" /\ child'.image = Saved
  BY SavedLoadable DEF do_restart
<1>2. connected' \subseteq Object /\ Saved \in Image
  BY <1>1 DEF IInv, TypeOK, Loadable
<1>3. TypeOK'
  BY <1>1, <1>2, LoadType
<1>4. UsersInv' /\ OwnersLive'
  BY <1>1, LoadInv DEF UsersInv
<1>5. kind' = kind
  BY <1>1 DEF load_comsys, Saved
<1>6. ConnectedPlayers'
  BY <1>1, <1>5 DEF IInv, ConnectedPlayers
<1>7. Loadable(file)' /\ Loadable(child.image)'
  BY <1>1 DEF Loadable
<1> QED
  BY <1>3, <1>4, <1>6, <1>7 DEF IInv

LEMMA CrashInv ==
  ASSUME IInv, Crash
  PROVE  IInv'
<1>1. /\ Loadable(file) /\ load_comsys(file) /\ connected' = {}
      /\ file' = file /\ child'.stage = "none" /\ child'.image = file
  BY DEF Crash, IInv
<1>2. TypeOK'
  BY <1>1, LoadType DEF Loadable
<1>3. UsersInv' /\ OwnersLive'
  BY <1>1, LoadInv DEF UsersInv
<1>4. Loadable(file)' /\ Loadable(child.image)'
  BY <1>1 DEF Loadable
<1> QED
  BY <1>1, <1>2, <1>3, <1>4 DEF IInv, ConnectedPlayers

-----------------------------------------------------------------------------
LEMMA StepInv == IInv /\ [Next]_vars => IInv'
<1> SUFFICES ASSUME IInv, [Next]_vars PROVE IInv'
  OBVIOUS
<1>1. ASSUME NEW p \in Object, Command(p) PROVE IInv'
  BY <1>1, CreateChannelInv, DestroyChannelInv, AddcomInv, BootInv, EditchannelInv, DelcomInv, ProcesscomInv
  DEF Command, do_comsystem, do_allcom
<1>2. ASSUME NEW o \in Object, Coming(o) PROVE IInv'
  BY <1>2, ConnectInv, DisconnectInv, CreateInv, DoomInv, SpareInv, DestroyInv DEF Coming
<1>3. CASE Dumping
  BY <1>3, ForkInv, ReplaceInv, RestartInv, CrashInv DEF Dumping
<1>4. CASE UNCHANGED vars
  BY <1>4 DEF vars, IInv, TypeOK, UsersInv, ListSound, MembersAliased, GarbageOnNone, MembersHear,
              UNDEAD, QuietWhenGone, OwnersLive, ConnectedPlayers, Loadable
<1> QED
  BY <1>1, <1>2, <1>3, <1>4 DEF Next

\* Everything that the run "channels" checks, for any database.
THEOREM ChannelsInvariant == Spec => []IInv
  BY InitInv, StepInv, PTL DEF Spec

\* Members who are there are linked once, those who are not are not, and no record
\* that was freed is linked: whatever "who" has cut, which is a thing of God's that is
\* doomed (deaf) and nobody else who should hear.  What a dump or a load has taken the
\* aliases of (stray) is excepted too.
THEOREM AudienceIsExact == Spec => []Audience
<1>1. IInv => Audience
  BY DEF IInv, UsersInv, Audience
<1> QED
  BY <1>1, ChannelsInvariant, PTL

\* Whoever is on a channel can be found through his aliases, a number given up is
\* on no channel, and the owner of a channel is not garbage.
THEOREM MembersAreReachable == Spec => []Reachable
<1>1. IInv => Reachable
  BY DEF IInv, UsersInv, Reachable
<1> QED
  BY <1>1, ChannelsInvariant, PTL
=============================================================================
