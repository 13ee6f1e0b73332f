-------------------------------- MODULE Mail --------------------------------
(***************************************************************************)
(* The @mail system (mail.cpp): mailboxes with folders, the bag of message *)
(* bodies that letters share, messages being written, mail aliases, what   *)
(* the destruction of a player releases, and the dump of all of it to a    *)
(* file by a forked child and back.  Each action is one command, run to    *)
(* its end by the single-threaded server; only the child runs beside it.   *)
(*                                                                         *)
(* Abstracted: texts are numbers (the sends, in order of time), locks and  *)
(* throttling may refuse anybody, and selection by age in days is left out *)
(* of message lists (check_mail_expiration has it).                        *)
(***************************************************************************)
EXTENDS Integers, FiniteSets, SequencesExt

CONSTANTS
  Player,        \* numbers that are players, or may become players again
  GOD,
  Wizards,
  AliasNames,
  Folders,       \* 0 .. MAX_FOLDERS
  FlagOps,       \* bound: the flags that are set and cleared by command
  Selectors,     \* bound: the message lists that are given to commands
  MAX_MALIAS_MEMBERSHIP,
  MaxSends,      \* bound: messages sent
  MaxLetters,    \* bound: letters in all mailboxes together
  MaxAliases,    \* bound: mail aliases
  MaxTo,         \* bound: recipients of a message being written
  MaxDumps       \* bound: dumps of the database

ASSUME MailAssumption ==
  /\ GOD \in Wizards /\ Wizards \subseteq Player
  /\ 0 \in Folders

VARIABLES
  players,       \* numbers that are players now
  box,           \* mudstate.mail_htab: number -> the letters, oldest first
  bag, top,      \* mail_list, mudstate.mail_db_top
  folder,        \* A_MAILCURF
  draft,         \* PLAYER_MAILS, A_MAILTO, A_MAILMSG, A_MAILFLAGS
  malias,        \* the mail aliases, in the order of the table
  child,         \* the forked dump: what it has still to write
  file,          \* the files of objects and of mail
  sends, dumps,  \* counted for the bounds; a send is also its text
  leaked, torn   \* history: see RefsExact

vars == <<players, box, bag, top, folder, draft, malias, child, file, sends, dumps, leaked, torn>>
mailbag == <<box, bag, top, sends, leaked>>
disk == <<child, file, dumps, torn>>

NoText == 0
Flags == {"ISREAD", "CLEARED", "URGENT", "SAFE", "TAG", "FORWARD", "REPLY"}
NoDraft == [open |-> FALSE, to |-> << >>, body |-> FALSE, flags |-> {}]
NoLetters == [p \in Player |-> << >>]
NoFile == [players |-> Player, box |-> NoLetters, size |-> 0, text |-> << >>,
           malias |-> << >>, complete |-> TRUE]
NoChild == [stage |-> "none", image |-> NoFile]

Init ==
  /\ players = Player
  /\ box = NoLetters
  /\ bag = << >> /\ top = 0
  /\ folder = [p \in Player |-> 0]
  /\ draft = [p \in Player |-> NoDraft]
  /\ malias = << >>
  /\ child = NoChild /\ file = NoFile
  /\ sends = 0 /\ dumps = 0
  /\ leaked = FALSE /\ torn = FALSE

-----------------------------------------------------------------------------
(* Bodies.                                                                 *)

Letters == UNION {ToSet(box[p]) : p \in Player}

\* MessageReferenceCheck of one body.
MessageReferenceCheck(b) ==
  IF b.refs <= 0 \/ b.text = NoText THEN [refs |-> 0, text |-> NoText] ELSE b

\* Mutant: a body is not freed with its last letter.
MessageReferenceDec_Unchecked(bg, lost) ==
  [i \in DOMAIN bg |-> [bg[i] EXCEPT !.refs = @ - Cardinality({l \in lost : l.number = i})]]

\* MessageReferenceDec for each of these letters.
MessageReferenceDec(bg, lost) ==
  [i \in DOMAIN bg |->
     LET n == Cardinality({l \in lost : l.number = i})
     IN IF n = 0 THEN bg[i] ELSE MessageReferenceCheck([bg[i] EXCEPT !.refs = @ - n])]

\* MessageFetch of the bodies of these letters.
MessageFetch(bg, read) ==
  [i \in DOMAIN bg |->
     IF \E l \in read : l.number = i THEN MessageReferenceCheck(bg[i]) ELSE bg[i]]

\* Mutant: the table is not grown when it is full.
Place_NoGrowth == LET free == {i \in 0 .. top - 1 : bag[i].text = NoText}
                  IN IF free # {} THEN CHOOSE i \in free : \A j \in free : i <= j
                     ELSE IF top = 0 THEN 0 ELSE top - 1

\* MessageAdd: the first empty place, or the end.
Place == LET free == {i \in 0 .. top - 1 : bag[i].text = NoText}
         IN IF free = {} THEN top ELSE CHOOSE i \in free : \A j \in free : i <= j

\* Mutant: the sender's own reference is never given up.
mail_to_list_KeepsReference(p, to, flags) ==
  /\ sends < MaxSends
  /\ \E k \in DOMAIN to :
       /\ to[k] \in players /\ Cardinality(Letters) < MaxLetters
       /\ box' = [box EXCEPT ![to[k]] = Append(@,
                    [from |-> p, number |-> Place, sent |-> sends + 1, copy |-> k,
                     folder |-> 0, flags |-> flags])]
       /\ top' = IF Place = top THEN top + 1 ELSE top
       /\ bag' = [j \in 0 .. top' - 1 |->
                    IF j = Place THEN [refs |-> 2, text |-> sends + 1] ELSE bag[j]]
  /\ sends' = sends + 1
  /\ UNCHANGED leaked

\* send_mail to each of these recipients: the letter is appended to the box.
send_mail(p, to, recipients, number, flags) ==
  [q \in Player |->
     LET ks == SetToSortSeq({k \in recipients : to[k] = q}, LAMBDA k, m : k < m)
     IN box[q] \o [j \in DOMAIN ks |->
                     [from |-> p, number |-> number, sent |-> sends + 1, copy |-> ks[j],
                      folder |-> 0, flags |-> flags]]]

\* Each recipient that a lock of either does not refuse gets a letter; the
\* sender's own reference is given up at the end.
mail_to_list(p, to, flags) ==
  /\ sends < MaxSends
  /\ \E accepted \in SUBSET {k \in DOMAIN to : to[k] \in players} :
       /\ Cardinality(Letters) + Cardinality(accepted) <= MaxLetters
       /\ box' = send_mail(p, to, accepted, Place, flags)
       /\ top' = IF Place = top THEN top + 1 ELSE top
       /\ bag' = [j \in 0 .. top' - 1 |->
                    IF j = Place
                    THEN MessageReferenceCheck([refs |-> Cardinality(accepted), text |-> sends + 1])
                    ELSE bag[j]]
  /\ sends' = sends + 1
  /\ UNCHANGED leaked

-----------------------------------------------------------------------------
(* Mail aliases.                                                           *)

\* get_malias: the place of the first alias of that name that p may use, or 0.
get_malias(p, name) ==
  LET found == {i \in DOMAIN malias :
                  malias[i].name = name /\ (malias[i].owner \in {p, GOD} \/ p \in Wizards)}
  IN IF found = {} THEN 0 ELSE CHOOSE i \in found : \A j \in found : i <= j

Members(p, name) ==
  LET i == get_malias(p, name) IN IF i = 0 THEN << >> ELSE malias[i].list

\* May p change alias i?
MayEdit(p, i) == malias[i].owner # GOD \/ p \in Wizards

do_malias_create(p, name, list) ==
  /\ p \in players /\ get_malias(p, name) = 0
  /\ Len(malias) < MaxAliases
  /\ malias' = Append(malias, [owner |-> p, name |-> name, list |-> list])
  /\ UNCHANGED <<players, mailbag, folder, draft, disk>>

\* Mutant: a full alias takes another member.
do_malias_add_Full(p, name, thing) ==
  LET i == get_malias(p, name)
  IN /\ p \in players /\ i # 0 /\ MayEdit(p, i)
     /\ thing \in players
     /\ ~Contains(malias[i].list, thing)
     /\ malias' = [malias EXCEPT ![i].list = Append(@, thing)]
     /\ UNCHANGED <<players, mailbag, folder, draft, disk>>

do_malias_add(p, name, thing) ==
  LET i == get_malias(p, name)
  IN /\ p \in players /\ i # 0 /\ MayEdit(p, i)
     /\ thing \in players
     /\ ~Contains(malias[i].list, thing)
     /\ Len(malias[i].list) < MAX_MALIAS_MEMBERSHIP - 1
     /\ malias' = [malias EXCEPT ![i].list = Append(@, thing)]
     /\ UNCHANGED <<players, mailbag, folder, draft, disk>>

\* The first place of the number is closed.
do_malias_remove(p, name, thing) ==
  LET i == get_malias(p, name)
  IN /\ p \in players /\ i # 0 /\ MayEdit(p, i)
     /\ Contains(malias[i].list, thing)
     /\ malias' = [malias EXCEPT ![i].list = RemoveFirst(@, thing)]
     /\ UNCHANGED <<players, mailbag, folder, draft, disk>>

do_malias_delete(p, name) ==
  LET i == get_malias(p, name)
  IN /\ p \in players /\ i # 0 /\ (malias[i].owner = p \/ p \in Wizards)
     /\ malias' = RemoveAt(malias, i)
     /\ UNCHANGED <<players, mailbag, folder, draft, disk>>

do_malias_chown(p, name, owner) ==
  LET i == get_malias(p, name)
  IN /\ p \in players /\ i # 0 /\ p \in Wizards
     /\ owner \in players
     /\ malias' = [malias EXCEPT ![i].owner = owner]
     /\ UNCHANGED <<players, mailbag, folder, draft, disk>>

do_malias_rename(p, name, newname) ==
  LET i == get_malias(p, name)
  IN /\ p \in players /\ i # 0 /\ get_malias(p, newname) = 0
     /\ malias[i].owner = p \/ p \in Wizards
     /\ malias' = [malias EXCEPT ![i].name = newname]
     /\ UNCHANGED <<players, mailbag, folder, draft, disk>>

\* Mutant: the list is not shortened by what was dropped.
malias_cleanup1_SameLength(list, target) ==
  [k \in DOMAIN list |->
     LET count == Cardinality({j \in 1 .. k : list[j] = target})
     IN IF k + count <= Len(list) THEN list[k + count] ELSE list[k]]

\* A number and what is not an object leave the list.  Each place is looked
\* at once, before it is overwritten from as far on as places were dropped.
malias_cleanup1(list, target) ==
  LET n == Len(list)
      Look(acc, k) ==
        LET count == acc.count + (IF acc.list[k] = target \/ acc.list[k] \notin players THEN 1 ELSE 0)
        IN [count |-> count,
            list |-> IF count > 0 /\ k + count <= n
                     THEN [acc.list EXCEPT ![k] = acc.list[k + count]] ELSE acc.list]
      done == FoldLeft(Look, [count |-> 0, list |-> list], [k \in 1 .. n |-> k])
  IN SubSeq(done.list, 1, n - done.count)

-----------------------------------------------------------------------------
(* Message lists.                                                          *)

\* The message list that selects everything in the folder.
Everything == [low |-> 0, high |-> 0, what |-> "any", from |-> {}]

\* What parse_msglist makes of a text: a number, a range with either end
\* open, a flag, a sender, or "all" for all folders.
parse_msglist ==
  {[Everything EXCEPT !.low = n, !.high = m] :
      <<n, m>> \in {r \in (0 .. MaxLetters) \X (0 .. MaxLetters) : r[2] = 0 \/ r[1] <= r[2]}}
  \cup {[Everything EXCEPT !.what = w] :
            w \in {"all", "UNREAD", "ISREAD", "CLEARED", "URGENT", "TAG"}}
  \cup {[Everything EXCEPT !.from = {q}] : q \in Player}

ASSUME SelectorAssumption == Selectors \subseteq parse_msglist

\* mail_match of a letter that is number num among those counted.
mail_match(l, ms, num) ==
  /\ ms.low = 0 \/ num >= ms.low
  /\ ms.high = 0 \/ num <= ms.high
  /\ ms.from = {} \/ l.from \in ms.from
  /\ \/ ms.what \in {"any", "all"}
     \/ ms.what = "UNREAD" /\ "ISREAD" \notin l.flags
     \/ ms.what \in l.flags

\* The places in a mailbox that a message list selects, counting the folder.
Selected(p, ms) ==
  LET counted == {k \in DOMAIN box[p] : ms.what = "all" \/ box[p][k].folder = folder[p]}
  IN {k \in counted : mail_match(box[p][k], ms, Cardinality({j \in counted : j <= k}))}

\* The same for the commands that show letters: never those of other folders.
Shown(p, ms) == {k \in Selected(p, ms) : box[p][k].folder = folder[p]}

\* Mutant: the walk steps over the letter after one it removed.
RECURSIVE Walk_Skips(_, _, _, _, _, _)
Walk_Skips(list, k, num, counted, doomed, ms) ==
  IF k > Len(list) THEN list
  ELSE LET i == IF list[k] \in counted THEN num + 1 ELSE num
       IN IF list[k] \in doomed /\ mail_match(list[k], ms, i)
          THEN Walk_Skips(RemoveAt(list, k), k + 1, i, counted, doomed, ms)
          ELSE Walk_Skips(list, k + 1, i, counted, doomed, ms)

\* The walk of a MailList that removes as it goes.  Removing the last letter
\* while others remain leaves the walk at the first one again.
RECURSIVE Walk(_, _, _, _, _, _)
Walk(list, k, num, counted, doomed, ms) ==
  IF k > Len(list) THEN list
  ELSE LET i == IF list[k] \in counted THEN num + 1 ELSE num
           rest == RemoveAt(list, k)
       IN IF list[k] \in doomed /\ mail_match(list[k], ms, i)
          THEN Walk(rest, IF k > Len(rest) /\ rest # << >> THEN 1 ELSE k, i, counted, doomed, ms)
          ELSE Walk(list, k + 1, i, counted, doomed, ms)

\* RemoveItem of the letters of p that the walk removes; st is [box, bag].
Sweep(st, p, counted, doomed, ms) ==
  LET rest == Walk(st.box[p], 1, 0, counted, doomed, ms)
  IN [box |-> [st.box EXCEPT ![p] = rest],
      bag |-> MessageReferenceDec(st.bag, ToSet(st.box[p]) \ ToSet(rest))]

Now == [box |-> box, bag |-> bag]
Become(st) == box' = st.box /\ bag' = st.bag /\ UNCHANGED <<top, sends>>

Cleared(list) == {l \in ToSet(list) : "CLEARED" \in l.flags}

Marked(p, ks, flag, negate) ==
  [k \in DOMAIN box[p] |->
     IF k \in ks THEN [box[p][k] EXCEPT !.flags = IF negate THEN @ \ {flag} ELSE @ \cup {flag}]
                 ELSE box[p][k]]

-----------------------------------------------------------------------------
(* Reading, flagging, filing, purging and retracting.                      *)

do_mail_read(p, ms) ==
  /\ p \in players
  /\ Shown(p, ms) # {}
  /\ box' = [box EXCEPT ![p] = Marked(p, Shown(p, ms), "ISREAD", FALSE)]
  /\ bag' = MessageFetch(bag, {box[p][k] : k \in Shown(p, ms)})
  /\ UNCHANGED <<players, top, folder, draft, malias, disk, sends, leaked>>

do_mail_flags(p, ms, flag, negate) ==
  /\ p \in players
  /\ Selected(p, ms) # {}
  /\ box' = [box EXCEPT ![p] = Marked(p, Selected(p, ms), flag, negate)]
  /\ UNCHANGED <<players, bag, top, folder, draft, malias, disk, sends, leaked>>

do_mail_file(p, ms, f) ==
  /\ p \in players
  /\ Selected(p, ms) # {}
  /\ box' = [box EXCEPT ![p] = [k \in DOMAIN @ |->
                IF k \in Selected(p, ms) THEN [@[k] EXCEPT !.folder = f] ELSE @[k]]]
  /\ UNCHANGED <<players, bag, top, folder, draft, malias, disk, sends, leaked>>

do_mail_change_folder(p, f) ==
  /\ p \in players
  /\ folder' = [folder EXCEPT ![p] = f]
  /\ UNCHANGED <<players, mailbag, draft, malias, disk>>

\* Listing, reviewing and counting letters look their bodies up.
do_mail_list(p, ms) ==
  /\ p \in players
  /\ bag' = MessageFetch(bag, {box[p][k] : k \in Shown(p, ms)})
  /\ UNCHANGED <<players, box, top, folder, draft, malias, disk, sends, leaked>>

\* @mail/purge, and the end of a player's last connection.
Purged(st, p) == Sweep(st, p, {}, Cleared(st.box[p]), Everything)

do_mail_purge(p) ==
  /\ p \in players
  /\ Become(Purged(Now, p))
  /\ UNCHANGED <<players, folder, draft, malias, disk, leaked>>

\* Mutant: the letters of others are not passed over.
do_mail_retract1_Anyones(st, p, target, ms) ==
  LET mine == {l \in ToSet(st.box[target]) : l.from = p}
  IN Sweep(st, target, mine, {l \in ToSet(st.box[target]) : "ISREAD" \notin l.flags}, ms)

\* The letters of one player that another has sent, while unread.
do_mail_retract1(st, p, target, ms) ==
  LET mine == {l \in ToSet(st.box[target]) : l.from = p}
  IN Sweep(st, target, mine, {l \in mine : "ISREAD" \notin l.flags}, ms)

do_mail_retract(p, who, ms) ==
  /\ p \in players
  /\ Become(FoldLeft(LAMBDA st, q : IF q \in players THEN do_mail_retract1(st, p, q, ms) ELSE st,
                     Now, IF who \in Player THEN <<who>> ELSE Members(p, who)))
  /\ UNCHANGED <<players, folder, draft, malias, disk, leaked>>

-----------------------------------------------------------------------------
(* Writing a message.                                                      *)

\* make_numlist of names and aliases: {} when one is unknown, or nobody named.
\* Numbers in an alias that are no objects are left out, which may leave nobody.
make_numlist(p, addresses) ==
  LET named == FlattenSeq([k \in DOMAIN addresses |->
                 IF addresses[k] \in Player THEN <<addresses[k]>> ELSE Members(p, addresses[k])])
      once(to, q) == IF q \notin players \/ Contains(to, q) THEN to ELSE Append(to, q)
  IN IF \/ \E k \in DOMAIN addresses :
              addresses[k] \notin players /\ get_malias(p, addresses[k]) = 0
        \/ named = << >>
     THEN {} ELSE {FoldLeft(once, << >>, named)}

Refused == <<0>>

\* do_expmail_start, which may refuse; then the caller sets the body and a
\* flag all the same (do_mail_fwd and do_mail_reply do).
do_expmail_start(p, addresses, body, flag) ==
  \E to \in make_numlist(p, addresses) \cup {Refused} :
    draft' = [draft EXCEPT ![p] =
                IF to = Refused
                THEN [@ EXCEPT !.body = @ \/ body, !.flags = @ \cup flag]
                ELSE [open |-> TRUE, to |-> to, body |-> body, flags |-> flag]]

Start(p, addresses) ==
  /\ p \in players /\ ~draft[p].open
  /\ do_expmail_start(p, addresses, FALSE, {})
  /\ UNCHANGED <<players, mailbag, folder, malias, disk>>

\* mail_fetch: the letters of the current folder, by number.
Fetched(p) == {box[p][k] : k \in Shown(p, Everything)}

do_mail_fwd(p, l, addresses) ==
  /\ p \in players /\ ~draft[p].open
  /\ do_expmail_start(p, addresses, TRUE, {"FORWARD"})
  /\ bag' = MessageFetch(bag, {l})
  /\ UNCHANGED <<players, box, top, sends, leaked, folder, malias, disk>>

\* To the sender, or to everybody of the letter's list and the sender.
do_mail_reply(p, l, others, quote) ==
  /\ p \in players /\ ~draft[p].open
  /\ do_expmail_start(p, Append(others, l.from), quote, {"REPLY"})
  /\ bag' = MessageFetch(bag, {l})
  /\ UNCHANGED <<players, box, top, sends, leaked, folder, malias, disk>>

do_mail_cc(p, addresses) ==
  /\ p \in players /\ draft[p].open
  /\ \E to \in make_numlist(p, addresses) : 
       Len(to) + Len(draft[p].to) <= MaxTo /\ draft' = [draft EXCEPT ![p].to = to \o @]
  /\ UNCHANGED <<players, mailbag, folder, malias, disk>>

\* do_prepend and do_postpend.
do_postpend(p) ==
  /\ p \in players /\ draft[p].open
  /\ draft' = [draft EXCEPT ![p].body = TRUE]
  /\ UNCHANGED <<players, mailbag, folder, malias, disk>>

do_expmail_stop(p, flags) ==
  /\ p \in players /\ draft[p].open /\ draft[p].to # << >> /\ draft[p].body
  /\ mail_to_list(p, draft[p].to, draft[p].flags \cup flags)
  /\ draft' = [draft EXCEPT ![p].open = FALSE]
  /\ UNCHANGED <<players, folder, malias, disk>>

\* A message that says only "clear" is refused, and given up.
StopOnClear(p) ==
  /\ p \in players /\ draft[p].open /\ draft[p].to # << >> /\ draft[p].body
  /\ draft' = [draft EXCEPT ![p].open = FALSE]
  /\ UNCHANGED <<players, mailbag, folder, malias, disk>>

do_expmail_abort(p) ==
  /\ p \in players
  /\ draft' = [draft EXCEPT ![p].open = FALSE]
  /\ UNCHANGED <<players, mailbag, folder, malias, disk>>

do_mail_quick(p, addresses) ==
  /\ p \in players /\ ~draft[p].open
  /\ \E to \in make_numlist(p, addresses) : to # << >> /\ mail_to_list(p, to, {})
  /\ UNCHANGED <<players, folder, draft, malias, disk>>

-----------------------------------------------------------------------------
(* Administration, and players that come and go.                           *)

\* RemoveAll deletes the first letter of a list only: the others are out of
\* reach with their bodies still counted.
do_mail_nuke ==
  /\ GOD \in players
  /\ box' = NoLetters
  /\ bag' = MessageReferenceDec(bag, {box[p][1] : p \in {q \in Player : box[q] # << >>}})
  /\ leaked' = (leaked \/ \E p \in Player : Len(box[p]) > 1)
  /\ UNCHANGED <<players, top, sends, folder, draft, malias, disk>>

\* do_mail_clear with no list, and do_mail_purge.
ClearAndPurge(p) ==
  LET marked == [box EXCEPT ![p] = Marked(p, Selected(p, Everything), "CLEARED", FALSE)]
  IN Purged([box |-> marked, bag |-> bag], p)

DebugClear(w, target) ==
  /\ w \in players \cap Wizards /\ target \in players \ Wizards
  /\ Become(ClearAndPurge(target))
  /\ UNCHANGED <<players, folder, draft, malias, disk, leaked>>

\* Counts are counted again; then letters of those who are no players go.
DebugFix(w) ==
  LET lost == UNION {ToSet(box[p]) : p \in Player \ players}
      counted == [i \in 0 .. top - 1 |->
                    [bag[i] EXCEPT !.refs = Cardinality({l \in Letters : l.number = i})]]
  IN /\ w \in players \cap Wizards
     /\ box' = [p \in Player |-> IF p \in players THEN box[p] ELSE << >>]
     /\ bag' = MessageReferenceDec(counted, lost)
     /\ UNCHANGED <<players, top, sends, leaked, folder, draft, malias, disk>>

\* ReleaseAllResources of a player, whose number is garbage afterwards.
Destroy(p) ==
  /\ p \in players \ {GOD}
  /\ Become(ClearAndPurge(p))
  /\ malias' = [i \in DOMAIN malias |-> [malias[i] EXCEPT !.list = malias_cleanup1(@, p)]]
  /\ players' = players \ {p}
  /\ folder' = [folder EXCEPT ![p] = 0]
  /\ draft' = [draft EXCEPT ![p] = NoDraft]
  /\ UNCHANGED <<disk, leaked>>

\* A number is used again for a player.
Create(p) ==
  /\ p \in Player \ players
  /\ players' = players \cup {p}
  /\ UNCHANGED <<mailbag, folder, draft, malias, disk>>

-----------------------------------------------------------------------------
(* The dump, the end of the process at any moment, and the load.           *)

\* Letters sent before some time, unless safe.
Old(st, p, before) == {l \in ToSet(st.box[p]) : l.sent <= before /\ "SAFE" \notin l.flags}

check_mail_expiration(before) ==
  FoldLeft(LAMBDA st, p : Sweep(st, p, {}, Old(st, p, before), Everything), Now, SetToSeq(Player))

\* Mail is expired; then a child is forked with a copy of memory.
fork_and_dump ==
  /\ child.stage = "none" /\ dumps < MaxDumps
  /\ \E before \in 0 .. sends : Become(check_mail_expiration(before))
  /\ child' = [stage |-> "objects",
               image |-> [players |-> players,
                          box |-> [p \in Player |-> IF p \in players THEN box'[p] ELSE << >>],
                          size |-> top,
                          text |-> [i \in 0 .. top - 1 |->
                                      IF bag'[i].refs > 0 THEN MessageReferenceCheck(bag'[i]).text
                                                          ELSE NoText],
                          malias |-> malias, complete |-> TRUE]]
  /\ dumps' = dumps + 1
  /\ UNCHANGED <<players, folder, draft, malias, file, leaked, torn>>

\* Mutant: the bodies are written from the live game, not the child's copy.
dump_database_internal_Live ==
  /\ \/ /\ child.stage = "objects"
        /\ file' = [file EXCEPT !.players = child.image.players, !.complete = FALSE]
        /\ child' = [child EXCEPT !.stage = "letters"]
     \/ /\ child.stage = "letters"
        /\ file' = [child.image EXCEPT !.text = [i \in DOMAIN @ |-> NoText],
                                       !.malias = << >>, !.complete = FALSE]
        /\ child' = [child EXCEPT !.stage = "bodies"]
     \/ /\ child.stage = "bodies"
        /\ file' = [child.image EXCEPT !.text = [i \in DOMAIN @ |-> bag[i].text]]
        /\ child' = NoChild
  /\ UNCHANGED <<players, mailbag, folder, draft, malias, dumps, torn>>

\* The child renames the file of objects into place; then dump_mail writes the
\* letters over the old mail file, and the bodies and aliases after them.
dump_database_internal ==
  /\ \/ /\ child.stage = "objects"
        /\ file' = [file EXCEPT !.players = child.image.players, !.complete = FALSE]
        /\ child' = [child EXCEPT !.stage = "letters"]
     \/ /\ child.stage = "letters"
        /\ file' = [child.image EXCEPT !.text = [i \in DOMAIN @ |-> NoText],
                                       !.malias = << >>, !.complete = FALSE]
        /\ child' = [child EXCEPT !.stage = "bodies"]
     \/ /\ child.stage = "bodies"
        /\ file' = child.image
        /\ child' = NoChild
  /\ UNCHANGED <<players, mailbag, folder, draft, malias, dumps, torn>>

\* The machine stops and the server loads what is on disk.  Attributes may
\* have reached their own file or not.
load_mail ==
  LET held(i) == {l \in UNION {ToSet(file.box[p]) : p \in Player} : l.number = i}
      text(i) == IF i \in DOMAIN file.text THEN file.text[i] ELSE NoText
  IN /\ players' = file.players
     /\ box' = file.box
     /\ top' = file.size + 1
     /\ bag' = [i \in 0 .. file.size |-> [refs |-> Cardinality(held(i)), text |-> text(i)]]
     /\ malias' = file.malias
     /\ \E kept \in BOOLEAN :
          /\ folder' = IF kept THEN folder ELSE [p \in Player |-> 0]
          /\ draft' = IF kept THEN draft ELSE [p \in Player |-> NoDraft]
     /\ torn' = ~file.complete
     /\ leaked' = \E i \in 0 .. file.size : text(i) # NoText /\ held(i) = {}
     /\ child' = NoChild
     /\ UNCHANGED <<sends, file, dumps>>

-----------------------------------------------------------------------------
Reading(p) ==
  \/ \E ms \in Selectors :
       \/ do_mail_read(p, ms)
       \/ do_mail_list(p, ms)
       \/ \E flag \in FlagOps, negate \in BOOLEAN : do_mail_flags(p, ms, flag, negate)
       \/ \E who \in Player \cup AliasNames : do_mail_retract(p, who, ms)
  \/ do_mail_purge(p)

Filing(p) ==
  \E f \in Folders :
    \/ do_mail_change_folder(p, f)
    \/ \E ms \in Selectors : do_mail_file(p, ms, f)

Addresses == {<<a>> : a \in Player \cup AliasNames}
Lists == {<<q>> : q \in players} \cup {<<q, r>> : q, r \in players}

Sending(p) == \E addresses \in Addresses : do_mail_quick(p, addresses)

Drafting(p) ==
  \/ \E addresses \in Addresses :
       \/ Start(p, addresses)
       \/ do_mail_cc(p, addresses)
       \/ \E l \in Fetched(p) : do_mail_fwd(p, l, addresses)
  \/ \E l \in Fetched(p), others \in {<< >>} \cup {<<q>> : q \in players}, quote \in BOOLEAN :
       do_mail_reply(p, l, others, quote)
  \/ do_postpend(p)
  \/ \E flags \in {{}, {"URGENT"}} : do_expmail_stop(p, flags)
  \/ StopOnClear(p)
  \/ do_expmail_abort(p)

Aliasing(p) ==
  \E name \in AliasNames :
    \/ \E list \in Lists : Len(list) < MAX_MALIAS_MEMBERSHIP /\ do_malias_create(p, name, list)
    \/ \E q \in Player :
         \/ do_malias_add(p, name, q)
         \/ do_malias_remove(p, name, q)
         \/ do_malias_chown(p, name, q)
    \/ do_malias_delete(p, name)
    \/ \E newname \in AliasNames : do_malias_rename(p, name, newname)

Administering ==
  \/ \E w \in Player : DebugFix(w) \/ \E target \in Player : DebugClear(w, target)
  \/ do_mail_nuke

ComingAndGoing == \E p \in Player : Destroy(p) \/ Create(p)

Disk == fork_and_dump \/ dump_database_internal \/ load_mail

Next ==
  \/ \E p \in Player : Reading(p) \/ Filing(p) \/ Sending(p) \/ Drafting(p) \/ Aliasing(p)
  \/ Administering \/ ComingAndGoing \/ Disk

Spec == Init /\ [][Next]_vars

-----------------------------------------------------------------------------
TypeOK ==
  LET letters == [from : Player, number : 0 .. top - 1, sent : 1 .. MaxSends, copy : Nat,
                  folder : Folders, flags : SUBSET Flags]
  IN /\ players \subseteq Player
     /\ \A p \in Player : ToSet(box[p]) \subseteq letters
     /\ bag \in [0 .. top - 1 -> [refs : Nat, text : 0 .. MaxSends]]
     /\ folder \in [Player -> Folders]
     /\ \A p \in Player : ToSet(draft[p].to) \subseteq Player /\ draft[p].flags \subseteq Flags
     /\ \A i \in DOMAIN malias :
          /\ malias[i].owner \in Player /\ malias[i].name \in AliasNames
          /\ Len(malias[i].list) < MAX_MALIAS_MEMBERSHIP
     /\ child.stage \in {"none", "objects", "letters", "bodies"}

\* Every body is counted exactly as often as letters carry it, and kept no
\* longer, whatever is sent, purged, retracted, expired, dumped and loaded:
\* unless letters were lost to RemoveAll, or the mail file was cut short.
RefsExact ==
  ~torn /\ ~leaked =>
    \A i \in 0 .. top - 1 :
      /\ bag[i].refs = Cardinality({l \in Letters : l.number = i})
      /\ bag[i].text # NoText <=> bag[i].refs > 0

\* A letter shows the text that was sent to it: no place in the bag is used
\* again while a letter carries it (MessageAdd, mail.cpp:168).
BodiesIntact ==
  ~torn => \A l \in Letters : bag[l.number].text = l.sent

\* The bag of bodies agrees with the letters: none is freed early, kept for ever, or
\* given to another letter (MessageReferenceInc, MessageReferenceDec, MessageAdd).
BagSound == TypeOK /\ RefsExact /\ BodiesIntact

\* The walk that removes as it goes leaves exactly what it was to leave, in
\* the order it was (do_mail_purge and check_mail_expiration).
SweepsExact ==
  [][/\ \A p \in Player : box' # box /\ do_mail_purge(p) =>
          box'[p] = SelectSeq(box[p], LAMBDA l : "CLEARED" \notin l.flags)
     /\ child.stage = "none" /\ child'.stage = "objects" => \E before \in 0 .. sends : \A p \in Player :
          box'[p] = SelectSeq(box[p], LAMBDA l : l.sent > before \/ "SAFE" \in l.flags)]_vars

\* A mail file that was written to its end has the body of each letter in it,
\* although the game went on while the child wrote (dump_mail).
FileHolds ==
  file.complete =>
    \A p \in Player : \A l \in ToSet(file.box[p]) :
      p \in file.players /\ file.text[l.number] = l.sent

\* After the destruction of a player no alias names the number, which may be
\* somebody else's next; for aliases that name nobody twice (malias_cleanup).
AliasesForget ==
  [][\A p \in players \ players' : Destroy(p) =>
       \A i \in DOMAIN malias :
         Cardinality(ToSet(malias[i].list)) = Len(malias[i].list) =>
           malias'[i].list = SelectSeq(malias[i].list, LAMBDA q : q \in players \ {p})]_vars

\* @mail/retract takes from a mailbox every unread letter of its sender in the range
\* that is given, none that was read or that somebody else sent, and leaves the rest
\* in order.  It takes unread letters of its sender outside the range as well, but
\* only when the last letter of the mailbox goes: the walk is then at the first again
\* and counts on (do_mail_retract1, MailList::RemoveItem).
RetractsOwn ==
  [][\A p, q \in Player, ms \in Selectors : box' # box /\ do_mail_retract(p, q, ms) =>
       LET old == box[q]
           mine == {k \in DOMAIN old : old[k].from = p}
           unread == {k \in mine : "ISREAD" \notin old[k].flags}
           meant == {k \in unread :
                       mail_match(old[k], ms, Cardinality({j \in mine : j <= k}))}
           gone == {k \in DOMAIN old : old[k] \notin ToSet(box'[q])}
       IN /\ meant \subseteq gone
          /\ gone \subseteq (IF Len(old) \in meant THEN unread ELSE meant)
          /\ box' = [box EXCEPT ![q] = SelectSeq(@, LAMBDA l : l \in ToSet(box'[q]))]]_vars

\* Walks that delete as they go miss nothing that they are to delete, and keep the
\* rest in order: purging, expiring, retracting, and the lists of aliases.
Cleaned == SweepsExact /\ RetractsOwn /\ AliasesForget

\* The mailboxes and the bag implement module MailBag, except for the load of
\* a mail file that was cut short.
Bag == INSTANCE MailBag WITH
  Letter <- (1 .. MaxSends) \X Nat,
  Text <- 1 .. MaxSends,
  letters <- [id \in {<<l.sent, l.copy>> : l \in Letters} |->
                LET m == CHOOSE l \in Letters : <<l.sent, l.copy>> = id
                IN [number |-> m.number, sent |-> m.sent]]

ImplementsMailBag == Bag!Init /\ [][Bag!Next \/ torn']_<<box, bag, top>>
=============================================================================
