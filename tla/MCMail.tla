------------------------------- MODULE MCMail -------------------------------
(***************************************************************************)
(* Instances of Mail for TLC.  Everything at once has too many states: in  *)
(* each behaviour one part of what a mailer does is at work, with the      *)
(* sending and purging of mail, and the rest is not used.                  *)
(***************************************************************************)
EXTENDS Mail

CONSTANTS god, a, n1, Works

VARIABLE work

\* Everything in the folder, everything in all folders, and from the second on.
SomeLists == {Everything, [Everything EXCEPT !.what = "all"], [Everything EXCEPT !.low = 2]}

OneAlias == <<[owner |-> god, name |-> n1, list |-> <<a, god>>]>>

MCInit ==
  /\ work \in Works
  /\ IF work = "drafts"
     THEN /\ malias = OneAlias
          /\ players = Player /\ box = NoLetters /\ bag = << >> /\ top = 0
          /\ folder = [p \in Player |-> 0] /\ draft = [p \in Player |-> NoDraft]
          /\ child = NoChild /\ file = NoFile /\ sends = 0 /\ dumps = 0
          /\ leaked = FALSE /\ torn = FALSE
     ELSE Init

MCNext ==
  /\ \/ work = "folders" /\ \/ \E p \in Player : Reading(p) \/ Filing(p) \/ Sending(p)
                            \/ Administering \/ ComingAndGoing
     \/ work = "aliases" /\ \/ \E p \in Player : Aliasing(p) \/ Sending(p)
                            \/ ComingAndGoing
     \/ work = "drafts" /\ Drafting(a)
     \/ work = "dumps" /\ \/ \E p \in Player :
                               \/ Sending(p) \/ do_mail_purge(p)
                               \/ do_mail_flags(p, Everything, "CLEARED", FALSE)
                          \/ Administering \/ ComingAndGoing \/ Disk
  /\ UNCHANGED work

MCSpec == MCInit /\ [][MCNext]_<<vars, work>>
=============================================================================
