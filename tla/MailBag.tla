------------------------------ MODULE MailBag ------------------------------
(***************************************************************************)
(* The mail bag: the bodies of messages, each stored once and counted by   *)
(* the letters that carry it (mail.cpp, "Handling functions for the        *)
(* database of mail messages").  A letter is what lies in a mailbox; here  *)
(* it is only the number of its body and, as a history variable, the text  *)
(* that was sent.  Module Mail implements this specification.              *)
(***************************************************************************)
EXTENDS Integers, FiniteSets

CONSTANTS
  Letter,        \* whatever tells letters apart
  Text,          \* message bodies
  NoText         \* m_pMessage == NULL

VARIABLES
  letters,       \* letter in some mailbox -> [number, sent]
  bag,           \* mail_list: number -> [refs, text]
  top            \* mudstate.mail_db_top

bagVars == <<letters, bag, top>>

Carrying(ls, i) == {l \in DOMAIN ls : ls[l].number = i}
Empty == [refs |-> 0, text |-> NoText]

\* What MessageReferenceCheck makes of a body with this count.
Checked(refs, text) ==
  IF refs <= 0 \/ text = NoText THEN Empty ELSE [refs |-> refs, text |-> text]

Init ==
  /\ letters = << >>
  /\ bag = << >>
  /\ top = 0

\* A body is stored in an empty place or a new one; new letters carry it.
Post(new, text) ==
  \E i \in {j \in 0 .. top - 1 : bag[j].text = NoText} \cup {top} :
    /\ new \cap DOMAIN letters = {}
    /\ IsFiniteSet(new)
    /\ letters' = [l \in DOMAIN letters \cup new |->
                     IF l \in new THEN [number |-> i, sent |-> text] ELSE letters[l]]
    /\ top' = IF i = top THEN top + 1 ELSE top
    /\ bag' = [j \in 0 .. top' - 1 |->
                 IF j = i THEN Checked(Cardinality(new), text) ELSE bag[j]]

\* Letters are removed; some of them without giving up their bodies.
Remove(gone, unreferenced) ==
  /\ gone \subseteq DOMAIN letters
  /\ unreferenced \subseteq gone
  /\ letters' = [l \in DOMAIN letters \ gone |-> letters[l]]
  /\ bag' = [i \in 0 .. top - 1 |->
               LET n == Cardinality(Carrying(letters, i) \cap unreferenced)
               IN IF n = 0 THEN bag[i] ELSE Checked(bag[i].refs - n, bag[i].text)]
  /\ UNCHANGED top

\* The counts are counted again, and some letters removed.
Recount(gone) ==
  /\ gone \subseteq DOMAIN letters
  /\ letters' = [l \in DOMAIN letters \ gone |-> letters[l]]
  /\ bag' = [i \in 0 .. top - 1 |->
               LET n == Cardinality(Carrying(letters, i))
                   g == Cardinality(Carrying(letters, i) \cap gone)
               IN IF g = 0 THEN [bag[i] EXCEPT !.refs = n] ELSE Checked(n - g, bag[i].text)]
  /\ UNCHANGED top

\* The bag is loaded from a complete file: an earlier bag, or the present one.
Load(ls, texts, size) ==
  /\ letters' = ls
  /\ top' = size
  /\ bag' = [i \in 0 .. size - 1 |->
               [refs |-> Cardinality(Carrying(ls, i)), text |-> texts[i]]]

\* A file is complete when it has the body of each letter in it.
Complete(ls, texts, size) ==
  /\ size \in Nat
  /\ texts \in [0 .. size - 1 -> Text \cup {NoText}]
  /\ IsFiniteSet(DOMAIN ls) /\ DOMAIN ls \subseteq Letter
  /\ ls = [l \in DOMAIN ls |-> [number |-> ls[l].number, sent |-> ls[l].sent]]
  /\ \A l \in DOMAIN ls :
       /\ ls[l].number \in 0 .. size - 1
       /\ texts[ls[l].number] = ls[l].sent
       /\ ls[l].sent # NoText

\* What was posted, removed or loaded is what a step adds and takes away.
Next ==
  \/ \E text \in Text \ {NoText} :
       LET new == DOMAIN letters' \ DOMAIN letters
       IN new \subseteq Letter /\ Post(new, text)
  \/ LET gone == DOMAIN letters \ DOMAIN letters'
     IN (\E unreferenced \in SUBSET gone : Remove(gone, unreferenced)) \/ Recount(gone)
  \/ LET texts == [i \in DOMAIN bag' |-> bag'[i].text]
     IN Complete(letters', texts, top') /\ Load(letters', texts, top')

Spec == Init /\ [][Next]_bagVars

-----------------------------------------------------------------------------
TypeOK ==
  /\ top \in Nat
  /\ bag \in [0 .. top - 1 -> [refs : Nat, text : Text \cup {NoText}]]
  /\ IsFiniteSet(DOMAIN letters)
  /\ DOMAIN letters \subseteq Letter
  /\ letters \in [DOMAIN letters -> [number : 0 .. top - 1, sent : Text \ {NoText}]]

\* No body is counted by fewer letters than carry it.
RefsCover ==
  \A i \in 0 .. top - 1 : Cardinality(Carrying(letters, i)) <= bag[i].refs

\* What a letter shows is what was sent, however often its place in the bag
\* was freed and used again before.
BodiesIntact ==
  \A l \in DOMAIN letters : bag[letters[l].number].text = letters[l].sent
=============================================================================
