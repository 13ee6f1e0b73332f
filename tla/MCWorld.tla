------------------------------ MODULE MCWorld ------------------------------
(* Which objects the instances of World create.                            *)
EXTENDS World

\* Two numbers to create, destroy and use again.
ThingsAndPlaces ==
  [n \in 0 .. MaxTop - 1 |->
     CASE n = 3 -> {"THING", "ROOM"} [] n = 4 -> {"THING", "EXIT", "PLAYER"} [] OTHER -> {}]

\* Exits may be left unlinked.
OnePlace == {NOTHING, HOME, 3}

=============================================================================
