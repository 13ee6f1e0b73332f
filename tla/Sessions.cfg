\* A wizard and a mortal, three descriptors at most, a pool of one or two guests.
SPECIFICATION MCSpec
CONSTANTS
  d1 = d1
  d2 = d2
  d3 = d3
  b1 = b1
  b2 = b2
  NULL = NULL
  Descriptor = {d1, d2, d3}
  Number = {1, 2, 3, 4}
  Program = {b1, b2}
  Wizards = {1}
  Mortals = {2}
  max_players = 2
  min_guests = 1
  number_guests = 2
  idle_timeout = 1
  conn_timeout = 1
  MaxTime = 3
SYMMETRY Alike
INVARIANTS SessionsExact ProgramsHeld TimeExact DarkEnds GuestsServed
