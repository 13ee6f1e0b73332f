\* God and a mortal.
SPECIFICATION MCSpec
CONSTANTS
  god = god
  a = a
  n1 = n1
  Player = {god, a}
  GOD = god
  Wizards = {god}
  AliasNames = {n1}
  Folders = {0, 1}
  FlagOps = {"CLEARED"}
  Selectors <- SomeLists
  MAX_MALIAS_MEMBERSHIP = 3
  MaxSends = 2
  MaxLetters = 2
  MaxAliases = 1
  MaxTo = 2
  MaxDumps = 1
  Works = {"folders", "aliases", "drafts", "dumps"}
INVARIANTS BagSound FileHolds
PROPERTIES Cleaned ImplementsMailBag
