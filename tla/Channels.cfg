\* God and one more number, a player or a thing of God's.
SPECIFICATION MCSpec
CONSTANTS
  g = g
  a = a
  b = b
  x1 = x1
  x2 = x2
  Object = {g, a, b}
  Name = {"n1"}
  NoName = ""
  Alias = {x1, x2}
  GOD = g
  Comm_All = {g}
  OfGod = {a}
  MAX_ALIASES_PER_PLAYER = 2
  MAX_USERS_PER_CHANNEL = 2
  MaxDumps = 2
INVARIANTS Audience Reachable
