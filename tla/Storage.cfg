\* Attributes from their names down to the page file.
SPECIFICATION MCSpec
CONSTANTS
  k1 = k1
  k2 = k2
  k3 = k3
  v1 = v1
  v2 = v2
  n1 = n1
  n2 = n2
  n3 = n3
  x = x
  y = y
  z = z
  Key <- Keys
  Hash <- Hashes
  Value = {v1, v2}
  None = None
  Unset = Unset
  NOTHING = NOTHING
  Bits = 2
  Capacity = 1
  nCache = 3
  max_cache_size = 3
  CrashPoints = {"appended"}
  MaxWrites = 3
  Object = {1, 2}
  Player = {1}
  Name = {n1, n2, n3}
  Text = {x, y, z}
  Plain <- Texts
  A_MONEY = 1
  A_QUEUEMAX = 2
  A_USER_START = 10
  MaxNumber = 12
  Number <- Numbers
  ListMax = 3
  MaxMoney = 1
  MaxQueue = 1
  MaxSets = 3
SYMMETRY Alike
INVARIANTS CopiesAgree DumpSees NamesSound TextKept AccountsKept
PROPERTY ImplementsStore
CHECK_DEADLOCK FALSE
