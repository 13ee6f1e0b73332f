SPECIFICATION Spec
CONSTANTS
  Other = other
  MaxAsks = 2
  LineMax = 2
  OptionMax = 3
  MaxBytes = 6
  BlockSize = 2
  output_limit = 3
  MaxWrite = 2
  MaxOutput = 7
  MaxStale = 2
INVARIANTS Agreed InputExact OutputExact
PROPERTY Progress
CHECK_DEADLOCK FALSE
