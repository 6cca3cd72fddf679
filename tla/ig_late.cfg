SPECIFICATION IgnoresSpec
CONSTANTS
  User = {"u1"}
  Wide = "*"
  Odd = {}
  Excluded = {}
  Admin = {"u1"}
  Threshold = 2
  Rate = 2
  Times = {1, 7}
  Word32 = 100
  MaxClock = 12
  MaxEntries = 2
INVARIANT IgnoreInTime
CHECK_DEADLOCK FALSE
