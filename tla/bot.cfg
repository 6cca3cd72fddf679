SPECIFICATION MCSpec
CONSTANTS
  List = {"l1", "l2"}
  Item = {"a", "b", "c", "d"}
  rank <- RankOf
  Asker = {"n1"}
  Speed = {0, 1, 2}
  Conf <- Configurations
  Two32 = 4
  Amount = {0, 1}
  Bytes = {1, 4}
  MaxGets = 2
  MaxAsked = 2
  Files = 3
  Inodes = 3
  Groups = 2
  Scopes = {{1, 2}, {2}}
  Started <- Lists
  noduplicatefiles = TRUE
  no_duplicate_filenames = FALSE
  removelostfiles = TRUE
  autoadd_sort = "filename"
  autoadd_group = 2
  MaxPacks = 3
  MaxRequests = 1
  MaxDelayed = 2
  MaxWork = 4
  Nick = {"n1", "n2"}
  Name = {"f1", "f2"}
  max_uploads = 2
  MaxQueue = 2
  Address = {"v4", "v6"}
  net <- HalfOf
  Denied = {}
  MaxBad = 1
  Hour = 1
  MaxOpen = 2
  MaxCount = 4
  MaxSize = 5
  BUFFERSIZE = 2
  MAXTXPERLOOP = 3
  Speeds = {0, 1}
  BurstQuarters = 2
  Word64 = 16
  Patience = 1
  User = {"u1", "u[2]"}
  Wide = "*"
  Odd = {"u[2]"}
  Excluded = {}
  Admin = {"u1"}
  Threshold = 2
  Rate = 2
  Times = {1, 7}
  Word32 = 100
  MaxClock = 7
  MaxEntries = 2
  Base = 2
  Large = {4, 9}
  MaxAcks = 3
  MaxChanges = 2
  Versions = {1, 2}
  IR_BOUTPUT_SEGMENT_SIZE = 2
  IR_BOUTPUT_MAX_SEGMENTS = 2
  NoLimit = FALSE
  MaxBytes = 10
INVARIANTS AllTypesOK GroupDescFirst PacksKnown Md5True IgnoreKept Accounted HttpWhole AckExact
PROPERTIES DescKept KeptOverStart Durable Blocked Sequences InOrder
CHECK_DEADLOCK FALSE
