SPECIFICATION QuietSpec
CONSTANTS
  a = a  b = b   h1 = h1  h2 = h2  n1 = n1   p1 = p1  p2 = p2
  Nick = {a, b}
  Host = {h1, h2}
  Net = {n1}
  Pack = {p1, p2}
  Man = man
  NoNick = NoNick
  Visitors <- Users2
  maxtrans = 1
  maxtransfersperperson = 2
  maxqueueditemsperperson = 2
  maxidlequeuedperperson = 1
  idlequeuesize = 2
  balanced_queue = TRUE
  requeue_sends = FALSE
  restrictsend = FALSE
  ignore_duplicate_ip = FALSE
  DLimit <- NoLimit
  SmallPack = {p2}
  SlotsMax <- Slots1
  QueueSize <- Queue2
  Restored <- NoRestored
  Bound = 2
PROPERTY BalancedNext
