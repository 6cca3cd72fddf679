SPECIFICATION LiveSpec
CONSTANTS
  a = a  b = b   h1 = h1  h2 = h2  n1 = n1   p1 = p1  p2 = p2
  Nick = {a, b}
  Host = {h1, h2}
  Net = {n1}
  Pack = {p1, p2}
  Man = man
  NoNick = NoNick
  Visitors <- Users2
  maxtrans = 1
  maxtransfersperperson = 1
  maxqueueditemsperperson = 1
  maxidlequeuedperperson = 1
  idlequeuesize = 1
  balanced_queue = TRUE
  requeue_sends = FALSE
  restrictsend = FALSE
  ignore_duplicate_ip = FALSE
  DLimit <- NoLimit
  SmallPack = {}
  SlotsMax <- Slots1
  QueueSize <- Queue1
  Restored <- NoRestored
  Bound = 1

PROPERTIES MainServed IdleServed
