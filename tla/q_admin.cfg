SPECIFICATION Spec
CONSTANTS
  a = a  b = b   h1 = h1  h2 = h2  n1 = n1   p1 = p1  p2 = p2
  Nick = {a}
  Host = {h1, h2}
  Net = {n1}
  Pack = {p1}
  Man = man
  NoNick = NoNick
  Visitors <- Roamer
  maxtrans = 2
  maxtransfersperperson = 1
  maxqueueditemsperperson = 1
  maxidlequeuedperperson = 1
  idlequeuesize = 1
  balanced_queue = FALSE
  requeue_sends = FALSE
  restrictsend = TRUE
  ignore_duplicate_ip = TRUE
  DLimit <- NoLimit
  SmallPack = {}
  SlotsMax <- Slots12
  QueueSize <- Queue12
  Restored <- NoRestored
  Bound = 2
INVARIANTS TypeOK SlotLimit RemovedPackUnused OverLimitDrained
