SPECIFICATION LiveSpec
CONSTANTS
  p1 = p1  p2 = p2  x = x  y = y  z = z  i1 = i1  i2 = i2  i3 = i3
  Id = {i1, i2}
  Pack = {p1}
  Size <- OneUnit
  Large = {}
  Kind <- AnyUser
  Addr4 = {x, y}
  Addr6 = {}
  NoAddr = NoAddr
  Denied = {y}
  maxtrans = 2
  maxtransfersperperson = 1
  ignore_duplicate_ip = TRUE
  mirc_dcc64 = FALSE
  tcprangestart = 0
  tcprangelimit = 2
  PortMod = 4
  Ephemeral = {2, 3}
  SegSize = 2
  Patience = 1

PROPERTIES DuplicatesEnded Ends
