SPECIFICATION Spec
CONSTANTS
  p1 = p1  p2 = p2  x = x  y = y  z = z  i1 = i1  i2 = i2  i3 = i3
  Id = {i1, i2, i3}
  Pack = {p1}
  Size <- OneUnit
  Large = {}
  Kind <- BothFamilies
  Addr4 = {x}
  Addr6 = {y, z}
  NoAddr = NoAddr
  Denied = {}
  maxtrans = 3
  maxtransfersperperson = 1
  ignore_duplicate_ip = TRUE
  mirc_dcc64 = FALSE
  tcprangestart = 0
  tcprangelimit = 0
  PortMod = 4
  Ephemeral = {1, 2, 3}
  SegSize = 2
  Patience = 0

SYMMETRY Ids
PROPERTY AbortsOneHost
