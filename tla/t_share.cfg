SPECIFICATION Spec
CONSTANTS
  p1 = p1  p2 = p2  x = x  y = y  z = z  i1 = i1  i2 = i2  i3 = i3
  Id = {i1, i2}
  Pack = {p1}
  Size <- ThreeUnits
  Large = {}
  Kind <- ActiveOrPassive
  Addr4 = {x}
  Addr6 = {}
  NoAddr = NoAddr
  Denied = {}
  maxtrans = 2
  maxtransfersperperson = 1
  ignore_duplicate_ip = FALSE
  mirc_dcc64 = FALSE
  tcprangestart = 1
  tcprangelimit = 2
  PortMod = 4
  Ephemeral = {3}
  SegSize = 2
  Patience = 0

SYMMETRY Ids
INVARIANTS TypeOK FileShared FileReceived SocketsKnown
PROPERTIES PortReturned
