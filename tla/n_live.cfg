SPECIFICATION LiveSpec
CONSTANTS
  u = u  v = v
  server_send_max = 5
  server_send_rate = 4
  slow_privmsg = 1
  MAXSENDQ = 3
  RecentPings = 1
  Command <- Commands
  Length <- LongLengths
  Addresses = 3
  Accepting = {3}
  Refusing = {1}
  CTIMEOUT = 1
  CBKTIMEOUT = 1
  SRVRTOUT = 1
  reconnect_delay = 1
  waitjoin = 1
  use_ssl = FALSE
  NoAutoRejoin = {TRUE, FALSE}
  Person = {}  Present <- NobodyThere
  MaxBackoff = 1
  MaxNick = 1
  MaxLines = 1
  MaxWaiting = 2
  MaxFaults = 2
PROPERTIES ShutdownEnds Reconnects QueueDrains
CHECK_DEADLOCK FALSE
