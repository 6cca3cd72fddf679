SPECIFICATION Spec
CONSTANTS
  u = u  v = v
  server_send_max = 2
  server_send_rate = 1
  slow_privmsg = 1
  MAXSENDQ = 3
  RecentPings = 1
  Command <- Commands
  Length <- Lengths
  Addresses = 2
  Accepting = {2}
  Refusing = {1}
  CTIMEOUT = 0
  CBKTIMEOUT = 1
  SRVRTOUT = 0
  reconnect_delay = 0
  waitjoin = 0
  use_ssl = TRUE
  NoAutoRejoin = {FALSE}
  Person = {u, v}  Present <- OneThere
  MaxBackoff = 0
  MaxNick = 1
  MaxLines = 1
  MaxWaiting = 1
  MaxFaults = 2
INVARIANTS TypeOK NickBelief ChannelBelief MembersKnown NoStaleMessage
CHECK_DEADLOCK FALSE
