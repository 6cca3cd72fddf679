------------------------------ MODULE Network ------------------------------
(***************************************************************************)
(* One IRC network of the bot: the connection to a server (src/dinoex_irc.c*)
(* and connectirc, quit_server, switchserver, joinchannel, shutdowniroffer *)
(* of src/iroffer_misc.c, the server and channel jobs of                   *)
(* src/iroffer_main.c, the handshake of src/dinoex_ssl.c), what the bot    *)
(* believes of its nick and its channel (the member list of                *)
(* src/iroffer_utilities.c), and the owner's commands on the network.      *)
(*                                                                         *)
(* The resolver is a child process: its answer and its death are events of *)
(* their own.  The server is external.  It handles what the bot sends when *)
(* it is sent, and what it says waits in "lines": delaying the other       *)
(* direction as well would give the bot nothing else to see.               *)
(*                                                                         *)
(* Abstracted: one network with one channel; a nick of ours is 0 for the   *)
(* configured one and n + 1 for the one with n appended; the jobs of 5 and *)
(* of 20 seconds run at any time; lines arrive whole.                      *)
(***************************************************************************)
EXTENDS ServerQueue

CONSTANTS
  Addresses,               \* number of the server's addresses
  Accepting, Refusing,     \* those that answer; from the others nothing comes back
  CTIMEOUT, CBKTIMEOUT, SRVRTOUT, reconnect_delay, waitjoin,
  use_ssl,
  NoAutoRejoin,            \* the values of noautorejoin to look at
  Person, Present,         \* nicks of other users; sets of them in the channel at first
  MaxBackoff, MaxNick,     \* bounds: serverconnectbackoff, nick_number
  MaxLines, MaxWaiting,    \* bounds: lines on the way, messages in the queues
  MaxFaults                \* bound: what the server, the net and the owner do

ASSUME NetworkAssumption ==
  /\ Addresses \in Nat \ {0} /\ Accepting \cup Refusing \subseteq 1..Addresses
  /\ Accepting \cap Refusing = {}
  /\ {CTIMEOUT, CBKTIMEOUT, SRVRTOUT, reconnect_delay, waitjoin} \subseteq Nat
  /\ use_ssl \in BOOLEAN /\ Present \subseteq SUBSET Person /\ NoAutoRejoin \subseteq BOOLEAN
  /\ {MaxBackoff, MaxNick, MaxLines, MaxWaiting, MaxFaults} \subseteq Nat
  /\ {"JOIN", "PART", "NICK", "PING", "PRIVMSG", "QUIT"} \subseteq Command

VARIABLES
  conn,      \* the connection
  lookup,    \* serv_resolv and the process that resolves
  me,        \* user_nick and nick_number
  chan,      \* the channel
  sendq,     \* the queues of messages
  exiting,   \* "no", "yes" after SHUTDOWN, "exited"
  server,    \* the server's side
  faults

vars == <<conn, lookup, me, chan, sendq, exiting, server, faults>>

Status == {"NEED_TO_CONNECT", "RESOLVING", "TRYING", "SSL_HANDSHAKE", "CONNECTED", "EXIT"}
Patience == CTIMEOUT + MaxBackoff * CBKTIMEOUT
MaxQuiet == reconnect_delay + 1 + (IF SRVRTOUT > Patience THEN SRVRTOUT ELSE Patience)

\* quiet: seconds since lastservercontact plus reconnect_delay; age: seconds
\* since connecttime, as far as waitjoin needs them.
ConnRecord ==
  [status : Status, quiet : 0..MaxQuiet, age : 0..waitjoin, backoff : 0..MaxBackoff,
   servertime : 0..3, offline : BOOLEAN]

\* child: the process child_pid names, "done" when it has written its answer,
\* "dead" until it is waited for; mine: the
\* address number it was given, where all from Addresses on mean the same;
\* answer: what it wrote to the pipe, 0 for nothing; addr: the address in use.
LookupRecord ==
  [child : {"none", "running", "done", "dead"}, mine : 0..Addresses, next : 0..Addresses,
   answer : 0..Addresses, reset : BOOLEAN, addr : 0..Addresses]

\* known: it is in the list of channels; kicked: CHAN_KICKED; stay: noautorejoin.
\* lost, a ghost: it was taken into the list again on this connection while the server
\* had us in it or was to hear of an earlier JOIN, and what it says of that, or has
\* said, misleads; or REHASH forgot that we stay out after a kick.
ChanRecord == [known : BOOLEAN, on : BOOLEAN, kicked : BOOLEAN, members : SUBSET Person,
               stay : NoAutoRejoin, lost : BOOLEAN]

Nick == 0..(MaxNick + 1)
Line == [cmd : {"001", "433", "353", "JOIN", "LEAVE", "NICK", "JOIN_US", "PART_US",
                "NICK_US", "KICK_US", "QUIT_US", "ERROR", "PONG"},
         who : SUBSET Person, new : SUBSET Person, nick : Nick]
\* link: "silent" when nothing comes through, "closed" by the server with lines
\* perhaps unread; users: who else is in the channel; taken: our nicks others have;
\* killed, gotold: ghosts.
ServerRecord ==
  [link : {"none", "open", "silent", "closed"}, registered : BOOLEAN, nick : Nick,
   on : BOOLEAN, users : SUBSET Person, taken : SUBSET {0, 1}, lines : Seq(Line),
   killed : BOOLEAN, gotold : BOOLEAN]

Init ==
  /\ conn = [status |-> "NEED_TO_CONNECT", quiet |-> MaxQuiet, age |-> 0, backoff |-> 0,
             servertime |-> 0, offline |-> FALSE]
  /\ lookup = [child |-> "none", mine |-> 0, next |-> 0, answer |-> 0, reset |-> FALSE,
               addr |-> 0]
  /\ me = [nick |-> 0, number |-> 0]
  /\ \E stay \in NoAutoRejoin :
       chan = [known |-> TRUE, on |-> FALSE, kicked |-> FALSE, members |-> {}, stay |-> stay,
               lost |-> FALSE]
  /\ sendq = EmptyQueues
  /\ exiting = "no"
  /\ \E users \in Present :
       server = [link |-> "none", registered |-> FALSE, nick |-> 0, on |-> FALSE,
                 users |-> users, taken |-> {}, lines |-> <<>>, killed |-> FALSE,
                 gotold |-> FALSE]
  /\ faults = 0
-----------------------------------------------------------------------------
(* Handlers call each other on the way; each helper maps a state to a state *)

Now == [conn |-> conn, lookup |-> lookup, me |-> me, chan |-> chan, sendq |-> sendq,
        exiting |-> exiting, server |-> server]
Becomes(s) ==
  \E t \in {s} :
    /\ conn' = t.conn /\ lookup' = t.lookup /\ me' = t.me /\ chan' = t.chan
    /\ sendq' = t.sendq /\ exiting' = t.exiting /\ server' = t.server

Connected(s) == s.conn.status = "CONNECTED"
To(s, status) == [s EXCEPT !.conn.status = status]
Heard(s) == [s EXCEPT !.conn.quiet = reconnect_delay, !.conn.servertime = 0]

\* The server: what it says, and what a command of the bot makes it do.
Says(v, cmd, who, nick) ==
  [v EXCEPT !.lines = Append(@, [cmd |-> cmd, who |-> who, new |-> {}, nick |-> nick])]
SaysNick(v, p, q) ==
  [v EXCEPT !.lines = Append(@, [cmd |-> "NICK", who |-> {p}, new |-> {q}, nick |-> 0])]
HangsUp(v) == [v EXCEPT !.link = "closed", !.registered = FALSE, !.on = FALSE]

ServerGets(v, cmd, nick) ==
  IF v.link # "open" THEN v
  ELSE CASE cmd = "NICK" /\ nick \in v.taken ->
              IF v.registered THEN v ELSE Says(v, "433", {}, nick)
         [] cmd = "NICK" /\ nick \notin v.taken ->
              IF v.registered /\ v.nick = nick THEN v
              ELSE Says([v EXCEPT !.registered = TRUE, !.nick = nick],
                        IF v.registered THEN "NICK_US" ELSE "001", {}, nick)
         [] cmd = "JOIN" /\ v.registered /\ ~v.on ->
              Says(Says([v EXCEPT !.on = TRUE], "JOIN_US", {}, 0), "353", v.users, 0)
         [] cmd = "PART" /\ v.on -> Says([v EXCEPT !.on = FALSE], "PART_US", {}, 0)
         [] cmd = "PING" /\ \A i \in DOMAIN v.lines : v.lines[i].cmd # "PONG" ->
              Says(v, "PONG", {}, 0)
         [] cmd = "QUIT" -> HangsUp(Says(v, "ERROR", {}, 0))
         [] OTHER -> v

\* close_server: also when the connection is closed already.
CloseServer_NoExit(s) ==   \* seeded defect: meant to keep an exiting bot from reconnecting
  [To(s, IF s.exiting = "no" THEN "NEED_TO_CONNECT" ELSE s.conn.status) EXCEPT
     !.conn.quiet = 0, !.sendq = Aged(@),
     !.server = [@ EXCEPT !.link = "none", !.registered = FALSE, !.on = FALSE,
                          !.nick = 0, !.lines = <<>>]]
CloseServer(s) ==
  [To(s, "NEED_TO_CONNECT") EXCEPT
     !.conn.quiet = 0, !.sendq = Aged(@),
     !.server = [@ EXCEPT !.link = "none", !.registered = FALSE, !.on = FALSE,
                          !.nick = 0, !.lines = <<>>]]

\* writeserver: at once, or into a queue.
SendNow(s, cmd, nick) ==
  IF Connected(s) THEN [s EXCEPT !.server = ServerGets(@, cmd, nick),
                                 !.sendq = Charge(@, cmd)]
  ELSE s
Submit(s, type, cmd, nick) ==
  IF s.exiting # "no" \/ ~Connected(s) THEN s
  ELSE [s EXCEPT !.sendq = Enqueue(@, type, cmd, nick)]

\* The server gets messages one after another.
Hears(v, sent) ==
  LET hear(w, m) == [ServerGets(w, m.cmd, m.arg) EXCEPT !.gotold = @ \/ m.old]
      after[k \in 0..Len(sent)] == IF k = 0 THEN v ELSE hear(after[k - 1], sent[k])
  IN after[Len(sent)]

\* sendserver, once a second.
SendServer(s) ==
  LET r == SendQueue(s.sendq)
  IN IF ~Connected(s) THEN s
     ELSE IF Waiting(r.q) = 0 /\ r.sent = <<>> /\ s.exiting = "yes"
          THEN CloseServer([s EXCEPT !.sendq = r.q])
     ELSE [s EXCEPT !.sendq = r.q, !.server = Hears(@, r.sent)]

QuitServer_KeepQueue(s) ==   \* seeded defect: what waits is kept for the next server
  LET t == IF Connected(s) THEN CloseServer(SendNow(s, "QUIT", 0))
           ELSE IF s.conn.status \in {"SSL_HANDSHAKE", "TRYING"} THEN CloseServer(s)
           ELSE s
  IN To(t, "NEED_TO_CONNECT")
QuitServer(s) ==
  LET t == IF Connected(s) THEN CloseServer(SendNow(s, "QUIT", 0))
           ELSE IF s.conn.status \in {"SSL_HANDSHAKE", "TRYING"} THEN CloseServer(s)
           ELSE s
  IN [To(t, "NEED_TO_CONNECT") EXCEPT !.sendq = Cleaned(@)]

\* connectirc: forks the resolver, which may fail; an old one is forgotten.
ConnectIrc_KeepNext(s, forked) ==   \* seeded defect: always the first address
  [To(s, "RESOLVING") EXCEPT
     !.sendq.bucket = server_send_max, !.conn.quiet = reconnect_delay,
     !.lookup = [@ EXCEPT !.child = "running", !.mine = 0, !.answer = 0]]
ConnectIrc(s, forked) ==
  LET t == [s EXCEPT !.sendq.bucket = server_send_max, !.conn.quiet = reconnect_delay,
                     !.lookup = [@ EXCEPT !.child = "none", !.mine = 0, !.answer = 0,
                                               !.reset = FALSE]]
  IN IF ~forked THEN t
     ELSE [To(t, "RESOLVING") EXCEPT
             !.lookup = [@ EXCEPT !.child = "running", !.mine = s.lookup.next,
                                  !.next = Min2(s.lookup.next + 1, Addresses)]]

SwitchServer(s, forked) ==
  LET t == QuitServer(s)
  IN IF t.conn.offline THEN t
     ELSE [ConnectIrc(t, forked) EXCEPT !.conn.backoff = Min2(@ + 1, MaxBackoff),
                                        !.conn.servertime = 0]

JoinChannel(s) ==
  IF ~s.chan.known \/ s.chan.kicked \/ s.conn.age < waitjoin THEN s
  ELSE [Submit(s, "normal", "JOIN", 0) EXCEPT !.chan.members = {}]

\* initirc: log in on a new connection.
InitIrc(s) ==
  [SendNow(s, "NICK", 0) EXCEPT !.chan.on = FALSE, !.chan.lost = FALSE,
                               !.sendq.recentsent = 0]

\* handshake_ssl: "done", "again" later or "failed", at once without TLS.
HandshakeSsl(s, result) ==
  CASE ~use_ssl -> InitIrc(s)
    [] use_ssl /\ result = "done" -> InitIrc(To(s, "CONNECTED"))
    [] use_ssl /\ result = "again" -> To(s, "SSL_HANDSHAKE")
    [] OTHER -> CloseServer(s)
Result == IF use_ssl THEN {"done", "again", "failed"} ELSE {"done"}
-----------------------------------------------------------------------------
(* What the server says *)

Remember_Only(s, who) == [s EXCEPT !.chan.members = who]   \* seeded defect
Remember(s, who) == [s EXCEPT !.chan.members = @ \cup who]
Forget(s, who) == [s EXCEPT !.chan.members = @ \ who]

\* ir_parseline2, a kind of line each.
Welcomed_AsAsked(s, l) == [s EXCEPT !.me.number = 0]   \* seeded defect: nick as configured
Welcomed(s, l) == [s EXCEPT !.me = [nick |-> l.nick, number |-> 0]]
NickInUse(s) ==
  [Submit(s, "normal", "NICK", s.me.number + 1)
     EXCEPT !.me.number = Min2(@ + 1, MaxNick)]
Joined(s) == IF s.chan.known THEN [s EXCEPT !.conn.backoff = 0, !.chan.on = TRUE]
             ELSE [s EXCEPT !.conn.backoff = 0]
\* The names of a channel that is not in the list any more have it left.
NamesGot(s, l) == IF s.chan.known THEN Remember(s, l.who) ELSE Submit(s, "normal", "PART", 0)
Renamed(s, l) == [s EXCEPT !.me = [nick |-> l.nick, number |-> 0]]
Kicked_Stay(s) == [s EXCEPT !.chan.members = {}]   \* seeded defect: still counted as there
Kicked(s) ==
  IF ~s.chan.known THEN s
  ELSE IF s.chan.stay THEN [s EXCEPT !.chan.kicked = TRUE, !.chan.members = {}]
  ELSE JoinChannel([s EXCEPT !.chan.on = FALSE])
ForcedQuit(s) ==
  LET t == CloseServer(s) IN [To(t, "EXIT") EXCEPT !.sendq = Cleaned(@)]
ClosingLink(s) ==
  IF s.exiting # "no" THEN [s EXCEPT !.sendq.recentsent = 0] ELSE CloseServer(s)

Handle(s, l) ==
  CASE l.cmd = "001" -> Welcomed(s, l)
    [] l.cmd = "433" -> NickInUse(s)
    [] l.cmd = "353" -> NamesGot(s, l)
    [] l.cmd = "JOIN" -> IF s.chan.known THEN Remember(s, l.who) ELSE s
    [] l.cmd = "LEAVE" -> Forget(s, l.who)
    [] l.cmd = "NICK" /\ l.who \subseteq s.chan.members -> Remember(Forget(s, l.who), l.new)
    [] l.cmd = "JOIN_US" -> Joined(s)
    [] l.cmd = "NICK_US" -> Renamed(s, l)
    [] l.cmd = "KICK_US" -> Kicked(s)
    [] l.cmd = "QUIT_US" -> ForcedQuit(s)
    [] l.cmd = "ERROR" -> ClosingLink(s)
    [] OTHER -> s

\* Some lines, one after another, also after one that closes the connection.
HandleAll(s, lines) ==
  LET after[k \in 0..Len(lines)] == IF k = 0 THEN s ELSE Handle(after[k - 1], lines[k])
  IN after[Len(lines)]
-----------------------------------------------------------------------------
(* A pass of the main loop *)

Tick(s) ==
  [s EXCEPT !.conn.quiet = Min2(@ + 1, MaxQuiet), !.conn.age = Min2(@ + 1, waitjoin),
            !.sendq = Elapsed(@)]
TimedOut(s) ==
  s.conn.quiet > reconnect_delay + CTIMEOUT + s.conn.backoff * CBKTIMEOUT

\* What irc_perform does every second in a state, and sendserver after it.
EverySecond(s, status, forked) ==
  SendServer(
    CASE status \in {"TRYING", "SSL_HANDSHAKE"} /\ TimedOut(s) -> CloseServer(s)
      [] status = "RESOLVING" /\ TimedOut(s) -> To(s, "NEED_TO_CONNECT")
      [] status = "NEED_TO_CONNECT" /\ ~s.conn.offline /\ TimedOut(s) ->
           SwitchServer(s, forked)
      [] OTHER -> s)

\* A pass with an event on the network's socket; a second may start with it.
Pass(Event(_)) ==
  /\ \/ Becomes(Event(Now))
     \/ Becomes(EverySecond(Event(Tick(Now)), conn.status, TRUE))
  /\ UNCHANGED faults

Alive == exiting # "exited"
Fault == faults < MaxFaults /\ faults' = faults + 1

SecondWork(forked) == EverySecond(Tick(Now), conn.status, forked)
Second(forked) ==
  /\ Alive
  /\ Becomes(SecondWork(forked))
  /\ IF forked THEN UNCHANGED faults ELSE Fault

\* child_resolver: the address after those that were tried, if there is one.
AnswerOf(mine) == IF mine < Addresses THEN mine + 1 ELSE 1
ChildAnswers ==
  /\ lookup.child = "running"
  /\ lookup' = [lookup EXCEPT !.child = "done", !.answer = AnswerOf(lookup.mine), !.mine = 0,
                              !.reset = lookup.mine + 1 >= Addresses]
  /\ UNCHANGED <<conn, me, chan, sendq, exiting, server, faults>>
\* It ends: without an answer or too early, or killed or after its five seconds.
ChildEnds ==
  /\ lookup.child \in {"running", "done"}
  /\ lookup' = [lookup EXCEPT !.child = "dead", !.mine = 0]
  /\ IF conn.status = "RESOLVING" THEN Fault ELSE UNCHANGED faults
  /\ UNCHANGED <<conn, me, chan, sendq, exiting, server>>

\* irc_resolved.
Reap ==
  /\ Alive /\ lookup.child = "dead"
  /\ Becomes([To(Now, IF conn.status = "RESOLVING" THEN "NEED_TO_CONNECT" ELSE conn.status)
                 EXCEPT !.lookup = [@ EXCEPT !.child = "none", !.answer = 0, !.reset = FALSE]])
  /\ UNCHANGED faults

\* The resolver's answer is read; connectirc2.
Answered(s) ==
  [To(s, "TRYING") EXCEPT
     !.conn.quiet = reconnect_delay,
     !.lookup = [@ EXCEPT !.next = IF s.lookup.reset THEN 0 ELSE s.lookup.next,
                          !.addr = s.lookup.answer, !.answer = 0, !.reset = FALSE]]
ReadAnswer ==
  Alive /\ conn.status = "RESOLVING" /\ lookup.answer # 0 /\ Pass(Answered)
ReadAnswerFails ==
  /\ Alive /\ conn.status = "RESOLVING" /\ lookup.answer # 0
  /\ Becomes([To(Now, "NEED_TO_CONNECT") EXCEPT
                !.lookup = [@ EXCEPT !.next = IF lookup.reset THEN 0 ELSE lookup.next,
                                     !.answer = 0, !.reset = FALSE]])
  /\ Fault

\* The connection is there, or refused.
Established(s) ==
  [To(s, "CONNECTED") EXCEPT !.conn.age = 0, !.me.nick = 0, !.lookup.addr = 0,
                             !.server.link = "open"]
ConnectDone(result) ==
  /\ Alive /\ conn.status = "TRYING" /\ lookup.addr \in Accepting
  /\ LET event(s) == HandshakeSsl(Established(s), result) IN Pass(event)
ConnectFails ==
  /\ Alive /\ conn.status = "TRYING" /\ lookup.addr \in Refusing
  /\ LET event(s) == CloseServer([s EXCEPT !.lookup.addr = 0]) IN Pass(event)
HandshakeStep(result) ==
  /\ Alive /\ conn.status = "SSL_HANDSHAKE"
  /\ LET event(s) == HandshakeSsl(s, result) IN Pass(event)

\* Some lines are there: all of them are handled.
LinesRead(s, n) ==
  HandleAll(Heard([s EXCEPT !.server.lines = SubSeq(@, n + 1, Len(@))]),
            SubSeq(s.server.lines, 1, n))
Read(n) ==
  /\ Alive /\ conn.status = "CONNECTED" /\ n \in DOMAIN server.lines
  /\ LET event(s) == LinesRead(s, n) IN Pass(event)

\* The end of the stream.  errno is looked at even if no call has failed: with
\* EAGAIN left over in it the end goes unnoticed for this time.
Ended(s, errno) ==
  IF errno = "EAGAIN" THEN Heard(s)
  ELSE CloseServer(IF s.exiting = "no" THEN Heard(s)
                   ELSE [Heard(s) EXCEPT !.sendq.recentsent = 0])
ReadEnd(errno) ==
  /\ Alive /\ conn.status = "CONNECTED"
  /\ server.link = "closed" /\ server.lines = <<>>
  /\ LET event(s) == Ended(s, errno) IN Pass(event)

\* Every 5 seconds: three pings to a server that is silent, then give up; and the
\* pings that keep the bucket's server talking.
Silent(s) == Connected(s) /\ s.conn.quiet > reconnect_delay + SRVRTOUT
Probe(s) ==
  IF ~Silent(s) THEN s
  ELSE IF s.conn.servertime < 3
       THEN [s EXCEPT !.server = ServerGets(@, "PING", 0), !.conn.servertime = @ + 1]
       ELSE [CloseServer(s) EXCEPT !.conn.servertime = 0]
PingServer(s) ==
  IF s.sendq.recentsent = 0 THEN s
  ELSE [SendNow(s, "PING", 0) EXCEPT !.sendq.recentsent = @ - 1]
FiveWork == PingServer(Probe(Now))
FiveSeconds == Alive /\ Becomes(FiveWork) /\ UNCHANGED faults

\* Every 20 seconds: rejoin, regain the nick.
Regain(s) == IF s.me.nick = 0 THEN s ELSE Submit(s, "normal", "NICK", 0)
TwentyWork == Regain(IF Connected(Now) /\ ~chan.on THEN JoinChannel(Now) ELSE Now)
TwentySeconds ==
  /\ Alive /\ Waiting(sendq) < MaxWaiting
  /\ Becomes(TwentyWork)
  /\ UNCHANGED faults

Exit ==
  /\ exiting = "yes" /\ conn.status # "CONNECTED" /\ exiting' = "exited"
  /\ UNCHANGED <<conn, lookup, me, chan, sendq, server, faults>>
-----------------------------------------------------------------------------
(* The bot's work and its owner *)

\* Some part of the bot has something to say, or to announce in "wait" seconds.
Say(type) ==
  /\ Alive /\ Waiting(sendq) < MaxWaiting /\ Fault
  /\ Becomes(Submit(Now, type, "PRIVMSG", 0))
Announce(wait) ==
  /\ Alive /\ exiting = "no" /\ Connected(Now) /\ chan.on
  /\ Waiting(sendq) + Len(sendq.announce) < MaxWaiting /\ Fault
  /\ sendq' = [sendq EXCEPT !.announce = Append(@, [wait |-> wait, old |-> FALSE])]
  /\ UNCHANGED <<conn, lookup, me, chan, exiting, server>>

Hop ==
  /\ Alive /\ chan.known /\ Waiting(sendq) < MaxWaiting /\ Fault
  /\ Becomes(JoinChannel([Submit(Now, "normal", "PART", 0) EXCEPT
                            !.chan = [@ EXCEPT !.members = {}, !.on = FALSE, !.kicked = FALSE]]))
Dropped(c) == [c EXCEPT !.known = FALSE, !.on = FALSE, !.kicked = FALSE, !.members = {}]
Held(s) ==
  \/ s.server.on
  \/ \E i \in DOMAIN s.server.lines : s.server.lines[i].cmd = "JOIN_US"
  \/ \E i \in DOMAIN s.sendq.normal : s.sendq.normal[i].cmd = "JOIN"
Added(s) ==
  [s EXCEPT !.chan = [@ EXCEPT !.known = TRUE, !.on = FALSE, !.kicked = FALSE,
                               !.members = {}, !.lost = Held(s)]]
Part ==
  /\ Alive /\ chan.known /\ Waiting(sendq) < MaxWaiting /\ Fault
  /\ Becomes([Submit(Now, "normal", "PART", 0) EXCEPT !.chan = Dropped(@)])
\* It is joined by the job of 20 seconds.
Join == Alive /\ ~chan.known /\ Fault /\ Becomes(Added(Now))

Forgiven(c) == [c EXCEPT !.kicked = FALSE, !.lost = @ \/ (c.kicked /\ c.on)]

\* a_rehash_channels: the channel in the list and in the file, or in one of them.
RehashChannels(s, wanted, jump) ==
  CASE s.chan.known /\ wanted ->
         [s EXCEPT !.chan = Forgiven(@)]
    [] s.chan.known /\ ~wanted ->
         [(IF ~jump /\ s.chan.on THEN Submit(s, "normal", "PART", 0) ELSE s)
            EXCEPT !.chan = Dropped(@)]
    [] ~s.chan.known /\ wanted -> IF jump THEN Added(s) ELSE JoinChannel(Added(s))
    [] OTHER -> s
\* REHASH; jump: the way to connect or the vhost has changed in the file.
Rehash(wanted, jump) ==
  /\ Alive /\ Waiting(sendq) < MaxWaiting /\ Fault
  /\ LET s == RehashChannels([Now EXCEPT !.conn.offline = FALSE], wanted, jump)
     IN Becomes(IF jump THEN SwitchServer([s EXCEPT !.conn.backoff = 0], TRUE) ELSE s)
Jump(forked) ==
  /\ Alive /\ Fault
  /\ Becomes(SwitchServer([Now EXCEPT !.conn.backoff = 0], forked))
\* SIGUSR1
Switch(forked) == Alive /\ Fault /\ Becomes(SwitchServer(Now, forked))
Offline ==
  /\ Alive /\ Fault
  /\ Becomes([QuitServer(Now) EXCEPT
                !.chan = Dropped(@), !.me.nick = 0, !.conn.offline = TRUE])
Online ==
  /\ Alive /\ conn.offline /\ conn' = [conn EXCEPT !.offline = FALSE]
  /\ UNCHANGED <<lookup, me, chan, sendq, exiting, server, faults>>

\* shutdowniroffer: at once without a connection or when asked again.  The
\* transfers that are closed may leave a message in the queue.
Shutdown(left) ==
  /\ Alive
  /\ IF exiting = "yes" \/ ~Connected(Now) THEN Becomes([Now EXCEPT !.exiting = "exited"])
     ELSE LET s == [Now EXCEPT !.sendq = Cleaned(@)]
              t == IF left THEN Submit(s, "normal", "PRIVMSG", 0) ELSE s
          IN Becomes([t EXCEPT !.server = ServerGets(@, "QUIT", 0), !.exiting = "yes"])
  /\ UNCHANGED faults
-----------------------------------------------------------------------------
(* The server *)

Changes(v) == server' = v /\ UNCHANGED <<conn, lookup, me, chan, sendq, exiting>>
Tell(v, cmd, who) == IF v.on THEN Says(v, cmd, who, 0) ELSE v
Room == Len(server.lines) < MaxLines

PersonJoins(p) ==
  /\ p \notin server.users /\ Room /\ Fault
  /\ Changes(Tell([server EXCEPT !.users = @ \cup {p}], "JOIN", {p}))
PersonLeaves(p) ==
  /\ p \in server.users /\ Room /\ Fault
  /\ Changes(Tell([server EXCEPT !.users = @ \ {p}], "LEAVE", {p}))
PersonRenames(p, q) ==
  /\ p \in server.users /\ q \notin server.users /\ Room /\ Fault
  /\ LET renamed == [server EXCEPT !.users = (@ \ {p}) \cup {q}]
     IN Changes(IF renamed.on THEN SaysNick(renamed, p, q) ELSE renamed)
TakeNick(n) ==
  /\ n \notin server.taken /\ ~(server.registered /\ server.nick = n) /\ Fault
  /\ Changes([server EXCEPT !.taken = @ \cup {n}])
FreeNick(n) ==
  /\ n \in server.taken /\ Changes([server EXCEPT !.taken = @ \ {n}]) /\ UNCHANGED faults
KickUs ==
  /\ server.on /\ Room /\ Fault
  /\ Changes(Says([server EXCEPT !.on = FALSE], "KICK_US", {}, 0))
KillUs ==
  /\ server.registered /\ Room /\ Fault
  /\ Changes(HangsUp(Says(Says([server EXCEPT !.killed = TRUE], "QUIT_US", {}, 0),
                          "ERROR", {}, 0)))
ServerDies(says) ==
  /\ server.link \in {"open", "silent"} /\ Room /\ Fault
  /\ Changes(HangsUp(IF says /\ server.link = "open" THEN Says(server, "ERROR", {}, 0)
                     ELSE server))
GoesSilent ==
  /\ server.link = "open" /\ Fault
  /\ Changes([server EXCEPT !.link = "silent", !.lines = <<>>])

Handled ==
  \/ Reap \/ ReadAnswer \/ ConnectFails \/ ReadEnd("other") \/ Exit
  \/ \E r \in Result \ {"again"} : ConnectDone(r) \/ HandshakeStep(r)
  \/ \E n \in 1..(MaxLines + 2) : Read(n)
Events ==
  \/ ChildAnswers \/ ChildEnds \/ ReadAnswerFails \/ Handled \/ ReadEnd("EAGAIN")
  \/ \E r \in Result \cap {"again"} : ConnectDone(r) \/ HandshakeStep(r)
Owner ==
  \/ \E type \in Queue : Say(type)
  \/ \E wait \in 0..1 : Announce(wait)
  \/ Hop \/ Part \/ Join \/ Offline \/ Online
  \/ \E wanted, jump \in BOOLEAN : Rehash(wanted, jump)
  \/ \E forked \in BOOLEAN : Jump(forked) \/ Switch(forked)
  \/ \E left \in BOOLEAN : Shutdown(left)
World ==
  \/ \E p \in Person : PersonJoins(p) \/ PersonLeaves(p)
  \/ \E p, q \in Person : PersonRenames(p, q)
  \/ \E n \in {0, 1} : TakeNick(n) \/ FreeNick(n)
  \/ KickUs \/ KillUs \/ GoesSilent
  \/ \E says \in BOOLEAN : ServerDies(says)
Periods == FiveSeconds \/ TwentySeconds \/ \E forked \in BOOLEAN : Second(forked)
Next == Periods \/ Events \/ Owner \/ World

Spec == Init /\ [][Next]_vars

\* For liveness the world is prompt: what answers at all answers within a second,
\* and what the loop has to handle it handles in the second in which it is there, and
\* 20 seconds are enough to send what the job of 20 seconds has queued.
\* The loop runs and does its jobs; errno is not EAGAIN and a TLS handshake not
\* asked to wait for ever.
Answering == conn.status = "RESOLVING" /\ lookup.child \in {"running", "done"}
Pending ==
  \/ Answering \/ lookup.child = "dead"
  \/ conn.status = "TRYING" /\ lookup.addr \in Accepting \cup Refusing
  \/ conn.status = "CONNECTED" /\ (server.lines # <<>> \/ server.link = "closed")
  \/ exiting = "yes" /\ conn.status # "CONNECTED"
JobSent == \A i \in DOMAIN sendq.normal : sendq.normal[i].cmd \notin {"NICK", "JOIN"}
PromptNext ==
  \/ ~Pending /\ (FiveSeconds \/ (JobSent /\ TwentySeconds) \/ \E f \in BOOLEAN : Second(f))
  \/ Events \/ Owner \/ World
\* Weak fairness of handling, strong fairness of the periodic work, with what
\* enables them written out.
Fairness ==
  /\ <>[]Pending => []<><<Handled \/ (Answering /\ ChildAnswers)>>_vars
  /\ []<>(Alive /\ ~Pending /\ SecondWork(TRUE) # Now) => []<><<Second(TRUE)>>_vars
  /\ []<>(Alive /\ ~Pending /\ FiveWork # Now) => []<><<FiveSeconds>>_vars
  /\ []<>(Alive /\ ~Pending /\ Waiting(sendq) < MaxWaiting /\ JobSent /\ TwentyWork # Now)
       => []<><<TwentySeconds>>_vars
LiveSpec == Init /\ [][PromptNext]_vars /\ Fairness
-----------------------------------------------------------------------------
(* Properties *)

TypeOK ==
  /\ conn \in ConnRecord /\ lookup \in LookupRecord /\ chan \in ChanRecord
  /\ me \in [nick : Nick, number : 0..MaxNick]
  /\ sendq \in QueueRecord /\ server \in ServerRecord
  /\ exiting \in {"no", "yes", "exited"} /\ faults \in 0..MaxFaults

\* Nothing is on its way in either direction.
Settled ==
  /\ conn.status = "CONNECTED" /\ server.link = "open" /\ server.registered
  /\ server.lines = <<>> /\ Waiting(sendq) = 0

\* Whatever happens to nicks at the same time, the bot knows its own.
NickBelief == Settled => me.nick = server.nick

\* It knows whether it is in the channel: one it believes to have left or lost it
\* would join again, one it believes to be in it would never join again.
ChannelBelief ==
  Settled /\ chan.known /\ ~chan.kicked /\ ~chan.lost => chan.on = server.on

\* Nobody who is in the channel is missing in the member list, which restrictsend
\* consults before it removes somebody from a queue.
MembersKnown == Settled /\ chan.known /\ chan.on /\ server.on => server.users \subseteq chan.members

\* No message is sent on another connection than the one it was written for.
NoStaleMessage == ~server.gotold

\* A shutdown ends, whatever waits to be sent and whether the server answers.
ShutdownEnds == exiting = "yes" ~> exiting = "exited"

\* A network that is wanted comes back to its channel, if only one of the server's
\* addresses accepts connections.
Back == chan.on /\ server.on
Excused == \/ conn.offline \/ conn.status = "EXIT" \/ exiting # "no"
           \/ chan.kicked \/ ~chan.known \/ chan.lost
Reconnects == []<>(Back \/ Excused)

\* What waits is sent or dropped.
QueueDrains == []<>(Waiting(sendq) = 0 \/ exiting = "exited")
=============================================================================
