------------------------------ MODULE Transfer ------------------------------
(***************************************************************************)
(* One file sent to one user: src/iroffer_transfer.c, src/dinoex_transfer.c*)
(* and the listening ports of src/iroffer_utilities.c.                     *)
(*                                                                         *)
(* All transfers of a pack read the file through one descriptor, opened by *)
(* the first that is connected and closed by the last that ends; its place *)
(* is cached in file_fd_location.  With mmap they share mapped segments.   *)
(* A transfer goes through listening (or waiting for a passive peer),      *)
(* connecting, sending and waiting for the last acknowledgement; any of    *)
(* these may fail, time out or be closed by another handler.               *)
(*                                                                         *)
(* Abstracted: a file is a row of units of TXSIZE bytes; bandwidth limits  *)
(* may stop a transfer for a while; reminders and texts; the clock counts  *)
(* visits of the one-second job, Patience of them standing for 180 s; the  *)
(* decoding of acknowledgements; one round of the loop in t_transfersome is*)
(* a step.  Left out: the pack list and the state file sent as packs, which*)
(* init_xdcc_file reads again while they are being sent, and empty files,  *)
(* which ADD refuses.                                                      *)
(***************************************************************************)
EXTENDS Naturals, FiniteSets

CONSTANTS
  Id,                       \* transfer ids, enough for maxtrans
  Pack, Size,               \* st_size of a pack
  Large,                    \* the packs of more than 4 GB
  Kind,                     \* what is asked for, see KindRecord
  Addr4, Addr6, NoAddr,     \* addresses of peers; NoAddr is the zero one
  Denied,                   \* addresses xdcc_deny refuses
  maxtrans, maxtransfersperperson, ignore_duplicate_ip, mirc_dcc64,
  tcprangestart, tcprangelimit, PortMod, Ephemeral,
  SegSize,                  \* IR_MMAP_SIZE in units
  Patience

Addr == Addr4 \cup Addr6

\* man: sent by an administrator, whose host is "man"; family and passive: of the
\* bot's address, or as the user's options say.
KindRecord == [man : BOOLEAN, family : {4, 6}, passive : BOOLEAN]

ASSUME TransferAssumption ==
  /\ IsFiniteSet(Id) /\ Size \in [Pack -> Nat \ {0}] /\ Large \subseteq Pack
  /\ Kind \subseteq KindRecord
  /\ NoAddr \notin Addr /\ Addr4 \cap Addr6 = {} /\ Denied \subseteq Addr
  /\ maxtrans \in Nat \ {0} /\ maxtransfersperperson \in Nat
  /\ ignore_duplicate_ip \in BOOLEAN /\ mirc_dcc64 \in BOOLEAN
  /\ PortMod \in Nat \ {0} /\ tcprangestart \in 0..(PortMod - 1)
  /\ tcprangelimit \in 0..(PortMod - 1) /\ Ephemeral \subseteq 1..(PortMod - 1)
  /\ SegSize \in Nat \ {0} /\ Patience \in Nat

VARIABLES
  trans,             \* the transfers by id
  file,              \* per pack: descriptor, its users and mapped segments
  listen_ports,      \* ports given out
  transfermethod

vars == <<trans, file, listen_ports, transfermethod>>

Status == {"RESUME", "LISTENING", "CONNECTING", "SENDING", "WAITING", "DONE"}
Method == {"sendfile", "mmap", "read_write"}
Port == 0..(PortMod - 1)
Segment == Nat

\* lsock, csock: the sockets that are open; remote: the peer; remoteip: what is
\* kept of an IPv4 peer; mmap: the mapped segment in use, if any; intact: each
\* unit the peer was sent is the unit of the file at that place; flushed:
\* t_flushed has counted the download.
Record == [pack : Pack, man : BOOLEAN, family : {4, 6}, status : Status,
           start : Nat, sent : Nat, ack : Nat, age : Nat, port : Port,
           lsock : BOOLEAN, csock : BOOLEAN,
           remote : Addr \cup {NoAddr}, remoteip : Addr4 \cup {NoAddr},
           dcc64 : BOOLEAN, mmap : SUBSET Segment,
           intact : BOOLEAN, flushed : BOOLEAN]

\* count: file_fd_count; fd: file_fd is open; loc: file_fd_location; pos: where
\* the kernel reads next; refs: ref_count of the mapped segments.
Segments(p) == 0..(Size[p] \div SegSize)

TypeOK ==
  /\ DOMAIN trans \subseteq Id /\ \A i \in DOMAIN trans : trans[i] \in Record
  /\ DOMAIN file = Pack
  /\ \A p \in Pack :
       file[p] \in [count : Nat, fd : BOOLEAN, loc : 0..Size[p],
                    pos : 0..Size[p], refs : [Segments(p) -> Nat]]
  /\ listen_ports \subseteq Port
  /\ transfermethod \in Method

Init ==
  /\ trans = <<>>
  /\ file = [p \in Pack |-> [count |-> 0, fd |-> FALSE, loc |-> 0, pos |-> 0,
                             refs |-> [k \in Segments(p) |-> 0]]]
  /\ listen_ports = {}
  /\ transfermethod = "sendfile"

-----------------------------------------------------------------------------
(* Handlers call each other on the way; each helper maps a state to a state *)

Now == [trans |-> trans, file |-> file, ports |-> listen_ports]
Becomes(s) == trans' = s.trans /\ file' = s.file /\ listen_ports' = s.ports

With(s, i, t) == [s EXCEPT !.trans = [s.trans EXCEPT ![i] = t]]

\* n users of the pack's descriptor less; the last one closes it.
Release_Off(f, n) ==   \* seeded defect: closed while one user is left
  [f EXCEPT !.count = @ - n, !.fd = @ /\ f.count > n + 1]
Release_Twice(f, n) == [f EXCEPT !.count = @ - 2 * n, !.fd = FALSE]   \* seeded defect
Release(f, n) ==
  [f EXCEPT !.count = @ - n,
            !.fd = @ /\ f.count # n,
            !.loc = IF f.fd /\ f.count = n THEN 0 ELSE @]

\* The transfers of S give up their mapped segments.
Unref(s, p, S) ==
  [k \in DOMAIN s.file[p].refs |->
     s.file[p].refs[k] - Cardinality({i \in S : s.trans[i].pack = p
                                               /\ k \in s.trans[i].mmap})]

\* A transfer that is closed, and the ports that are free when S is closed.
Ended_Socket(t) == [t EXCEPT !.status = "DONE", !.lsock = FALSE, !.mmap = {}]  \* defect
Ended(t) == [t EXCEPT !.status = "DONE", !.lsock = FALSE, !.csock = FALSE, !.mmap = {}]

PortsOf_None(s, S) == {}   \* seeded defect
PortsOf_Any(s, S) == {s.trans[i].port : i \in S}   \* seeded defect
PortsOf(s, S) == {s.trans[i].port : i \in {j \in S : s.trans[j].status = "LISTENING"}}

\* t_closeconn on each transfer of S; nothing on one that is done.
CloseAll(s, S) ==
  LET live == {i \in S : s.trans[i].status # "DONE"}
      of(p) == {i \in live : s.trans[i].pack = p}
  IN [trans |-> [i \in DOMAIN s.trans |->
                   IF i \in live THEN Ended(s.trans[i]) ELSE s.trans[i]],
      file |-> [p \in Pack |->
                  IF of(p) = {} THEN s.file[p]
                  ELSE [Release(s.file[p], Cardinality(of(p)))
                          EXCEPT !.refs = Unref(s, p, live)]],
      ports |-> s.ports \ PortsOf(s, live)]
CloseConn(s, i) == CloseAll(s, {i})

\* ir_bind_listen_socket: the ports it may get, when other programs hold those
\* of "taken".  port is a 16-bit number; bind to port 0 lets the system choose.
PortTry(r) == (tcprangestart + r) % PortMod
Bindable(s, taken) ==
  LET max == maxtrans + Cardinality(s.ports)
      bound == {s.trans[i].port : i \in {j \in DOMAIN s.trans : s.trans[j].lsock}}
      free == (1..(PortMod - 1)) \ (taken \cup bound)
      good == {r \in 0..(max - 1) : /\ \A q \in 0..r : PortTry(q) <= tcprangelimit
                                    /\ PortTry(r) \notin s.ports
                                    /\ PortTry(r) \in free \cup {0}}
      first == CHOOSE r \in good : \A q \in good : r <= q
  IN IF tcprangestart = 0 THEN Ephemeral \cap free
     ELSE IF good = {} THEN {}
     ELSE IF PortTry(first) = 0 THEN Ephemeral \cap free
     ELSE {PortTry(first)}

\* t_setuplisten: a port and a listening socket, or a failure.  A port whose
\* socket cannot listen stays in the list.
SetupListen(s, i, taken) ==
  {CloseConn(s, i)}
  \cup {[With(s, i, [s.trans[i] EXCEPT !.status = "LISTENING", !.lsock = TRUE,
                                      !.port = x])
           EXCEPT !.ports = @ \cup {x}] : x \in Bindable(s, taken)}
  \cup {[CloseConn(s, i) EXCEPT !.ports = @ \cup {x}] : x \in Bindable(s, taken)}

\* t_setup_send: the client's socket is open; the first transfer of a pack opens
\* the file, or fails to.
SetupSend(s, i, opens) ==
  LET t == [s.trans[i] EXCEPT !.status = "SENDING"]
      f == s.file[t.pack]
      new == ~f.fd
      u == [t EXCEPT !.dcc64 = @ \/ (new /\ mirc_dcc64 /\ t.pack \in Large),
                     !.sent = t.start, !.age = 0]
      g == IF new THEN [f EXCEPT !.fd = TRUE, !.loc = 0, !.pos = 0] ELSE f
      opened == [With(s, i, u) EXCEPT !.file = [s.file EXCEPT ![t.pack] = g]]
  IN IF new /\ ~opens THEN CloseConn(With(s, i, t), i)
     ELSE IF t.remote \in Denied THEN CloseConn(opened, i)
     ELSE With(opened, i, [u EXCEPT !.remoteip = IF t.family = 4 THEN t.remote ELSE @])

TooMany_OffByOne(same) == Cardinality(same) > maxtransfersperperson + 1   \* defect
TooMany(same) == Cardinality(same) > maxtransfersperperson

\* t_check_duplicateip, after a peer was accepted or accepting it failed.
CheckDuplicateIp(s, i) ==
  LET same == {j \in DOMAIN s.trans :
                 /\ s.trans[j].status = "SENDING" /\ ~s.trans[j].man
                 /\ s.trans[j].remoteip = s.trans[i].remoteip}
  IN IF /\ ignore_duplicate_ip /\ maxtransfersperperson # 0
        /\ s.trans[i].family = 4
        /\ TooMany(same)
       THEN CloseAll(s, same)
       ELSE s

\* What was sent is complete: the segment is given up, the last
\* acknowledgement is waited for.
SentSome(s, i, m, from) ==
  LET t == s.trans[i]
      u == [t EXCEPT !.sent = @ + m,
                     !.age = IF m > 0 THEN 0 ELSE @,
                     !.intact = @ /\ (m = 0 \/ from = t.sent)]
      all == u.sent >= Size[t.pack]
  IN IF ~all THEN With(s, i, u)
     ELSE [With(s, i, [u EXCEPT !.status = "WAITING", !.mmap = {}])
             EXCEPT !.file = [s.file EXCEPT ![t.pack].refs = Unref(s, t.pack, {i})]]

-----------------------------------------------------------------------------
(* The handlers *)

OfPack(p) == {i \in DOMAIN trans : trans[i].pack = p}

\* create_transfer and t_setup_dcc, after look_for_file_changes.
Create(i, p, kind) ==
  /\ i \in Id \ DOMAIN trans /\ Cardinality(DOMAIN trans) < maxtrans
  /\ \E changed \in BOOLEAN, taken \in SUBSET Port :
       LET s0 == IF changed THEN CloseAll(Now, OfPack(p)) ELSE Now
           t == [pack |-> p, man |-> kind.man, family |-> kind.family,
                 status |-> "RESUME", start |-> 0, sent |-> 0, ack |-> 0,
                 age |-> 0, port |-> 0, lsock |-> FALSE, csock |-> FALSE,
                 remote |-> NoAddr, remoteip |-> NoAddr, dcc64 |-> FALSE,
                 mmap |-> {}, intact |-> TRUE, flushed |-> FALSE]
           s1 == [s0 EXCEPT
                    !.trans = [j \in DOMAIN s0.trans \cup {i} |->
                                 IF j = i THEN t ELSE s0.trans[j]],
                    !.file = [s0.file EXCEPT ![p].count = @ + 1]]
       IN \/ kind.passive /\ taken = {} /\ Becomes(s1)
          \/ ~kind.passive /\ \E s2 \in SetupListen(s1, i, taken) : Becomes(s2)
  /\ UNCHANGED transfermethod

\* DCC RESUME of the user, before he is connected.
FindResume(i, start) ==
  /\ trans[i].status \in {"LISTENING", "RESUME"}
  /\ start < Size[trans[i].pack]
  /\ trans' = [trans EXCEPT ![i].start = start, ![i].ack = start]
  /\ UNCHANGED <<file, listen_ports, transfermethod>>

\* DCC SEND of a passive user: t_find_transfer and t_passive.
Passive(i, a) ==
  /\ trans[i].status = "RESUME"
  /\ LET s == With(Now, i, [trans[i] EXCEPT !.remote = a, !.csock = TRUE])
     IN \/ Becomes(CloseConn(s, i))
        \/ a \notin Denied
           /\ Becomes(With(s, i, [s.trans[i] EXCEPT !.status = "CONNECTING"]))
  /\ UNCHANGED transfermethod

Connected(i) ==
  /\ trans[i].status = "CONNECTING"
  /\ \/ Becomes(CloseConn(Now, i))
     \/ \E opens \in BOOLEAN : Becomes(SetupSend(Now, i, opens))
  /\ UNCHANGED transfermethod

\* t_check_new_connection: somebody connects to the port.
NewConnection(i) ==
  /\ trans[i].status = "LISTENING"
  /\ \/ Becomes(CheckDuplicateIp(CloseConn(Now, i), i))
     \/ \E a \in IF trans[i].family = 4 THEN Addr4 ELSE Addr6, opens \in BOOLEAN :
          LET s == [With(Now, i, [trans[i] EXCEPT !.remote = a, !.csock = TRUE,
                                                  !.lsock = FALSE])
                      EXCEPT !.ports = @ \ {trans[i].port}]
          IN Becomes(CheckDuplicateIp(SetupSend(s, i, opens), i))
  /\ UNCHANGED transfermethod

\* t_transfersome, one method each; n units are read, m of them are taken by
\* the socket.
SendFile(i) ==
  /\ trans[i].status = "SENDING" /\ transfermethod = "sendfile"
  /\ \/ \E m \in 0..(Size[trans[i].pack] - trans[i].sent) :
          Becomes(SentSome(Now, i, m, trans[i].sent))
        /\ UNCHANGED transfermethod
     \/ UNCHANGED <<trans, file, listen_ports>> /\ transfermethod' = "mmap"

Seek_Cached(f, sent) == f   \* seeded defect: the place is never looked at
Seek(f, sent) == IF f.loc = sent THEN f ELSE [f EXCEPT !.loc = sent, !.pos = sent]

ReadWrite(i) ==
  /\ trans[i].status = "SENDING" /\ transfermethod = "read_write"
  /\ LET t == trans[i]
         f == Seek(file[t.pack], t.sent)
     IN \E n \in 0..(Size[t.pack] - f.pos) : \E m \in 0..n :
          LET s == [Now EXCEPT !.file =
                      [file EXCEPT ![t.pack] = [f EXCEPT !.loc = @ + n, !.pos = @ + n]]]
          IN Becomes(SentSome(s, i, m, f.pos))
  /\ UNCHANGED transfermethod

\* The segment that holds the next byte, taken over from another transfer of
\* the pack or mapped anew; the one left behind is given up.
Mapped_Once(s, i, k) ==   \* seeded defect: a segment taken over is not counted
  LET t == s.trans[i]
      refs == Unref(s, t.pack, {i})
  IN [With(s, i, [t EXCEPT !.mmap = {k}])
        EXCEPT !.file = [s.file EXCEPT ![t.pack].refs = [refs EXCEPT ![k] = 1]]]
Mapped(s, i, k) ==
  LET t == s.trans[i]
      p == t.pack
      refs == Unref(s, p, {i})
  IN IF k \in t.mmap THEN s
     ELSE [With(s, i, [t EXCEPT !.mmap = {k}])
             EXCEPT !.file = [s.file EXCEPT ![p].refs = [refs EXCEPT ![k] = @ + 1]]]

MapWrite(i) ==
  /\ trans[i].status = "SENDING" /\ transfermethod = "mmap"
  /\ LET t == trans[i]
         p == t.pack
         k == t.sent \div SegSize
         s == Mapped(Now, i, k)
         end == IF (k + 1) * SegSize < Size[p] THEN (k + 1) * SegSize ELSE Size[p]
         dropped == [With(Now, i, [t EXCEPT !.mmap = {}])
                       EXCEPT !.file = [file EXCEPT ![p].refs = Unref(Now, p, {i})]]
     IN \/ /\ \E m \in 0..(end - t.sent) : Becomes(SentSome(s, i, m, t.sent))
           /\ UNCHANGED transfermethod
        \/ /\ k \notin t.mmap /\ file[p].refs[k] = 0
           /\ Becomes(dropped) /\ transfermethod' = "read_write"

\* A send or read fails, or mmap does for another reason than memory.
SendFails(i) ==
  /\ trans[i].status = "SENDING"
  /\ Becomes(CloseConn(Now, i))
  /\ UNCHANGED transfermethod

\* t_readjunk, then t_flushed when everything was sent and acknowledged.  The
\* peer acknowledges some of what it got, or nothing new: part of a number, or
\* what it had acknowledged before.  Any byte defers the timeout.  Or it is gone.
FlushedAt(t, a) == t.status = "WAITING" /\ a >= Size[t.pack]

ReadJunk(i) ==
  /\ trans[i].status \in {"SENDING", "WAITING"}
  /\ \/ Becomes(CloseConn(Now, i))
     \/ \E a \in trans[i].ack..trans[i].sent :
          LET t == [trans[i] EXCEPT !.ack = a, !.age = 0]
          IN /\ trans' = [trans EXCEPT ![i] =
                            IF FlushedAt(t, a)
                              THEN [t EXCEPT !.status = "DONE", !.csock = FALSE,
                                             !.flushed = TRUE]
                              ELSE t]
             /\ file' = IF FlushedAt(t, a)
                          THEN [file EXCEPT ![t.pack] = Release(@, 1)] ELSE file
             /\ UNCHANGED listen_ports
  /\ UNCHANGED transfermethod

Without(s, i) ==
  [s EXCEPT !.trans = [j \in DOMAIN s.trans \ {i} |-> s.trans[j]]]

\* The visit of the one-second job: t_istimeout, then deletion when done.
Late_Sending(t) == t.status = "SENDING" /\ t.age >= Patience   \* seeded defect
Late(t) == t.status # "DONE" /\ t.age >= Patience

Second(i) ==
  /\ i \in DOMAIN trans
  /\ IF Late(trans[i]) THEN Becomes(Without(CloseConn(Now, i), i))
     ELSE IF trans[i].status = "DONE" THEN Becomes(Without(Now, i))
     ELSE /\ trans' = [trans EXCEPT ![i].age = IF @ < Patience THEN @ + 1 ELSE @]
          /\ UNCHANGED <<file, listen_ports>>
  /\ UNCHANGED transfermethod

\* CANCEL, CLOSE, BANN, minspeed, restrictsend, transfer limits, shutdown.
Close(i) ==
  /\ i \in DOMAIN trans
  /\ Becomes(CloseConn(Now, i))
  /\ UNCHANGED transfermethod

\* look_for_file_changes of a changed file; CHFILE and REMOVE do the same.
FileChanged(p) ==
  /\ Becomes(CloseAll(Now, OfPack(p)))
  /\ UNCHANGED transfermethod

\* ir_listen_port_is_in_list forgets a port after 30 minutes, long after its
\* transfer has timed out.
PortExpires ==
  /\ \E x \in listen_ports \ PortsOf(Now, DOMAIN trans) :
       listen_ports' = listen_ports \ {x}
  /\ UNCHANGED <<trans, file, transfermethod>>

Step(i) ==
  \/ \E start \in 0..Size[trans[i].pack] : FindResume(i, start)
  \/ \E a \in IF trans[i].family = 4 THEN Addr4 ELSE Addr6 : Passive(i, a)
  \/ Connected(i) \/ NewConnection(i)
  \/ SendFile(i) \/ MapWrite(i) \/ ReadWrite(i) \/ SendFails(i)
  \/ ReadJunk(i) \/ Close(i)

Next ==
  \/ \E i \in Id, p \in Pack, kind \in Kind : Create(i, p, kind)
  \/ \E i \in DOMAIN trans : Step(i) \/ Second(i)
  \/ \E p \in Pack : FileChanged(p)
  \/ PortExpires

Spec == Init /\ [][Next]_vars

\* The main loop visits each transfer every second.
LiveSpec == Spec /\ \A i \in Id : WF_vars(Second(i))
-----------------------------------------------------------------------------
(* Properties *)

LiveOf(p) == {i \in DOMAIN trans : trans[i].pack = p /\ trans[i].status # "DONE"}

\* The descriptor of a pack is counted once for each transfer that has not
\* ended, is open while one of them sends, and is closed with the last: what
\* cancel_md5_hash asserts after look_for_file_changes has closed them all.
SharedDescriptor ==
  \A p \in Pack :
    /\ file[p].count = Cardinality(LiveOf(p))
    /\ file[p].fd => LiveOf(p) # {}
    /\ (\E i \in LiveOf(p) : trans[i].status \in {"SENDING", "WAITING"}) => file[p].fd

\* A mapped segment is counted once for each transfer that reads from it, over
\* the switch of method, the takeover of a segment and every way to end: it is
\* never unmapped under a reader and never kept without one.
MapsCounted ==
  \A p \in Pack : \A k \in Segments(p) :
    file[p].refs[k] = Cardinality({i \in LiveOf(p) : k \in trans[i].mmap})

\* What transfers of a pack share is counted right, whoever ends when and how.
FileShared == SharedDescriptor /\ MapsCounted

\* Transfers of a pack read through one descriptor, each at its own place; the
\* cached place of t_transfersome sends none of them bytes of another place.
StreamIntact == \A i \in DOMAIN trans : trans[i].intact

\* t_flushed counts a download only when the user has acknowledged all of the
\* file, each byte was sent and the transfer is closed at once.
CountedComplete ==
  \A i \in DOMAIN trans :
    trans[i].flushed =>
      /\ trans[i].status = "DONE"
      /\ trans[i].ack = Size[trans[i].pack] /\ trans[i].sent = Size[trans[i].pack]

\* Each user gets the bytes of the file, and is counted when he has them all.
FileReceived == StreamIntact /\ CountedComplete

\* A transfer holds the sockets its state needs and no others: what t_select_fdset
\* and t_perform hand to select and FD_ISSET is an open socket, and a transfer
\* that is deleted leaves none open.
SocketsFollowStatus ==
  \A i \in DOMAIN trans :
    /\ trans[i].lsock <=> trans[i].status = "LISTENING"
    /\ trans[i].csock <=> trans[i].status \in {"CONNECTING", "SENDING", "WAITING"}

\* A port somebody listens on stays in listen_ports until he has a connection
\* or ends, also when a transfer that once had the same port ends meanwhile.
ListenersKnown ==
  \A i \in DOMAIN trans :
    trans[i].status = "LISTENING" => trans[i].port \in listen_ports

\* A transfer holds the sockets and the port of the state it is in, and no others.
SocketsKnown == SocketsFollowStatus /\ ListenersKnown

\* A transfer that stops listening, for whatever reason, gives its port back:
\* nobody has to wait for the 30 minutes of ir_listen_port_is_in_list.  (A
\* step that also starts a transfer may give the port out again.)
PortReturned ==
  [][\A i \in DOMAIN trans :
       /\ trans[i].status = "LISTENING"
       /\ i \notin DOMAIN trans' \/ trans'[i].status # "LISTENING"
       /\ DOMAIN trans' \subseteq DOMAIN trans
       => trans[i].port \notin listen_ports']_vars

\* After a user has connected to a port, no more than maxtransfersperperson
\* transfers send to his address: t_check_duplicateip ends them all otherwise.
DuplicatesEnded ==
  [][\A i \in DOMAIN trans \cap DOMAIN trans' :
       /\ ignore_duplicate_ip /\ maxtransfersperperson # 0
       /\ trans[i].status = "LISTENING" /\ trans[i].family = 4
       /\ trans'[i].status = "SENDING"
       => Cardinality({j \in DOMAIN trans' :
                         /\ trans'[j].status = "SENDING" /\ ~trans'[j].man
                         /\ trans'[j].remote = trans'[i].remote})
            <= maxtransfersperperson]_vars

\* The peer sends bytes that acknowledge nothing new.
Chatter(i) ==
  /\ i \in DOMAIN trans /\ ReadJunk(i)
  /\ trans' = [trans EXCEPT ![i].age = 0]

\* Every transfer ends and leaves the list, unless its peer sends bytes that
\* acknowledge nothing new for ever.  t_istimeout sees each state; progress, of
\* which there is a file's worth, and such bytes, which t_readjunk takes as
\* contact like any others, are all that defers it.
Ends == \A i \in Id : []<>(i \notin DOMAIN trans) \/ []<><<Chatter(i)>>_vars

\* sample.config, mirc_dcc64: "All transfers greater 4GB will use mIRC style
\* 64bit DCC."  t_setup_send decides it only for the one that opens the file.
Dcc64All ==
  mirc_dcc64 => \A i \in DOMAIN trans :
    trans[i].status = "SENDING" /\ trans[i].pack \in Large => trans[i].dcc64

\* README.modDinoex, ignore_duplicate_ip: "Detect faked hostmasks and abort
\* multiple transfers to the same host."  So the other transfers that
\* t_check_duplicateip aborts after a connection were sent to one host.
AbortsOneHost ==
  [][\A i \in DOMAIN trans : NewConnection(i) =>
       \A j, k \in DOMAIN trans \ {i} :
         /\ trans[j].status = "SENDING" /\ trans'[j].status = "DONE"
         /\ trans[k].status = "SENDING" /\ trans'[k].status = "DONE"
         => trans[j].remote = trans[k].remote]_vars
=============================================================================
