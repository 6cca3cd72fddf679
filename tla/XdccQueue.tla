------------------------------ MODULE XdccQueue ------------------------------
(***************************************************************************)
(* The request queues of the bot: src/dinoex_queue.c and every handler     *)
(* that calls it.                                                          *)
(*                                                                         *)
(* A user asks for a pack (XDCC SEND).  The request starts a transfer, or  *)
(* waits in the main queue, or waits in the idle queue, which feeds the    *)
(* main queue.  The bot is one event loop: a handler runs to its end       *)
(* before the next one starts.  The functions that start queued transfers  *)
(* call each other in tail position (send_from_queue ends in               *)
(* check_idle_queue, which ends in start_one_send, which ends in           *)
(* send_from_queue), so the C stack they share is the variable "calls": a  *)
(* handler that calls one of them pushes a frame, and no handler runs      *)
(* while a frame is left.                                                  *)
(*                                                                         *)
(* Abstracted: texts, notices, logging; the clock (a network that was      *)
(* silent for more than 150 s is "stale"); access checks of XDCC SEND      *)
(* (host, group, password, NOSEND), which refuse and change nothing.       *)
(* The configuration files do not change while the bot runs, so auto_rehash*)
(* finds nothing to do, and send_statefile, by which the bot sends its own *)
(* state file to its owner every hour, is not set.                         *)
(***************************************************************************)
EXTENDS Queues

CONSTANTS
  Nick, Host, Net, Pack,
  Man,                      \* the host name "man" of what an admin started
  NoNick,                   \* lastnick == NULL
  Visitors,                 \* the users: records [nick, host, net]
  maxtrans, maxtransfersperperson, maxqueueditemsperperson,
  maxidlequeuedperperson, idlequeuesize,
  balanced_queue, requeue_sends, restrictsend, ignore_duplicate_ip,
  DLimit,                   \* [Pack -> Nat], dlimit_max; 0 is no limit
  SmallPack,                \* packs below smallfilebypass
  SlotsMax, QueueSize,      \* the values an admin may set
  Restored,                 \* queues a state file may hold at the start
  Bound                     \* caps what only an admin lets grow: Len(trans),
                            \* Len(queue); and the gets counter

ASSUME ConfigAssumption ==
  /\ Man \notin Host /\ NoNick \notin Nick
  /\ Visitors \subseteq [nick : Nick, host : Host, net : Net]
  /\ maxtrans \in Nat \ {0} /\ maxtransfersperperson \in Nat \ {0}
  /\ maxqueueditemsperperson \in Nat \ {0} /\ maxidlequeuedperperson \in Nat \ {0}
  /\ idlequeuesize \in Nat /\ Bound \in Nat
  /\ balanced_queue \in BOOLEAN /\ requeue_sends \in BOOLEAN
  /\ restrictsend \in BOOLEAN /\ ignore_duplicate_ip \in BOOLEAN
  /\ DLimit \in [Pack -> Nat] /\ SmallPack \subseteq Pack
  /\ SlotsMax \subseteq 1..maxtrans /\ QueueSize \subseteq Nat

Entry == [nick : Nick, host : Host \cup {Man}, net : Net, pack : Pack]
Transfer == [nick : Nick, host : Host \cup {Man}, net : Net, pack : Pack,
             done : BOOLEAN]

ASSUME RestoredAssumption == Restored \subseteq Seq(Entry)

VARIABLES
  mainqueue, idlequeue,     \* waiting requests
  trans,                    \* transfers, oldest first; done: TRANSFER_STATUS_DONE
  packs,                    \* packs the bot offers
  today,                    \* gets of a pack since its limit was reset
  net,                      \* state of each IRC connection
  slotsmax, queuesize, holdqueue,
  over,                     \* transferlimits_over
  exiting,
  calls                     \* pending calls, the running one first

queues == <<mainqueue, idlequeue>>
config == <<slotsmax, queuesize, holdqueue>>
status == <<packs, today, net, over, exiting>>
vars == <<queues, trans, config, status, calls>>

\* "down": serverstatus is not CONNECTED; "login": connected, botstatus is not
\* JOINED; "stale": joined, nothing heard for more than 150 s.
NetState == {"down", "login", "joined", "stale"}

Fn == {"send_from_queue", "check_idle_queue", "start_one_send",
       "main_ready", "t_perform"}
Frame == [fn : Fn, n : Nat, last : Nick \cup {NoNick}]
Call(fn, n, last) == [fn |-> fn, n |-> n, last |-> last]

TypeOK ==
  /\ mainqueue \in Seq(Entry) /\ idlequeue \in Seq(Entry)
  /\ trans \in Seq(Transfer)
  /\ packs \subseteq Pack /\ today \in [Pack -> Nat]
  /\ net \in [Net -> NetState]
  /\ slotsmax \in 1..maxtrans /\ queuesize \in Nat
  /\ holdqueue \in BOOLEAN /\ over \in BOOLEAN /\ exiting \in BOOLEAN
  /\ calls \in Seq(Frame)

\* start_main_queue runs with the queues the state file held: the requests are
\* restored into the idle queue, or the main queue when there is no idle queue.
Init ==
  /\ \E q \in Restored :
       /\ idlequeue = IF idlequeuesize > 0 THEN q ELSE <<>>
       /\ mainqueue = IF idlequeuesize > 0 THEN <<>> ELSE q
  /\ trans = <<>>
  /\ packs = Pack /\ today = [p \in Pack |-> 0]
  /\ net = [n \in Net |-> "down"]
  /\ slotsmax \in SlotsMax /\ queuesize \in QueueSize /\ holdqueue = FALSE
  /\ over = FALSE /\ exiting = FALSE
  /\ calls = [i \in 1..queuesize |-> Call("check_idle_queue", 0, NoNick)]

-----------------------------------------------------------------------------
(* What the functions of the queue share *)

EntryOf(t) == [nick |-> t.nick, host |-> t.host, net |-> t.net, pack |-> t.pack]

\* The entries of one user, as XDCC REMOVE and the punishments find them.
OfNick(n, k) == {e \in Entry : e.net = n /\ e.nick = k}
OfPack(p) == {e \in Entry : e.pack = p}

\* t_closeconn of the transfers at the positions of S; a no-op on a done one.
Closed(S) == [i \in DOMAIN trans |->
                IF i \in S THEN [trans[i] EXCEPT !.done = TRUE] ELSE trans[i]]

TransferOfPack_None(p) == {}   \* seeded defect
TransferOfPack(p) == {i \in DOMAIN trans : trans[i].pack = p}
TransferOfNick(n, k) == {i \in DOMAIN trans : trans[i].net = n /\ trans[i].nick = k}

\* look_for_file_changes: a changed file closes every transfer of the pack.
\* create_transfer and t_setup_dcc: the new transfer fails (done) or listens.
StartTransfer(e) ==
  \E changed, failed \in BOOLEAN :
    trans' = Append(IF changed THEN Closed(TransferOfPack(e.pack)) ELSE trans,
                    [nick |-> e.nick, host |-> e.host, net |-> e.net,
                     pack |-> e.pack, done |-> failed])

\* Seeded defects (see README): the host, or what waits, is miscounted.
UserTrans_NickOnly(e) == Count(trans, {t \in Transfer : t.nick = e.nick})
UserTrans_AndQueue(e) ==
  Count(trans, {t \in Transfer : t.nick = e.nick}) + Count(mainqueue, OfNick(e.net, e.nick))

\* How many transfers the person of e has, as send_from_queue counts them.
UserTrans(e) ==
  Count(trans, {t \in Transfer : t.nick = e.nick \/ (t.host # Man /\ t.host = e.host)})

\* The same for find_in_idle_queue, which lets two "man" hosts match.
SamePerson(S, e) == {x \in S : x.nick = e.nick \/ x.host = e.host}

Sendable(e, last) ==
  /\ net[e.net] = "joined"
  /\ UserTrans(e) < maxtransfersperperson
  /\ e.nick # last

Movable_AnyShare(e) ==   \* seeded defect
  net[e.net] = "joined"

Movable(e) ==
  /\ net[e.net] = "joined"
  /\ Count(mainqueue, SamePerson(Entry, e)) < maxqueueditemsperperson
  /\ Count(trans, SamePerson(Transfer, e)) < maxtransfersperperson

-----------------------------------------------------------------------------
(* The running call: the frame on top of the stack *)

FreeSlot_OffByOne(max) == Len(trans) <= max   \* seeded defect
FreeSlot(max) == Len(trans) < max

Running(fn) == calls # <<>> /\ calls[1].fn = fn
Arg == calls[1].n
LastNick == IF balanced_queue THEN calls[1].last ELSE NoNick
Return(next) == calls' = next \o Tail(calls)

\* The positions send_from_queue accepts: the one an admin named, or all
\* eligible ones, of which it takes the first.
SendChoice_Unheld ==   \* seeded defect
  {i \in DOMAIN mainqueue : Sendable(mainqueue[i], LastNick)}

SendChoice ==
  IF holdqueue THEN {}
  ELSE IF Arg > 0 THEN {Arg} \cap DOMAIN mainqueue
  ELSE {i \in DOMAIN mainqueue : Sendable(mainqueue[i], LastNick)}

SendFromQueue_Send ==
  /\ Running("send_from_queue")
  /\ SendChoice # {}
  /\ LET i == First(SendChoice) IN
       /\ StartTransfer(mainqueue[i])
       /\ mainqueue' = Drop(mainqueue, i)
  /\ Return(<<Call("check_idle_queue", 0, NoNick)>>)
  /\ UNCHANGED <<idlequeue, config, status>>

\* Nobody but the last user is eligible: once more without that restriction.
SendFromQueue_Nobody ==
  /\ Running("send_from_queue")
  /\ SendChoice = {}
  /\ IF ~holdqueue /\ mainqueue # <<>> /\ LastNick # NoNick
       THEN Return(<<Call("send_from_queue", Arg, NoNick)>>)
       ELSE Return(<<>>)
  /\ UNCHANGED <<queues, trans, config, status>>

StartOneSend ==
  /\ Running("start_one_send")
  /\ IF ~exiting /\ mainqueue # <<>> /\ FreeSlot(slotsmax)
       THEN Return(<<Call("send_from_queue", 0, NoNick)>>)
       ELSE Return(<<>>)
  /\ UNCHANGED <<queues, trans, config, status>>

\* Seeded defects: no look at the main queue's size, and one too strict.
IdleChoice_OffByOne ==
  IF Len(mainqueue) + 1 >= queuesize THEN {}
  ELSE {i \in DOMAIN idlequeue : Movable(idlequeue[i])}

\* The positions check_idle_queue accepts; empty when it returns early.
IdleChoice ==
  IF exiting \/ holdqueue \/ Len(mainqueue) >= queuesize THEN {}
  ELSE IF Arg > 0 THEN {Arg} \cap DOMAIN idlequeue
  ELSE {i \in DOMAIN idlequeue : Movable(idlequeue[i])}

CheckIdleQueue_Move ==
  /\ Running("check_idle_queue")
  /\ IdleChoice # {}
  /\ LET i == First(IdleChoice) IN
       /\ mainqueue' = Append(mainqueue, idlequeue[i])
       /\ idlequeue' = Drop(idlequeue, i)
  /\ Return(<<Call("start_one_send", 0, NoNick)>>)
  /\ UNCHANGED <<trans, config, status>>

CheckIdleQueue_Nothing ==
  /\ Running("check_idle_queue")
  /\ IdleChoice = {}
  /\ Return(<<>>)
  /\ UNCHANGED <<queues, trans, config, status>>

\* "if (check_main_queue(max)) send_from_queue(0, 0, last)": the idle queue is
\* checked first, the sizes afterwards.
IfMainQueueReady(max, last) ==
  IF exiting THEN <<>>
  ELSE <<Call("check_idle_queue", 0, NoNick), Call("main_ready", max, last)>>

MainReady ==
  /\ Running("main_ready")
  /\ IF mainqueue # <<>> /\ FreeSlot(Arg)
       THEN Return(<<Call("send_from_queue", 0, calls[1].last)>>)
       ELSE Return(<<>>)
  /\ UNCHANGED <<queues, trans, config, status>>

\* start_sends: slotsmax times start_one_send.
StartSends == [i \in 1..slotsmax |-> Call("start_one_send", 0, NoNick)]

-----------------------------------------------------------------------------
(* Transfers: what the rest of the program does to them, seen from here *)

PurgeQueues_MainOnly(Out) ==   \* seeded defect
  mainqueue' = Purge(mainqueue, Out) /\ UNCHANGED idlequeue

\* The same removal from both queues.
PurgeQueues(Out) ==
  /\ mainqueue' = Purge(mainqueue, Out)
  /\ idlequeue' = Purge(idlequeue, Out)

\* A transfer fails, is closed, or is complete: t_flushed counts the download
\* and empties the queues of a pack that has reached its daily limit.
LimitReached_OffByOne(p, n) == DLimit[p] # 0 /\ n > DLimit[p]   \* seeded defect
LimitReached(p, n) == DLimit[p] # 0 /\ n >= DLimit[p]

EndTransfer(i, complete) ==
  LET p == trans[i].pack
      n == IF complete /\ today[p] < Bound THEN today[p] + 1 ELSE today[p]
      Out == IF complete /\ LimitReached(p, n) THEN OfPack(p) ELSE {}
  IN /\ trans' = Closed({i})
     /\ today' = [today EXCEPT ![p] = n]
     /\ PurgeQueues(Out)
     /\ UNCHANGED <<packs, net, over, exiting>>

TransferEnds(i) ==
  /\ calls = <<>>
  /\ i \in DOMAIN trans /\ ~trans[i].done
  /\ \E complete \in BOOLEAN : EndTransfer(i, complete)
  /\ UNCHANGED <<config, calls>>

\* t_perform when the second has changed: one pass over the transfers.
SecondTick ==
  /\ calls = <<>>
  /\ trans # <<>>
  /\ calls' = <<Call("t_perform", 1, NoNick)>>
  /\ UNCHANGED <<queues, trans, config, status>>

\* A transfer that is not done times out, completes or stays.  irlist_delete
\* yields the next transfer before send_from_queue appends a new one.
Perform_Visit ==
  /\ Running("t_perform")
  /\ Arg \in DOMAIN trans /\ ~trans[Arg].done
  /\ \/ /\ \E complete \in BOOLEAN : EndTransfer(Arg, complete)
        /\ UNCHANGED <<config, calls>>
     \/ /\ Return(IF Arg < Len(trans) THEN <<Call("t_perform", Arg + 1, NoNick)>>
                                      ELSE <<>>)
        /\ UNCHANGED <<queues, trans, config, status>>

Perform_Delete ==
  /\ Running("t_perform")
  /\ Arg \in DOMAIN trans /\ trans[Arg].done
  /\ trans' = Drop(trans, Arg)
  /\ Return(IfMainQueueReady(slotsmax, trans[Arg].nick)
            \o IF Arg < Len(trans) THEN <<Call("t_perform", Arg, NoNick)>> ELSE <<>>)
  /\ UNCHANGED <<queues, config, status>>

CallStep ==
  \/ SendFromQueue_Send \/ SendFromQueue_Nobody
  \/ StartOneSend
  \/ CheckIdleQueue_Move \/ CheckIdleQueue_Nothing
  \/ MainReady
  \/ Perform_Visit \/ Perform_Delete

-----------------------------------------------------------------------------
(* Requests of the users.  Every handler below runs when no call is pending. *)

Idle == calls = <<>>

\* Seeded defect: the main queue is not looked at.
AlreadyQueued_IdleOnly(e) ==
  \E x \in Elems(idlequeue) :
    x.net = e.net /\ x.host = e.host /\ x.pack = e.pack

\* queue_count_host: the user waits for that pack already.
AlreadyQueued(e) ==
  \E x \in Elems(mainqueue) \cup Elems(idlequeue) :
    x.net = e.net /\ x.host = e.host /\ x.pack = e.pack

\* addtomainqueue for a user: main queue, idle queue or refusal.
AddToMainQueue(e) ==
  LET own == {x \in Entry : x.net = e.net /\ x.host = e.host}
      inq == Count(mainqueue, own)
      inq2 == Count(idlequeue, own)
      mainslot == Len(mainqueue) >= queuesize
      personal == inq >= maxqueueditemsperperson \/ inq2 > 0
      toIdle == personal \/ holdqueue \/ net[e.net] # "joined" \/ mainslot
  IN \/ /\ ~AlreadyQueued(e) /\ toIdle /\ idlequeuesize > 0
        /\ inq2 < maxidlequeuedperperson /\ Len(idlequeue) < idlequeuesize
        /\ idlequeue' = Append(idlequeue, e)
        /\ UNCHANGED mainqueue
     \/ /\ ~AlreadyQueued(e) /\ ~personal /\ ~mainslot
        /\ toIdle => idlequeuesize = 0
        /\ mainqueue' = Append(mainqueue, e)
        /\ UNCHANGED idlequeue

\* send_xdcc_file2: XDCC SEND, GET, and each pack of XDCC BATCH.  What is
\* refused changes nothing.
Request(v, p) ==
  LET e == [nick |-> v.nick, host |-> v.host, net |-> v.net, pack |-> p]
      mine == {i \in DOMAIN trans : trans[i].host = v.host}
      mustQueue ==
        \/ Cardinality(mine) >= maxtransfersperperson
        \/ ~FreeSlot(maxtrans)
        \/ holdqueue
        \/ net[v.net] # "joined"
        \/ p \notin SmallPack /\ ~FreeSlot(slotsmax)
  IN /\ Idle
     /\ net[v.net] \in {"login", "joined"} /\ p \in packs
     /\ \A i \in mine : trans[i].pack # p
     /\ ~over
     /\ ~LimitReached(p, today[p])
     /\ \/ mustQueue /\ AddToMainQueue(e) /\ UNCHANGED trans
        \/ ~mustQueue /\ StartTransfer(e) /\ UNCHANGED queues
     /\ UNCHANGED <<config, status, calls>>

\* XDCC REMOVE of one pack or of all; lost_nick is the latter.
Remove(v, ps) ==
  /\ Idle /\ net[v.net] \in {"login", "joined"}
  /\ PurgeQueues({e \in OfNick(v.net, v.nick) : e.pack \in ps})
  /\ UNCHANGED <<trans, config, status, calls>>

\* XDCC CANCEL.
Cancel(v) ==
  /\ Idle /\ net[v.net] \in {"login", "joined"}
  /\ trans' = Closed(TransferOfNick(v.net, v.nick))
  /\ UNCHANGED <<queues, config, status, calls>>

\* user_changed_nick: every network's entries are renamed, and what the new
\* nick has in the main queue beyond its share is dropped.
NickChange(old, new) ==
  LET Renamed(q) == [i \in DOMAIN q |->
                       [q[i] EXCEPT !.nick = IF @ = old THEN new ELSE @]]
      main == Renamed(mainqueue)
      own == {i \in DOMAIN main : main[i].nick = new /\ main[i].host # Man}
      excess == {i \in own :
                   Cardinality(own \cap (1..i)) > maxqueueditemsperperson}
  IN /\ Idle /\ old # new
     /\ \E n \in Net : net[n] \in {"login", "joined"}
     /\ trans' = Renamed(trans)
     /\ mainqueue' = Keep(main, DOMAIN main \ excess)
     /\ idlequeue' = Renamed(idlequeue)
     /\ UNCHANGED <<config, status, calls>>

\* t_checkminspeed with punishslowusers: the slow transfer's nick loses every
\* transfer, on any network, and its entries on the transfer's network.
PunishSlow(i) ==
  /\ Idle
  /\ i \in DOMAIN trans /\ ~trans[i].done
  /\ trans' = Closed({j \in DOMAIN trans : trans[j].nick = trans[i].nick})
  /\ PurgeQueues(OfNick(trans[i].net, trans[i].nick))
  /\ UNCHANGED <<config, status, calls>>

\* t_check_duplicateip: the sending transfers S that share an address.
PunishDuplicateIp(S) ==
  /\ Idle /\ ignore_duplicate_ip
  /\ Cardinality(S) > maxtransfersperperson
  /\ \A i \in S : ~trans[i].done /\ trans[i].host # Man
  /\ trans' = Closed(S)
  /\ PurgeQueues(UNION {OfNick(trans[i].net, trans[i].nick) : i \in S})
  /\ UNCHANGED <<config, status, calls>>

UserStep ==
  \/ \E v \in Visitors :
       \/ \E p \in Pack : Request(v, p)
       \/ \E p \in Pack : Remove(v, {p})
       \/ Remove(v, Pack)
       \/ Cancel(v)
  \/ \E i \in 1..Len(trans) : PunishSlow(i) \/ TransferEnds(i)
  \/ \E S \in SUBSET (1..Len(trans)) : PunishDuplicateIp(S)

NickStep == \E old, new \in Nick : NickChange(old, new)

-----------------------------------------------------------------------------
(* The networks and the clock *)

NetDown(n) ==
  /\ Idle /\ net[n] # "down"
  /\ net' = [net EXCEPT ![n] = "down"]
  /\ UNCHANGED <<queues, trans, config, packs, today, over, exiting, calls>>

\* The login is done; without channels to join the bot counts as joined.
NetConnect(n) ==
  /\ Idle /\ net[n] = "down" /\ ~exiting
  /\ \/ /\ net' = [net EXCEPT ![n] = "login"]
        /\ UNCHANGED calls
     \/ /\ net' = [net EXCEPT ![n] = "joined"]
        /\ calls' = StartSends
  /\ UNCHANGED <<queues, trans, config, packs, today, over, exiting>>

\* JOIN of the bot itself; again after a kick.
NetJoined(n) ==
  /\ Idle /\ net[n] \in {"login", "joined"}
  /\ net' = [net EXCEPT ![n] = "joined"]
  /\ calls' = StartSends
  /\ UNCHANGED <<queues, trans, config, packs, today, over, exiting>>

\* 150 s of silence; then the server says something again.
NetSilent(n) ==
  /\ Idle
  /\ \/ net[n] = "joined" /\ net' = [net EXCEPT ![n] = "stale"]
     \/ net[n] = "stale" /\ net' = [net EXCEPT ![n] = "joined"]
  /\ UNCHANGED <<queues, trans, config, packs, today, over, exiting, calls>>

\* reverify_restrictsend: the users of "gone" have been off the channels of a
\* connected network for restrictsend_timeout.
DropGone(gone) ==
  LET Away(e) == /\ net[e.net] # "down" /\ e.host # Man
                 /\ <<e.net, e.nick>> \in gone
  IN /\ trans' = Closed({i \in DOMAIN trans : Away(trans[i])})
     /\ PurgeQueues({e \in Entry : Away(e)})

Gone == IF restrictsend THEN SUBSET (Net \X Nick) ELSE {{}}

\* PART or KICK of a user.
Reverify ==
  /\ Idle
  /\ \E gone \in Gone : DropGone(gone)
  /\ UNCHANGED <<config, status, calls>>

Minute ==
  /\ Idle
  /\ \E gone \in Gone : DropGone(gone)
  /\ calls' = <<Call("check_idle_queue", 0, NoNick)>>
  /\ UNCHANGED <<config, status>>

\* Every three minutes: below lowbdwth a slot beyond slotsmax may be used.
ThreeMinutes ==
  /\ Idle
  /\ \/ calls' = IfMainQueueReady(maxtrans, NoNick)
     \/ calls' = <<Call("start_one_send", 0, NoNick)>>
  /\ UNCHANGED <<queues, trans, config, status>>

\* A transfer limit of the bot is used up.
TransferLimit ==
  /\ Idle /\ ~over
  /\ over' = TRUE
  /\ PurgeQueues(Entry)
  /\ trans' = Closed(DOMAIN trans)
  /\ UNCHANGED <<config, packs, today, net, exiting, calls>>

\* A limit period ends; a day's end resets the limits of the packs as well.
NewPeriod ==
  /\ Idle
  /\ over' \in {over, FALSE}
  /\ today' \in {today, [p \in Pack |-> 0]}
  /\ UNCHANGED <<queues, trans, config, packs, net, exiting, calls>>

ClockStep ==
  \/ \E n \in Net : NetDown(n) \/ NetConnect(n) \/ NetJoined(n) \/ NetSilent(n)
  \/ Reverify \/ SecondTick \/ Minute \/ ThreeMinutes
  \/ TransferLimit \/ NewPeriod

-----------------------------------------------------------------------------
(* The administrator *)

\* SHUTDOWN: requeue puts the transfers in front of the main queue.
Shutdown ==
  /\ Idle /\ ~exiting
  /\ exiting' = TRUE
  /\ trans' = Closed(DOMAIN trans)
  /\ mainqueue' = IF requeue_sends
                    THEN [i \in DOMAIN trans |-> EntryOf(trans[i])] \o mainqueue
                    ELSE mainqueue
  /\ UNCHANGED <<idlequeue, config, packs, today, net, over, calls>>

\* SEND: at once, whatever the limits.
A_Send(e) ==
  /\ Idle /\ e.pack \in packs /\ Len(trans) < Bound
  /\ StartTransfer(e)
  /\ UNCHANGED <<queues, config, status, calls>>

\* QUEUE and IQUEUE.  a_queue_found looks for a duplicate in the network "at"
\* the admin talks from, addtomainqueue in the network of the new entry.
Queued(e, n) ==
  [e EXCEPT !.net = n] \in Elems(mainqueue) \cup Elems(idlequeue)

A_Queue(e, at) ==
  /\ Idle /\ e.pack \in packs /\ Len(mainqueue) < Bound
  /\ ~Queued(e, at)
  /\ mainqueue' = IF Queued(e, e.net) THEN mainqueue ELSE Append(mainqueue, e)
  /\ calls' = <<Call("start_one_send", 0, NoNick)>>
  /\ UNCHANGED <<idlequeue, trans, config, status>>

A_IQueue(e, at) ==
  /\ Idle /\ e.pack \in packs /\ Len(idlequeue) < Bound
  /\ ~Queued(e, at)
  /\ idlequeue' = IF idlequeuesize = 0 THEN idlequeue ELSE Append(idlequeue, e)
  /\ calls' = <<Call("start_one_send", 0, NoNick)>>
  /\ UNCHANGED <<mainqueue, trans, config, status>>

\* QSEND and IQSEND.
A_QSend(pos) ==
  /\ Idle /\ mainqueue # <<>> /\ Len(trans) < maxtrans
  /\ calls' = <<Call("send_from_queue", pos, NoNick)>>
  /\ UNCHANGED <<queues, trans, config, status>>

A_IQSend(pos) ==
  /\ Idle /\ idlequeue # <<>> /\ Len(trans) < maxtrans
  /\ calls' = <<Call("check_idle_queue", pos, NoNick)>>
  /\ UNCHANGED <<queues, trans, config, status>>

\* REQUEUE, REIQUEUE, RMQ, RMIQ.
Moved(q, old, new) == InsertAt(Drop(q, old), new, q[old])

A_Requeue ==
  /\ Idle
  /\ \/ /\ \E o, n \in DOMAIN mainqueue :
             o # n /\ mainqueue' = Moved(mainqueue, o, n)
        /\ UNCHANGED idlequeue
     \/ /\ \E o, n \in DOMAIN idlequeue :
             o # n /\ idlequeue' = Moved(idlequeue, o, n)
        /\ UNCHANGED mainqueue
  /\ UNCHANGED <<trans, config, status, calls>>

A_Rmq ==
  /\ Idle
  /\ \/ \E i \in DOMAIN mainqueue :
          mainqueue' = Drop(mainqueue, i) /\ UNCHANGED idlequeue
     \/ \E i \in DOMAIN idlequeue :
          idlequeue' = Drop(idlequeue, i) /\ UNCHANGED mainqueue
     \/ PurgeQueues(Entry)
  /\ UNCHANGED <<trans, config, status, calls>>

\* BANNNICK; BANNHOST does the same for a host mask.
A_BannNick(n, k) ==
  /\ Idle
  /\ PurgeQueues(OfNick(n, k))
  /\ trans' = Closed(TransferOfNick(n, k))
  /\ UNCHANGED <<config, status, calls>>

A_HoldQueue(val) ==
  /\ Idle
  /\ holdqueue' = val
  /\ calls' = IF val THEN <<>> ELSE StartSends
  /\ UNCHANGED <<queues, trans, slotsmax, queuesize, status>>

A_Slots_Unclamped ==   \* seeded defect: SLOTSMAX 0
  /\ Idle
  /\ slotsmax' \in SlotsMax \cup {0}
  /\ UNCHANGED <<queues, trans, queuesize, holdqueue, status, calls>>

\* SLOTSMAX and QUEUESIZE.
A_Slots ==
  /\ Idle
  /\ slotsmax' \in SlotsMax /\ queuesize' \in QueueSize
  /\ slotsmax' = slotsmax \/ queuesize' = queuesize
  /\ UNCHANGED <<queues, trans, holdqueue, status, calls>>

\* The end of REHASH, with the configuration as it was.
A_Rehash ==
  /\ Idle
  /\ \E gone \in Gone : DropGone(gone)
  /\ calls' = StartSends
  /\ UNCHANGED <<config, status>>

\* REMOVE of a pack: its running transfers and its queue entries go with it.
A_RemovePack(p) ==
  /\ Idle /\ p \in packs
  /\ packs' = packs \ {p}
  /\ trans' = Closed(TransferOfPack(p))
  /\ PurgeQueues(OfPack(p))
  /\ UNCHANGED <<config, today, net, over, exiting, calls>>

AdminStep ==
  \/ Shutdown
  \/ \E e \in [nick : Nick, host : {Man}, net : Net, pack : Pack] :
       A_Send(e) \/ \E at \in Net : A_Queue(e, at) \/ A_IQueue(e, at)
  \/ \E pos \in 0..Bound : A_QSend(pos) \/ A_IQSend(pos)
  \/ A_Requeue \/ A_Rmq
  \/ \E n \in Net, k \in Nick : A_BannNick(n, k)
  \/ \E val \in BOOLEAN : A_HoldQueue(val)
  \/ A_Slots \/ A_Rehash
  \/ \E p \in Pack : A_RemovePack(p)

-----------------------------------------------------------------------------
Next == CallStep \/ UserStep \/ NickStep \/ ClockStep \/ AdminStep
Spec == Init /\ [][Next]_vars

\* A bot whose admin only watches, changes the hold flag, or shuts it down.
QuietStep == CallStep \/ UserStep \/ NickStep \/ ClockStep \/ Shutdown
             \/ \E val \in BOOLEAN : A_HoldQueue(val)
QuietSpec == Init /\ [][QuietStep]_vars

\* The main loop comes round: a pending call runs, every second, minute and
\* third minute is noticed, and no transfer lasts for ever (it completes, or
\* t_istimeout closes it).  A tick waits while a call is pending, hence SF.
Fairness ==
  /\ WF_vars(CallStep)
  /\ SF_vars(SecondTick) /\ SF_vars(Minute) /\ SF_vars(ThreeMinutes)
  /\ \A i \in 1..maxtrans : SF_vars(TransferEnds(i))

\* Users keep their nicks: whoever takes over the nick of a waiting user, again
\* and again, and has requests of his own, can keep that user waiting.
LiveStep == CallStep \/ UserStep \/ ClockStep \/ \E val \in BOOLEAN : A_HoldQueue(val)
LiveSpec == Init /\ [][LiveStep]_vars /\ Fairness

-----------------------------------------------------------------------------
(* Safety *)

\* maxtransfersperperson: a host never has more transfers than its share, on
\* whatever path each of them was started (at once, from the main queue, from
\* the idle queue through the main queue), unless an admin forced one.
PersonLimit ==
  \A h \in Host :
    Count(trans, {t \in Transfer : t.host = h}) <= maxtransfersperperson

\* No user waits twice for a pack, in one queue or one in each.
QueuedOnce ==
  LET all == mainqueue \o idlequeue IN
  \A i, j \in DOMAIN all :
    /\ i # j /\ all[i].host # Man /\ all[i].host = all[j].host
    /\ all[i].net = all[j].net
    => all[i].pack # all[j].pack

\* slotsmax and maxtrans: the bot never runs more than maxtrans transfers.
SlotLimit == Len(trans) <= maxtrans

\* maxqueueditemsperperson and maxidlequeuedperperson hold for each user in
\* both queues, although the idle queue refills the main queue behind the
\* back of the check made when the request came in; and requests of users
\* never make a queue longer than queuesize and idlequeuesize.
QueueShare ==
  \A h \in Host, n \in Net :
    LET own == {e \in Entry : e.host = h /\ e.net = n}
    IN /\ Count(mainqueue, own) <= maxqueueditemsperperson
       /\ Count(idlequeue, own) <= maxidlequeuedperperson
QueueRoom ==
  /\ ~(exiting /\ requeue_sends) => Len(mainqueue) <= queuesize
  /\ Len(idlequeue) <= idlequeuesize
QueueBounds == QueueShare /\ QueueRoom

\* After SHUTDOWN with requeue_sends the queue again holds what users asked
\* for, and nothing takes it out of there.
Requeued == exiting /\ requeue_sends

\* Over a transfer limit, no request of a user waits and none is served: the
\* sweep that stops them leaves nobody behind, and nobody gets in afterwards.
OverLimitDrained ==
  over /\ ~Requeued =>
    /\ \A e \in Elems(mainqueue) \cup Elems(idlequeue) : e.host = Man
    /\ \A t \in Elems(trans) : t.host = Man \/ t.done

\* A pack at its daily limit has no user waiting for it.
LimitedPackNotQueued ==
  ~Requeued =>
    \A e \in Elems(mainqueue) \cup Elems(idlequeue) :
      e.host = Man \/ DLimit[e.pack] = 0 \/ today[e.pack] < DLimit[e.pack]

\* Nothing refers to a pack an admin has removed (its memory is free), except
\* a transfer that is done.
RemovedPackUnused ==
  ~Requeued =>
    /\ \A e \in Elems(mainqueue) \cup Elems(idlequeue) : e.pack \in packs
    /\ \A t \in Elems(trans) : t.done \/ t.pack \in packs

-----------------------------------------------------------------------------
(* What a step may never do *)

\* HOLDQUEUE: while the queue is held no queued request is sent and none moves
\* from the idle queue to the main queue.
HoldFreezes ==
  [][holdqueue /\ holdqueue' =>
       /\ Len(trans') <= Len(trans)
       /\ Len(idlequeue') < Len(idlequeue) => Len(mainqueue') <= Len(mainqueue)]_vars

-----------------------------------------------------------------------------
(* What must happen *)

\* The connections stay up and the admin does not hold the queue.
Calm == (\A n \in Net : net[n] = "joined") /\ ~holdqueue

\* A request in the main queue does not wait for ever: some event of the main
\* loop always finds it once a slot is free.
MainServed ==
  <>[]Calm => \A e \in Entry :
                e \in Elems(mainqueue) ~> e \notin Elems(mainqueue)

\* Nor does a request in the idle queue, when there is a main queue at all.
IdleServed ==
  <>[]Calm /\ queuesize > 0 =>
    \A e \in Entry : e \in Elems(idlequeue) ~> e \notin Elems(idlequeue)

-----------------------------------------------------------------------------
(* What the documentation says, and the code does not do *)

\* balanced_queue: "When a user is done using a slot, the next file retrieved
\* from the queue would NOT be a file queued by the same user."  The user of
\* the deleted transfer is the one a pending check_main_queue or
\* send_from_queue names; the rule applies when another user could be served.
BalancedNext ==
  [][\A k \in Nick :
       /\ balanced_queue /\ Running("send_from_queue")
       /\ Len(mainqueue') < Len(mainqueue)
       /\ \E f \in Elems(calls) : f.last = k
       /\ \E e \in Elems(mainqueue) : Sendable(e, k)
       => mainqueue[First(SendChoice)].nick # k]_vars

=============================================================================
