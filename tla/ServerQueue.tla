---------------------------- MODULE ServerQueue ----------------------------
(***************************************************************************)
(* The messages that wait for an IRC server: vwriteserver and sendserver   *)
(* of src/iroffer_misc.c, the announcements and clean_send_buffers of      *)
(* src/dinoex_jobs.c.  A network has a fast, a normal and a slow queue     *)
(* behind one bucket of characters, which each second fills, and a list of *)
(* announcements that wait for their time.                                 *)
(*                                                                         *)
(* A queue record is what one network keeps; the operators below map it to *)
(* the next one, so that the handlers of Network can call them.  A message *)
(* is its command, argument and length; "old" is a ghost: it was written   *)
(* for a connection that has been closed since.                            *)
(***************************************************************************)
EXTENDS Integers, FiniteSets, Sequences, Queues

CONSTANTS
  server_send_max, server_send_rate,   \* size and filling of the bucket
  slow_privmsg,                        \* seconds between two slow messages
  MAXSENDQ,
  RecentPings,                         \* pings while something waits: 6 in the code
  Command, Length                      \* what may be sent, and how long it is

ASSUME ServerQueueAssumption ==
  /\ server_send_max \in Nat \ {0} /\ server_send_rate \in Nat \ {0}
  /\ slow_privmsg \in Nat /\ {MAXSENDQ, RecentPings} \subseteq Nat \ {0}
  /\ Length \in [Command -> Nat \ {0}]

Queue == {"fast", "normal", "slow"}
Message == [cmd : Command, arg : Nat, len : 1..server_send_max, old : BOOLEAN]

\* slowage: seconds since the last slow message, as far as they matter;
\* recentsent: pings still to send; announce: the seconds each one still waits.
QueueRecord ==
  [fast : Seq(Message), normal : Seq(Message), slow : Seq(Message),
   announce : Seq([wait : Nat, old : BOOLEAN]),
   bucket : 0..server_send_max, slowage : 0..(slow_privmsg + 1), recentsent : 0..RecentPings]

EmptyQueues == [fast |-> <<>>, normal |-> <<>>, slow |-> <<>>, announce |-> <<>>,
                bucket |-> 0, slowage |-> 0, recentsent |-> 0]

\* Text beyond server_send_max is cut off.
Min2(x, y) == IF x < y THEN x ELSE y
Write(cmd, arg) ==
  [cmd |-> cmd, arg |-> arg, len |-> Min2(Length[cmd], server_send_max), old |-> FALSE]

Waiting(q) == Len(q.fast) + Len(q.normal) + Len(q.slow)

\* vwriteserver for a message that is not sent at once.
Enqueue(q, type, cmd, arg) ==
  IF Len(q[type]) < MAXSENDQ THEN [q EXCEPT ![type] = Append(@, Write(cmd, arg))] ELSE q

\* What a message sent at once takes from the bucket.
Charge_NoFloor(q, cmd) ==   \* seeded defect: the bucket may become negative
  [q EXCEPT !.bucket = @ - (Length[cmd] + 1)]
Charge(q, cmd) ==
  [q EXCEPT !.bucket = IF Length[cmd] + 1 > @ THEN 0 ELSE @ - (Length[cmd] + 1)]

\* clean_send_buffers.
Cleaned(q) == [q EXCEPT !.announce = <<>>, !.slow = <<>>, !.normal = <<>>, !.fast = <<>>]

\* A connection has been closed: what waits was written for it (ghost).
Aged(q) ==
  [q EXCEPT !.fast = [i \in DOMAIN @ |-> [@[i] EXCEPT !.old = TRUE]],
            !.normal = [i \in DOMAIN @ |-> [@[i] EXCEPT !.old = TRUE]],
            !.slow = [i \in DOMAIN @ |-> [@[i] EXCEPT !.old = TRUE]],
            !.announce = [i \in DOMAIN @ |-> [@[i] EXCEPT !.old = TRUE]]]
-----------------------------------------------------------------------------
(* Sending: a second's work *)

\* The length of the first k messages, for each k.
Sizes(msgs) ==
  LET size[k \in 0..Len(msgs)] == IF k = 0 THEN 0 ELSE size[k - 1] + msgs[k].len IN size

\* How many messages of a queue the bucket lets through: each must be shorter
\* than what is left of it.
Passing_LineEnd(msgs, bucket) ==   \* seeded defect: asks for room for the line's end as well
  Cardinality({k \in DOMAIN msgs : Sizes(msgs)[k] + 2 < bucket})
Passing(msgs, bucket) ==
  Cardinality({k \in DOMAIN msgs : Sizes(msgs)[k] < bucket})

\* The first n messages of one queue go out.
Take(q, type, n) ==
  [q EXCEPT ![type] = SubSeq(@, n + 1, Len(@)),
            !.bucket = @ - Sizes(q[type])[n],
            !.recentsent = IF n > 0 THEN 0 ELSE @]

\* sendannounce: what is due moves to the normal queue.
Announced(q) ==
  LET now == {i \in DOMAIN q.announce : q.announce[i].wait = 0}
      due == Keep(q.announce, now)
      room == Min2(Len(due), IF Len(q.normal) < MAXSENDQ
                             THEN MAXSENDQ - Len(q.normal) ELSE 0)
  IN [q EXCEPT !.announce = Keep(@, DOMAIN @ \ now),
               !.normal = @ \o [i \in 1..room |-> [Write("PRIVMSG", 0) EXCEPT !.old = due[i].old]]]

Refilled(q) ==
  [q EXCEPT !.bucket = Min2(@ + server_send_rate, server_send_max)]

\* A second passes for the queue, whether or not the network is connected.
Nearer(a) == [a EXCEPT !.wait = IF @ > 0 THEN @ - 1 ELSE 0]
Elapsed(q) ==
  [q EXCEPT !.slowage = Min2(@ + 1, slow_privmsg + 1),
            !.announce = [i \in DOMAIN @ |-> Nearer(@[i])]]

\* One queue's turn.  The slow queue waits slow_privmsg seconds, and then sends one
\* message only.
Due(q, type) ==
  LET all == Passing(q[type], q.bucket)
  IN IF type # "slow" THEN all
     ELSE IF q.slowage <= slow_privmsg THEN 0
     ELSE IF slow_privmsg > 0 THEN Min2(all, 1) ELSE all
SendFrom(r, type) ==
  LET n == Due(r.q, type)
  IN [q |-> [Take(r.q, type, n) EXCEPT !.slowage = IF type = "slow" /\ n > 0 THEN 0 ELSE @],
      sent |-> r.sent \o SubSeq(r.q[type], 1, n)]

\* sendserver on a connection: the queue afterwards and what went out, in order.
SendQueue(q) ==
  LET r == SendFrom(SendFrom(SendFrom([q |-> Refilled(Announced(q)), sent |-> <<>>], "fast"), "normal"), "slow")
      stuck == r.sent = <<>> /\ Waiting(r.q) > 0 /\ r.q.slowage > slow_privmsg
  IN IF stuck THEN [r EXCEPT !.q.recentsent = RecentPings] ELSE r
=============================================================================
