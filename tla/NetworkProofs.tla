--------------------------- MODULE NetworkProofs ----------------------------
(***************************************************************************)
(* Types, NoStaleMessage, NickBelief and MembersKnown of Network for every *)
(* value of the constants.                                                 *)
(*                                                                         *)
(* The handlers are functions from a state to a state, and so are most of  *)
(* the lemmas: a good state becomes a good one.  A state is good if the    *)
(* link to the server is there only while the bot is connected or shakes   *)
(* hands (Linked), if nothing old waits unless the bot is without a server *)
(* (Fresh), if the nick the bot will believe in when it has read what is   *)
(* on its way is the one the server knows (Agrees), and if the list of     *)
(* members it will have then misses nobody in the channel (Aware).         *)
(***************************************************************************)
EXTENDS Network, QueuesTheorems

\* Messages and queues, "old" being one of O.
MessageOf(O) == [cmd : Command, arg : Nick, len : 1..server_send_max, old : O]
AnnounceOf(O) == [wait : Nat, old : O]
QueueOf(O) ==
  [fast : Seq(MessageOf(O)), normal : Seq(MessageOf(O)), slow : Seq(MessageOf(O)),
   announce : Seq(AnnounceOf(O)),
   bucket : 0..server_send_max, slowage : 0..(slow_privmsg + 1), recentsent : 0..RecentPings]
Ghost == {BOOLEAN, {FALSE}}

\* What the constants are, as the lemmas need it.
LEMMA Limits ==
  /\ server_send_max \in Nat \ {0} /\ server_send_rate \in Nat \ {0}
  /\ slow_privmsg \in Nat /\ MAXSENDQ \in Nat \ {0} /\ RecentPings \in Nat \ {0}
  /\ \A c \in Command : Length[c] \in Nat \ {0}
  /\ {"JOIN", "PART", "NICK", "PING", "PRIVMSG", "QUIT"} \subseteq Command
  /\ MaxNick \in Nat /\ \A O \in Ghost : FALSE \in O
  /\ {0, 1} \subseteq Nick
  BY ServerQueueAssumption, NetworkAssumption DEF Nick, Ghost
-----------------------------------------------------------------------------
(* The queues *)

\* A new message is not old and fits into the bucket.
LEMMA WriteType ==
  ASSUME NEW O \in Ghost, NEW cmd \in Command, NEW arg \in Nick
  PROVE  Write(cmd, arg) \in MessageOf(O)
<1>1. Min2(Length[cmd], server_send_max) \in 1..server_send_max
  BY Limits DEF Min2
<1> QED BY <1>1, Limits DEF Write, MessageOf

\* One of the queues is another one.
LEMMA FieldType ==
  ASSUME NEW O, NEW q \in QueueOf(O), NEW type \in Queue, NEW f \in Seq(MessageOf(O))
  PROVE  [q EXCEPT ![type] = f] \in QueueOf(O)
<1>1. CASE type = "fast"
  BY <1>1 DEF QueueOf
<1>2. CASE type = "normal"
  BY <1>2 DEF QueueOf
<1>3. CASE type = "slow"
  BY <1>3 DEF QueueOf
<1> QED BY <1>1, <1>2, <1>3 DEF Queue

\* The ghost of a message is any it may have.
LEMMA OldType ==
  ASSUME NEW O, NEW x \in O
  PROVE  /\ \A m \in MessageOf(O) : [m EXCEPT !.old = x] \in MessageOf(O)
         /\ \A a \in AnnounceOf(O) : [a EXCEPT !.old = x] \in AnnounceOf(O)
<1>1. ASSUME NEW m \in MessageOf(O) PROVE [m EXCEPT !.old = x] \in MessageOf(O)
  BY DEF MessageOf
<1>2. ASSUME NEW a \in AnnounceOf(O) PROVE [a EXCEPT !.old = x] \in AnnounceOf(O)
  BY DEF AnnounceOf
<1> QED BY <1>1, <1>2

\* A message that is queued.
LEMMA EnqueueType ==
  ASSUME NEW O \in Ghost, NEW q \in QueueOf(O), NEW type \in Queue, NEW cmd \in Command, NEW arg \in Nick
  PROVE  Enqueue(q, type, cmd, arg) \in QueueOf(O)
<1> DEFINE f == Append(q[type], Write(cmd, arg))
<1>1. Write(cmd, arg) \in MessageOf(O)
  BY WriteType
<1>2. q[type] \in Seq(MessageOf(O))
  BY DEF Queue, QueueOf
<1>3. f \in Seq(MessageOf(O))
  BY <1>1, <1>2
<1>4. Enqueue(q, type, cmd, arg) \in {q, [q EXCEPT ![type] = f]}
  BY DEF Enqueue
<1> HIDE DEF f
<1> QED BY <1>3, <1>4, FieldType

\* A message sent at once leaves the queues as they are and the bucket above its bottom.
LEMMA ChargeType ==
  ASSUME NEW O \in Ghost, NEW q \in QueueOf(O), NEW cmd \in Command
  PROVE  Charge(q, cmd) \in QueueOf(O)
<1>1. Length[cmd] \in Nat /\ server_send_max \in Nat /\ q.bucket \in 0..server_send_max
  BY Limits DEF QueueOf
<1>2. (IF Length[cmd] + 1 > q.bucket THEN 0 ELSE q.bucket - (Length[cmd] + 1)) \in 0..server_send_max
  BY <1>1
<1> QED BY <1>2 DEF Charge, QueueOf

\* Nothing waits, so nothing old does.
LEMMA CleanedType ==
  ASSUME NEW O \in Ghost, NEW P \in Ghost, NEW q \in QueueOf(P)
  PROVE  Cleaned(q) \in QueueOf(O)
<1>1. <<>> \in Seq(MessageOf(O)) /\ <<>> \in Seq(AnnounceOf(O))
  OBVIOUS
<1> QED BY <1>1 DEF Cleaned, QueueOf

\* Everything is old.
LEMMA AgedType ==
  ASSUME NEW q \in QueueOf(BOOLEAN)
  PROVE  Aged(q) \in QueueOf(BOOLEAN)
<1>1. ASSUME NEW f \in Seq(MessageOf(BOOLEAN))
      PROVE  [i \in DOMAIN f |-> [f[i] EXCEPT !.old = TRUE]] \in Seq(MessageOf(BOOLEAN))
  <2>1. \A m \in MessageOf(BOOLEAN) : [m EXCEPT !.old = TRUE] \in MessageOf(BOOLEAN)
    BY OldType
  <2> QED BY <2>1
<1>2. ASSUME NEW f \in Seq(AnnounceOf(BOOLEAN))
      PROVE  [i \in DOMAIN f |-> [f[i] EXCEPT !.old = TRUE]] \in Seq(AnnounceOf(BOOLEAN))
  <2>1. \A a \in AnnounceOf(BOOLEAN) : [a EXCEPT !.old = TRUE] \in AnnounceOf(BOOLEAN)
    BY OldType
  <2> QED BY <2>1
<1> QED BY <1>1, <1>2 DEF Aged, QueueOf

\* A second passes.
LEMMA ElapsedType ==
  ASSUME NEW O \in Ghost, NEW q \in QueueOf(O)
  PROVE  Elapsed(q) \in QueueOf(O)
<1>1. Min2(q.slowage + 1, slow_privmsg + 1) \in 0..(slow_privmsg + 1)
  BY Limits DEF Min2, QueueOf
<1>2. q.announce \in Seq(AnnounceOf(O))
  BY DEF QueueOf
<1>3. \A a \in AnnounceOf(O) : Nearer(a) \in AnnounceOf(O)
  BY DEF AnnounceOf, Nearer
<1>4. [i \in DOMAIN q.announce |-> Nearer(q.announce[i])] \in Seq(AnnounceOf(O))
  BY <1>2, <1>3
<1> QED BY <1>1, <1>4 DEF Elapsed, QueueOf

\* The bucket is filled up.
LEMMA RefilledType ==
  ASSUME NEW O \in Ghost, NEW q \in QueueOf(O)
  PROVE  Refilled(q) \in QueueOf(O)
<1>1. Min2(q.bucket + server_send_rate, server_send_max) \in 0..server_send_max
  BY Limits DEF Min2, QueueOf
<1> QED BY <1>1 DEF Refilled, QueueOf

\* Announcements that are due are as old as they were.
LEMMA AnnouncedType ==
  ASSUME NEW O \in Ghost, NEW q \in QueueOf(O)
  PROVE  Announced(q) \in QueueOf(O)
<1> DEFINE now == {i \in DOMAIN q.announce : q.announce[i].wait = 0}
           due == Keep(q.announce, now)
           rest == Keep(q.announce, DOMAIN q.announce \ now)
           room == Min2(Len(due), IF Len(q.normal) < MAXSENDQ THEN MAXSENDQ - Len(q.normal) ELSE 0)
           new == [i \in 1..room |-> [Write("PRIVMSG", 0) EXCEPT !.old = due[i].old]]
<1>1. q.announce \in Seq(AnnounceOf(O)) /\ q.normal \in Seq(MessageOf(O))
  BY DEF QueueOf
<1>2. now \subseteq DOMAIN q.announce /\ DOMAIN q.announce \ now \subseteq DOMAIN q.announce
  OBVIOUS
<1> HIDE DEF now
<1>3. due \in Seq(AnnounceOf(O)) /\ rest \in Seq(AnnounceOf(O))
  BY <1>1, <1>2, KeepType
<1> HIDE DEF due, rest
<1>4. Len(due) \in Nat /\ Len(q.normal) \in Nat /\ room \in Nat /\ room <= Len(due)
  BY <1>1, <1>3, Limits DEF Min2
<1> HIDE DEF room
<1>5. \A i \in 1..room : due[i] \in AnnounceOf(O)
  BY <1>3, <1>4
<1>6. \A i \in 1..room : [Write("PRIVMSG", 0) EXCEPT !.old = due[i].old] \in MessageOf(O)
  <2>1. Write("PRIVMSG", 0) \in MessageOf(O)
    BY WriteType, Limits
  <2> QED BY <1>5, <2>1 DEF MessageOf, AnnounceOf
<1>7. new \in Seq(MessageOf(O))
  BY <1>4, <1>6
<1> HIDE DEF new
<1>8. q.normal \o new \in Seq(MessageOf(O))
  BY <1>1, <1>7
<1>9. Announced(q) = [q EXCEPT !.announce = rest, !.normal = q.normal \o new]
  BY DEF Announced, now, due, rest, room, new
<1> QED BY <1>3, <1>8, <1>9 DEF QueueOf
-----------------------------------------------------------------------------
(* Sending *)

\* The lengths of the first messages, for however many of them.
LEMMA SizesDefined ==
  ASSUME NEW msgs, Len(msgs) \in Nat, \A k \in 1..Len(msgs) : msgs[k].len \in Nat
  PROVE  /\ Sizes(msgs)[0] = 0
         /\ \A k \in 1..Len(msgs) : Sizes(msgs)[k] = Sizes(msgs)[k - 1] + msgs[k].len
         /\ \A k \in 0..Len(msgs) : Sizes(msgs)[k] \in Nat
<1> DEFINE n == Len(msgs)
           Is(f) == f = [k \in 0..n |-> IF k = 0 THEN 0 ELSE f[k - 1] + msgs[k].len]
           D == [k \in 1..n |-> [x \in Nat |-> x + msgs[k].len]]
           V == Sizes(msgs)
<1>1. n \in Nat /\ \A k \in 1..n : msgs[k].len \in Nat
  OBVIOUS
<1>2. V = CHOOSE f : Is(f)
  BY DEF Sizes
<1> HIDE DEF n, V
<1>3. D \in [1..n -> [Nat -> Nat]]
  BY <1>1
<1>4. \A k \in 1..n : \A x \in Nat : D[k][x] = x + msgs[k].len
  OBVIOUS
<1> HIDE DEF D
<1>5. /\ \E f \in [0..n -> Nat] : f[0] = 0 /\ \A k \in 1..n : f[k] = D[k][f[k - 1]]
      /\ \A g : g[0] = 0 /\ (\A k \in 1..n : g[k - 1] \in Nat => g[k] = D[k][g[k - 1]])
                   => \A k \in 0..n : g[k] \in Nat
  <2> DEFINE S == Nat
             z == 0
  <2>1. n \in Nat /\ z \in S /\ D \in StepsOf(n, S)
    BY <1>1, <1>3 DEF StepsOf
  <2> HIDE DEF S, z
  <2>2. Made(n, S, z, D)
    BY <2>1, Iterated
  <2> QED BY <2>2 DEF Made, S, z
<1>10. \E f : Is(f)
  <2>1. PICK f \in [0..n -> Nat] : f[0] = 0 /\ \A k \in 1..n : f[k] = D[k][f[k - 1]]
    BY <1>5
  <2>2. \A k \in 1..n : f[k] = f[k - 1] + msgs[k].len
    <3> SUFFICES ASSUME NEW k \in 1..n PROVE f[k] = f[k - 1] + msgs[k].len
      OBVIOUS
    <3>1. k - 1 \in 0..n
      BY <1>1
    <3>2. f[k - 1] \in Nat
      BY <2>1, <3>1
    <3> QED BY <1>4, <2>1, <3>2
  <2>3. \A k \in 0..n : k # 0 => k \in 1..n
    BY <1>1
  <2>4. \A k \in 0..n : f[k] = IF k = 0 THEN 0 ELSE f[k - 1] + msgs[k].len
    BY <2>1, <2>2, <2>3
  <2>5. Is(f)
    BY <2>4
  <2> QED BY <2>5
<1>6. Is(V)
  <2> HIDE DEF Is
  <2> QED BY <1>2, <1>10
<1>7. 0 \in 0..n /\ \A k \in 1..n : k \in 0..n /\ k # 0
  BY <1>1
<1>8. V[0] = 0 /\ \A k \in 1..n : V[k] = V[k - 1] + msgs[k].len
  BY <1>6, <1>7
<1>9. \A k \in 0..n : V[k] \in Nat
  <2>1. \A k \in 1..n : V[k - 1] \in Nat => V[k] = D[k][V[k - 1]]
    BY <1>4, <1>8
  <2> HIDE DEF Is
  <2> QED BY <1>5, <1>8, <2>1
<1> QED BY <1>8, <1>9 DEF n, V

\* More messages are not shorter.
LEMMA SizesGrow ==
  ASSUME NEW O, NEW msgs \in Seq(MessageOf(O)), NEW j \in 0..Len(msgs), NEW k \in j..Len(msgs)
  PROVE  Sizes(msgs)[j] \in Nat /\ Sizes(msgs)[k] \in Nat /\ Sizes(msgs)[j] <= Sizes(msgs)[k]
<1> DEFINE n == Len(msgs)
           V == Sizes(msgs)
           P == {m \in 0..n : \A i \in 0..m : V[i] <= V[m]}
<1>1. n \in Nat /\ V[0] = 0 /\ (\A m \in 0..n : V[m] \in Nat)
      /\ \A m \in 1..n : V[m] = V[m - 1] + msgs[m].len /\ msgs[m].len \in Nat
  <2>1. n \in Nat /\ \A m \in 1..n : msgs[m] \in MessageOf(O)
    OBVIOUS
  <2>2. \A x \in MessageOf(O) : x.len \in Nat
    BY Limits DEF MessageOf
  <2> QED BY <2>1, <2>2, SizesDefined
<1> HIDE DEF V, n
<1>2. 0 \in P
  BY <1>1
<1>3. ASSUME NEW m \in 1..n, m - 1 \in P PROVE m \in P
  <2>1. m \in 0..n /\ V[m - 1] <= V[m] /\ V[m] \in Nat /\ V[m - 1] \in Nat
    <3>1. m \in 0..n /\ m - 1 \in 0..n
      BY <1>1
    <3>2. V[m] \in Nat /\ V[m - 1] \in Nat /\ V[m] = V[m - 1] + msgs[m].len /\ msgs[m].len \in Nat
      BY <1>1, <3>1
    <3> QED BY <3>1, <3>2
  <2>2. ASSUME NEW i \in 0..m PROVE V[i] <= V[m]
    <3>1. CASE i = m
      BY <2>1, <3>1
    <3>2. CASE i # m
      <4>1. i \in 0..(m - 1) /\ i \in 0..n
        BY <1>1, <3>2
      <4>2. V[i] <= V[m - 1] /\ V[i] \in Nat
        BY <1>1, <1>3, <4>1
      <4> QED BY <2>1, <4>2
    <3> QED BY <3>1, <3>2
  <2> QED BY <2>1, <2>2
<1>4. k \in 0..n /\ j \in 0..k /\ j \in 0..n
  BY <1>1 DEF n
<1>5. k \in P
  <2> HIDE DEF P
  <2>1. 0..n \subseteq P
    BY <1>1, <1>2, <1>3, Climb
  <2> QED BY <1>4, <2>1
<1> QED BY <1>1, <1>4, <1>5 DEF V

\* What passes takes less than the bucket holds.
LEMMA PassingFits ==
  ASSUME NEW O, NEW msgs \in Seq(MessageOf(O)), NEW bucket \in Nat, NEW k \in 0..Passing(msgs, bucket)
  PROVE  /\ Passing(msgs, bucket) \in 0..Len(msgs) /\ k \in 0..Len(msgs)
         /\ Sizes(msgs)[k] \in Nat /\ Sizes(msgs)[k] <= bucket
<1> DEFINE n == Len(msgs)
           V == Sizes(msgs)
           P == {i \in DOMAIN msgs : V[i] < bucket}
           Q == {i \in 1..(n + 1) : i = n + 1 \/ V[i] >= bucket}
<1>1. n \in Nat /\ DOMAIN msgs = 1..n
  OBVIOUS
<1>2. \A i \in 0..n : V[i] \in Nat
  <2> SUFFICES ASSUME NEW i \in 0..n PROVE V[i] \in Nat
    OBVIOUS
  <2>1. i \in i..n
    BY <1>1
  <2> QED BY <2>1, SizesGrow
<1>3. \A i \in 0..n : \A j \in i..n : V[i] <= V[j]
  BY SizesGrow
<1>4. V[0] = 0 /\ Passing(msgs, bucket) = Cardinality(P)
  <2>1. \A m \in 1..n : msgs[m] \in MessageOf(O)
    OBVIOUS
  <2>2. \A x \in MessageOf(O) : x.len \in Nat
    BY Limits DEF MessageOf
  <2>3. V[0] = 0
    BY <1>1, <2>1, <2>2, SizesDefined
  <2> QED BY <2>3 DEF Passing
<1> HIDE DEF V, n
<1>5. PICK m \in Q : \A i \in Q : m <= i
  <2>1. n + 1 \in Q /\ Q \subseteq Nat
    BY <1>1
  <2> QED BY <2>1, LeastNat
<1>6. m \in 1..(n + 1) /\ (m = n + 1 \/ V[m] >= bucket)
  BY <1>5
<1>7. \A i \in 1..n : i < m => V[i] < bucket
  <2> SUFFICES ASSUME NEW i \in 1..n, i < m PROVE V[i] < bucket
    OBVIOUS
  <2>1. i \notin Q
    <3> HIDE DEF Q
    <3> QED BY <1>1, <1>5, <1>6
  <2>2. i \in 1..(n + 1) /\ V[i] \in Nat
    BY <1>1, <1>2
  <2> QED BY <2>1, <2>2
<1>8. P = 1..(m - 1)
  <2>1. ASSUME NEW i \in P PROVE i \in 1..(m - 1)
    <3>1. i \in 1..n /\ V[i] < bucket
      BY <1>1
    <3>2. CASE m = n + 1
      BY <1>1, <3>1, <3>2
    <3>3. CASE m # n + 1 /\ i >= m
      <4>1. m \in 0..n /\ i \in m..n
        BY <1>1, <1>6, <3>1, <3>3
      <4>2. V[m] <= V[i] /\ V[m] \in Nat /\ V[i] \in Nat
        BY <1>2, <1>3, <3>1, <4>1
      <4> QED BY <1>6, <3>1, <3>3, <4>2
    <3> QED BY <1>6, <3>1, <3>2, <3>3
  <2>2. ASSUME NEW i \in 1..(m - 1) PROVE i \in P
    <3>1. i \in 1..n /\ i < m
      BY <1>1, <1>6
    <3> QED BY <1>1, <1>7, <3>1
  <2> HIDE DEF P
  <2> QED BY <2>1, <2>2
<1>9. Cardinality(P) = m - 1
  <2>1. m - 1 \in Nat
    BY <1>1, <1>6
  <2> QED BY <1>8, <2>1, IntervalSize
<1>10. k \in 0..(m - 1)
  BY <1>4, <1>9
<1>11. V[k] <= bucket
  <2>1. CASE k = 0
    BY <1>4, <2>1
  <2>2. CASE k # 0
    <3>1. k \in 1..n /\ k < m
      BY <1>1, <1>6, <1>10, <2>2
    <3> QED BY <1>2, <1>7, <3>1
  <2> QED BY <2>1, <2>2
<1> QED BY <1>1, <1>2, <1>4, <1>6, <1>9, <1>10, <1>11 DEF V, n

\* How many pass is a number.
LEMMA PassingNat ==
  ASSUME NEW T, NEW msgs \in Seq(T), NEW bucket
  PROVE  Passing(msgs, bucket) \in Nat
<1>1. IsFiniteSet(1..Len(msgs)) /\ DOMAIN msgs = 1..Len(msgs)
  BY IntervalSize
<1>2. {k \in DOMAIN msgs : Sizes(msgs)[k] < bucket} \in SUBSET (1..Len(msgs))
  BY <1>1
<1> QED BY <1>1, <1>2, FS_Subset, FS_CardinalityType DEF Passing

\* Parts of a list of messages.
LEMMA PartsType ==
  ASSUME NEW T, NEW f \in Seq(T), NEW n \in 0..Len(f)
  PROVE  SubSeq(f, 1, n) \in Seq(T) /\ SubSeq(f, n + 1, Len(f)) \in Seq(T)
<1>1. Len(f) \in Nat /\ n \in Nat /\ \A i \in 1..Len(f) : f[i] \in T
  OBVIOUS
<1>2. (\A i \in 1..n : f[i] \in T) /\ \A i \in (n + 1)..Len(f) : f[i] \in T
  BY <1>1
<1>3. SubSeq(f, 1, n) \in Seq(T)
  BY <1>1, <1>2, SubSeqProperties
<1>4. SubSeq(f, n + 1, Len(f)) \in Seq(T)
  BY <1>1, <1>2, SubSeqProperties
<1> QED BY <1>3, <1>4

\* Messages that go out take from the bucket what is there.
LEMMA TakeType ==
  ASSUME NEW O \in Ghost, NEW q \in QueueOf(O), NEW type \in Queue, NEW n \in 0..Passing(q[type], q.bucket)
  PROVE  /\ Take(q, type, n) \in QueueOf(O)
         /\ SubSeq(q[type], 1, n) \in Seq(MessageOf(O))
<1> DEFINE f == q[type]
           rest == SubSeq(f, n + 1, Len(f))
           b == q.bucket - Sizes(f)[n]
           c == IF n > 0 THEN 0 ELSE q.recentsent
           p == [q EXCEPT ![type] = rest]
<1>1. f \in Seq(MessageOf(O)) /\ q.bucket \in 0..server_send_max /\ q.recentsent \in 0..RecentPings
  BY DEF Queue, QueueOf
<1>2. n \in 0..Len(f) /\ Sizes(f)[n] \in Nat /\ Sizes(f)[n] <= q.bucket
  <2>1. q.bucket \in Nat
    BY <1>1, Limits
  <2> QED BY <1>1, <2>1, PassingFits
<1>3. b \in 0..server_send_max /\ c \in 0..RecentPings
  BY <1>1, <1>2, Limits
<1>4. rest \in Seq(MessageOf(O)) /\ SubSeq(f, 1, n) \in Seq(MessageOf(O))
  BY <1>1, <1>2, PartsType
<1>5. Take(q, type, n) = [p EXCEPT !.bucket = b, !.recentsent = c]
  BY DEF Take, Queue, QueueOf
<1> HIDE DEF rest, b, c
<1>6. p \in QueueOf(O)
  BY <1>4, FieldType
<1> HIDE DEF p
<1>7. [p EXCEPT !.bucket = b, !.recentsent = c] \in QueueOf(O)
  BY <1>3, <1>6 DEF QueueOf
<1> QED BY <1>4, <1>5, <1>7 DEF f

SentOf(O) == [q : QueueOf(O), sent : Seq(MessageOf(O))]

\* One queue's turn.
LEMMA SendFromType ==
  ASSUME NEW O \in Ghost, NEW r \in SentOf(O), NEW type \in Queue
  PROVE  SendFrom(r, type) \in SentOf(O)
<1> DEFINE all == Passing(r.q[type], r.q.bucket)
           n == Due(r.q, type)
           t == Take(r.q, type, n)
           a == IF type = "slow" /\ n > 0 THEN 0 ELSE t.slowage
           out == SubSeq(r.q[type], 1, n)
<1>1. r.q \in QueueOf(O) /\ r.sent \in Seq(MessageOf(O)) /\ r.q[type] \in Seq(MessageOf(O)) /\ r.q.bucket \in Nat
  BY Limits DEF SentOf, QueueOf, Queue
<1>2. all \in Nat
  BY <1>1, PassingNat
<1>3. n \in 0..all
  <2>1. n = IF type # "slow" THEN all
            ELSE IF r.q.slowage <= slow_privmsg THEN 0
            ELSE IF slow_privmsg > 0 THEN Min2(all, 1) ELSE all
    BY DEF Due
  <2> HIDE DEF all, n
  <2> QED BY <1>2, <2>1 DEF Min2
<1>5. SendFrom(r, type) = [q |-> [t EXCEPT !.slowage = a], sent |-> r.sent \o out]
  BY DEF SendFrom
<1> HIDE DEF n
<1>4. t \in QueueOf(O) /\ out \in Seq(MessageOf(O))
  BY <1>1, <1>3, TakeType
<1> HIDE DEF t, out
<1>6. a \in 0..(slow_privmsg + 1)
  BY <1>4, Limits DEF QueueOf
<1> HIDE DEF a
<1>7. [t EXCEPT !.slowage = a] \in QueueOf(O)
  BY <1>4, <1>6 DEF QueueOf
<1>8. r.sent \o out \in Seq(MessageOf(O))
  BY <1>1, <1>4
<1> QED BY <1>5, <1>7, <1>8 DEF SentOf

\* A second's work: what goes out was in the queues, and no older.
LEMMA SendQueueType ==
  ASSUME NEW O \in Ghost, NEW q \in QueueOf(O)
  PROVE  SendQueue(q) \in SentOf(O)
<1> DEFINE start == [q |-> Refilled(Announced(q)), sent |-> <<>>]
           r == SendFrom(SendFrom(SendFrom(start, "fast"), "normal"), "slow")
<1>1. start \in SentOf(O)
  <2>1. Refilled(Announced(q)) \in QueueOf(O) /\ <<>> \in Seq(MessageOf(O))
    BY AnnouncedType, RefilledType
  <2> QED BY <2>1 DEF SentOf
<1> HIDE DEF start
<1>2. r \in SentOf(O)
  BY <1>1, SendFromType DEF Queue
<1>3. SendQueue(q) \in {r, [r EXCEPT !.q.recentsent = RecentPings]}
  BY DEF SendQueue, start
<1> HIDE DEF r
<1>4. [r EXCEPT !.q.recentsent = RecentPings] \in SentOf(O)
  <2>1. r.q \in QueueOf(O) /\ r.sent \in Seq(MessageOf(O)) /\ r = [q |-> r.q, sent |-> r.sent]
    BY <1>2 DEF SentOf
  <2>2. RecentPings \in 0..RecentPings
    BY Limits
  <2>3. [r.q EXCEPT !.recentsent = RecentPings] \in QueueOf(O)
    BY <2>1, <2>2 DEF QueueOf
  <2> QED BY <2>1, <2>3 DEF SentOf
<1> QED BY <1>2, <1>3, <1>4
-----------------------------------------------------------------------------
(* States *)

MeRecord == [nick : Nick, number : 0..MaxNick]
BotState ==
  [conn : ConnRecord, lookup : LookupRecord, me : MeRecord, chan : ChanRecord,
   sendq : QueueOf(BOOLEAN), exiting : {"no", "yes", "exited"}, server : ServerRecord]

\* The link is there only while the bot uses it; without one nothing is on its way.
Linked(s) ==
  /\ s.server.link # "none" => s.conn.status \in {"CONNECTED", "SSL_HANDSHAKE"}
  /\ s.server.link = "none" => s.server.lines = <<>> /\ ~s.server.registered /\ ~s.server.on

\* What waits while there is a server, or one is tried, was written for it.
Fresh(s) == s.conn.status \notin {"NEED_TO_CONNECT", "EXIT"} => s.sendq \in QueueOf({FALSE})

\* The last line that names us has the nick the server knows us by; without one the
\* bot knows it.
Naming(l) == l.cmd \in {"001", "NICK_US"}
Agrees(lines, mine, nick) ==
  /\ (\A i \in DOMAIN lines : ~Naming(lines[i])) => mine = nick
  /\ \A i \in DOMAIN lines :
       Naming(lines[i]) /\ (\A j \in DOMAIN lines : j > i => ~Naming(lines[j])) => lines[i].nick = nick
Knows(v, mine) == v.link = "open" /\ v.registered => Agrees(v.lines, mine, v.nick)

\* What a line makes of the list of members.
Effect(M, l) ==
  CASE l.cmd \in {"353", "JOIN"} -> M \cup l.who
    [] l.cmd = "LEAVE" -> M \ l.who
    [] l.cmd = "NICK" -> IF l.who \subseteq M THEN (M \ l.who) \cup l.new ELSE M
    [] l.cmd = "KICK_US" -> {}
    [] OTHER -> M

\* With the lines after the n-th handled the list has everybody of U, if it counts: it
\* did before and was M, or one of the lines makes it count, whatever it is by then.
Covers(L, n, U, M, on) ==
  \A f \in [n..Len(L) -> SUBSET Person], i \in n..Len(L) :
    /\ \A k \in (i + 1)..Len(L) : f[k] = Effect(f[k - 1], L[k])
    /\ (i = n /\ on /\ f[i] = M) \/ (i > n /\ L[i].cmd = "JOIN_US")
    => U \subseteq f[Len(L)]

\* The list that counts has everybody when what is on its way has been read.
Aware(v, c) ==
  v.link = "open" /\ v.on => Covers(v.lines, 0, v.users, c.members, c.known /\ c.on)

\* A list that did not count does not count, one that counts is as it was.
Calm(c, d) == d.known /\ d.on => c.known /\ c.on /\ d.members = c.members

\* A list after a line.
Follows(c, d, l) ==
  d.known /\ d.on =>
    l.cmd = "JOIN_US" \/ (c.known /\ c.on /\ d.members = Effect(c.members, l))

Sound(s) == s \in BotState /\ Linked(s) /\ Fresh(s) /\ ~s.server.gotold
Good(s) == Sound(s) /\ Knows(s.server, s.me.nick) /\ Aware(s.server, s.chan)

\* The values handlers set are of the types.
LEMMA Zeros ==
  /\ 0 \in 0..MaxQuiet /\ reconnect_delay \in 0..MaxQuiet /\ 0 \in 0..3 /\ 0 \in 0..waitjoin
  /\ 0 \in 0..MaxBackoff /\ 0 \in 0..Addresses /\ 0 \in 0..MaxNick
  /\ 0 \in Nick /\ server_send_max \in 0..server_send_max /\ 0 \in 0..RecentPings
  /\ <<>> \in Seq(Line) /\ {} \in SUBSET Person
<1>1. Patience \in Nat
  BY NetworkAssumption DEF Patience
<1>2. MaxQuiet \in Nat /\ reconnect_delay \in 0..MaxQuiet
  BY <1>1, NetworkAssumption DEF MaxQuiet
<1> QED BY <1>2, NetworkAssumption, Limits DEF Nick

\* The parts of a state.
LEMMA PartsOf ==
  ASSUME NEW s \in BotState
  PROVE  /\ s.conn \in ConnRecord /\ s.lookup \in LookupRecord /\ s.me \in MeRecord
         /\ s.chan \in ChanRecord /\ s.sendq \in QueueOf(BOOLEAN)
         /\ s.exiting \in {"no", "yes", "exited"} /\ s.server \in ServerRecord
  BY DEF BotState
-----------------------------------------------------------------------------
(* The list of members *)

\* A line more on its way: who was in the list may leave it only if he is not in V.
LEMMA CoversAppend ==
  ASSUME NEW L \in Seq(Line), NEW l \in Line, l.cmd # "JOIN_US", NEW U, NEW V, NEW M, NEW on,
         Covers(L, 0, U, M, on), \A X \in SUBSET Person : U \subseteq X => V \subseteq Effect(X, l)
  PROVE  Covers(Append(L, l), 0, V, M, on)
<1> DEFINE r == Append(L, l)
           n == Len(L)
<1>1. n \in Nat /\ Len(r) = n + 1 /\ r[n + 1] = l /\ \A i \in 1..n : r[i] = L[i]
  OBVIOUS
<1> HIDE DEF r
<1>2. ASSUME NEW f \in [0..(n + 1) -> SUBSET Person], NEW i \in 0..(n + 1),
             \A k \in (i + 1)..(n + 1) : f[k] = Effect(f[k - 1], r[k]),
             (i = 0 /\ on /\ f[i] = M) \/ (i > 0 /\ r[i].cmd = "JOIN_US")
      PROVE  V \subseteq f[n + 1]
  <2>1. i \in 0..n /\ n + 1 \in (i + 1)..(n + 1) /\ n \in 0..(n + 1) /\ n + 1 - 1 = n
    BY <1>1, <1>2
  <2> DEFINE g == [k \in 0..n |-> f[k]]
  <2>2. g \in [0..n -> SUBSET Person] /\ \A k \in 0..n : g[k] = f[k]
    BY <1>1
  <2> HIDE DEF g
  <2>3. ASSUME NEW k \in (i + 1)..n PROVE g[k] = Effect(g[k - 1], L[k])
    <3>1. k \in (i + 1)..(n + 1) /\ k \in 0..n /\ k - 1 \in 0..n /\ r[k] = L[k]
      BY <1>1, <2>1
    <3> QED BY <1>2, <2>2, <3>1
  <2>4. (i = 0 /\ on /\ g[i] = M) \/ (i > 0 /\ L[i].cmd = "JOIN_US")
    <3>1. i > 0 => i \in 1..n
      BY <2>1
    <3> QED BY <1>1, <1>2, <2>1, <2>2, <3>1
  <2>5. U \subseteq g[n]
    BY <2>1, <2>2, <2>3, <2>4 DEF Covers
  <2>6. n \in 0..n /\ f[n] \in SUBSET Person /\ f[n + 1] = Effect(f[n], l)
    BY <1>1, <1>2, <2>1
  <2> QED BY <2>2, <2>5, <2>6
<1>3. Covers(r, 0, V, M, on)
  BY <1>1, <1>2 DEF Covers
<1> QED BY <1>3 DEF r

\* A JOIN of ours is answered with all who are there.
LEMMA CoversJoin ==
  ASSUME NEW L \in Seq(Line), NEW j \in Line, NEW l \in Line, l.cmd = "353", NEW M, NEW on
  PROVE  Covers(Append(Append(L, j), l), 0, l.who, M, on)
<1> DEFINE r == Append(Append(L, j), l)
           n == Len(L)
<1>1. n \in Nat /\ Len(r) = n + 2 /\ r[n + 2] = l
  OBVIOUS
<1> HIDE DEF r
<1>2. ASSUME NEW f \in [0..(n + 2) -> SUBSET Person], NEW i \in 0..(n + 2),
             \A k \in (i + 1)..(n + 2) : f[k] = Effect(f[k - 1], r[k]),
             (i = 0 /\ on /\ f[i] = M) \/ (i > 0 /\ r[i].cmd = "JOIN_US")
      PROVE  l.who \subseteq f[n + 2]
  <2>1. i # n + 2
    BY <1>1, <1>2
  <2>2. n + 2 \in (i + 1)..(n + 2)
    BY <1>1, <2>1
  <2>3. f[n + 2] = Effect(f[n + 2 - 1], l)
    BY <1>1, <1>2, <2>2
  <2> QED BY <2>3 DEF Effect
<1>3. Covers(r, 0, l.who, M, on)
  BY <1>1, <1>2 DEF Covers
<1> QED BY <1>3 DEF r

\* A line is handled.
LEMMA CoversStep ==
  ASSUME NEW L \in Seq(Line), NEW n \in 1..Len(L), NEW U, NEW M \in SUBSET Person, NEW on, NEW P, NEW b,
         Covers(L, n - 1, U, M, on),
         b => L[n].cmd = "JOIN_US" \/ (on /\ P = Effect(M, L[n]))
  PROVE  Covers(L, n, U, P, b)
<1> DEFINE m == Len(L)
<1>1. m \in Nat /\ n \in Nat /\ n <= m /\ m \in n..m /\ m \in (n - 1)..m /\ n - 1 \in (n - 1)..m
  OBVIOUS
<1>2. ASSUME NEW f \in [n..m -> SUBSET Person], NEW i \in n..m,
             \A k \in (i + 1)..m : f[k] = Effect(f[k - 1], L[k]),
             (i = n /\ b /\ f[i] = P) \/ (i > n /\ L[i].cmd = "JOIN_US")
      PROVE  U \subseteq f[m]
  <2> DEFINE g == [k \in (n - 1)..m |-> IF k = n - 1 THEN M ELSE f[k]]
  <2>1. /\ g \in [(n - 1)..m -> SUBSET Person] /\ g[n - 1] = M
        /\ \A k \in n..m : k \in (n - 1)..m /\ g[k] = f[k]
    <3>1. \A k \in (n - 1)..m : k # n - 1 => k \in n..m
      BY <1>1
    <3>2. \A k \in n..m : k \in (n - 1)..m /\ k # n - 1
      BY <1>1
    <3> QED BY <1>1, <3>1, <3>2
  <2> HIDE DEF g
  <2>2. ASSUME NEW k \in (i + 1)..m PROVE g[k] = Effect(g[k - 1], L[k])
    <3>1. k \in n..m /\ k - 1 \in n..m
      BY <1>1
    <3> QED BY <1>2, <2>1, <3>1
  <2>3. CASE L[i].cmd = "JOIN_US"
    <3>1. i \in (n - 1)..m /\ i > n - 1
      BY <1>1
    <3>2. U \subseteq g[m]
      BY <2>1, <2>2, <2>3, <3>1 DEF Covers
    <3> QED BY <1>1, <2>1, <3>2
  <2>4. CASE i = n /\ on /\ f[n] = Effect(M, L[n])
    <3>1. ASSUME NEW k \in ((n - 1) + 1)..m PROVE g[k] = Effect(g[k - 1], L[k])
      <4>1. k \in n..m
        BY <1>1
      <4>2. CASE k = n
        BY <1>1, <2>1, <2>4, <4>1, <4>2
      <4>3. CASE k # n
        <5>1. k \in (i + 1)..m
          BY <1>1, <2>4, <4>1, <4>3
        <5> QED BY <2>2, <5>1
      <4> QED BY <4>2, <4>3
    <3>2. U \subseteq g[m]
      BY <1>1, <2>1, <2>4, <3>1 DEF Covers
    <3> QED BY <1>1, <2>1, <3>2
  <2> QED BY <1>2, <2>3, <2>4
<1> QED BY <1>2 DEF Covers

\* The lines that are handled are no longer there.
LEMMA CoversRest ==
  ASSUME NEW L \in Seq(Line), NEW n \in 0..Len(L), NEW U, NEW M, NEW on, Covers(L, n, U, M, on)
  PROVE  Covers(SubSeq(L, n + 1, Len(L)), 0, U, M, on)
<1> DEFINE r == SubSeq(L, n + 1, Len(L))
           m == Len(L)
<1>1. m \in Nat /\ n \in Nat /\ n <= m /\ Len(r) = m - n /\ \A i \in 1..(m - n) : r[i] = L[n + i]
  OBVIOUS
<1> HIDE DEF r
<1>2. ASSUME NEW f \in [0..(m - n) -> SUBSET Person], NEW i \in 0..(m - n),
             \A k \in (i + 1)..(m - n) : f[k] = Effect(f[k - 1], r[k]),
             (i = 0 /\ on /\ f[i] = M) \/ (i > 0 /\ r[i].cmd = "JOIN_US")
      PROVE  U \subseteq f[m - n]
  <2> DEFINE g == [k \in n..m |-> f[k - n]]
             j == i + n
  <2>1. /\ g \in [n..m -> SUBSET Person] /\ \A k \in n..m : g[k] = f[k - n]
        /\ j \in n..m /\ j - n = i /\ m \in n..m
    <3>1. \A k \in n..m : k - n \in 0..(m - n)
      BY <1>1
    <3> QED BY <1>1, <3>1
  <2>2. i > 0 => j > n /\ r[i] = L[j]
    <3>1. i > 0 => i \in 1..(m - n) /\ n + i = i + n
      BY <1>1
    <3> QED BY <1>1, <3>1
  <2>3. i = 0 => j = n
    BY <1>1
  <2> HIDE DEF g
  <2>4. ASSUME NEW k \in (j + 1)..m PROVE g[k] = Effect(g[k - 1], L[k])
    <3> DEFINE h == k - n
    <3>1. /\ h \in (i + 1)..(m - n) /\ h \in 1..(m - n) /\ n + h = k /\ k \in n..m /\ k - 1 \in n..m
          /\ (k - 1) - n = h - 1
      BY <1>1
    <3>2. r[h] = L[k] /\ g[k] = f[h] /\ g[k - 1] = f[h - 1]
      BY <1>1, <2>1, <3>1
    <3> HIDE DEF h
    <3> QED BY <1>2, <3>1, <3>2
  <2> HIDE DEF j
  <2>5. (j = n /\ on /\ g[j] = M) \/ (j > n /\ L[j].cmd = "JOIN_US")
    BY <1>2, <2>1, <2>2, <2>3
  <2>6. U \subseteq g[m]
    BY <2>1, <2>4, <2>5 DEF Covers
  <2> QED BY <2>1, <2>6
<1>3. Covers(r, 0, U, M, on)
  BY <1>1, <1>2 DEF Covers
<1> QED BY <1>3 DEF r

\* The list itself changes.
LEMMA AwareCalm ==
  ASSUME NEW v, NEW c, NEW d, Calm(c, d), Aware(v, c)
  PROVE  Aware(v, d)
  BY DEF Aware, Covers, Calm
-----------------------------------------------------------------------------
(* What the server does *)

\* A line on its way that does not name us, or has the nick the server knows.
LEMMA AgreesAppend ==
  ASSUME NEW lines \in Seq(Line), NEW l \in Line, NEW nick, NEW mine,
         (~Naming(l) /\ Agrees(lines, mine, nick)) \/ (Naming(l) /\ l.nick = nick)
  PROVE  Agrees(Append(lines, l), mine, nick)
<1> DEFINE r == Append(lines, l)
           n == Len(lines)
<1>1. /\ n \in Nat /\ DOMAIN lines = 1..n /\ DOMAIN r = 1..(n + 1)
      /\ r[n + 1] = l /\ \A i \in 1..n : r[i] = lines[i]
  OBVIOUS
<1>4. ( /\ (\A i \in DOMAIN r : ~Naming(r[i])) => mine = nick
        /\ \A i \in DOMAIN r : Naming(r[i]) /\ (\A j \in DOMAIN r : j > i => ~Naming(r[j])) => r[i].nick = nick )
      => Agrees(Append(lines, l), mine, nick)
  BY DEF Agrees
<1> HIDE DEF r, n
<1>2. CASE Naming(l) /\ l.nick = nick
  <2>1. n + 1 \in DOMAIN r
    BY <1>1
  <2>2. ~(\A i \in DOMAIN r : ~Naming(r[i]))
    BY <1>1, <1>2, <2>1
  <2>3. ASSUME NEW i \in DOMAIN r, \A j \in DOMAIN r : j > i => ~Naming(r[j])
        PROVE  r[i].nick = nick
    <3>1. ~(n + 1 > i)
      BY <1>1, <1>2, <2>1, <2>3
    <3>2. i = n + 1
      BY <1>1, <3>1
    <3> QED BY <1>1, <1>2, <3>2
  <2> QED BY <1>4, <2>2, <2>3
<1>3. CASE ~Naming(l) /\ Agrees(lines, mine, nick)
  <2>1. ASSUME \A i \in DOMAIN r : ~Naming(r[i]) PROVE mine = nick
    <3>1. \A i \in DOMAIN lines : i \in DOMAIN r /\ r[i] = lines[i]
      BY <1>1
    <3> QED BY <1>3, <2>1, <3>1 DEF Agrees
  <2>2. ASSUME NEW i \in DOMAIN r, Naming(r[i]), \A j \in DOMAIN r : j > i => ~Naming(r[j])
        PROVE  r[i].nick = nick
    <3>1. i \in DOMAIN lines /\ r[i] = lines[i]
      BY <1>1, <1>3, <2>2
    <3>2. \A j \in DOMAIN lines : j > i => ~Naming(lines[j])
      BY <1>1, <2>2
    <3> QED BY <1>3, <2>2, <3>1, <3>2 DEF Agrees
  <2> QED BY <1>4, <2>1, <2>2
<1> QED BY <1>2, <1>3

LineCmd == {"001", "433", "353", "JOIN", "LEAVE", "NICK", "JOIN_US", "PART_US",
            "NICK_US", "KICK_US", "QUIT_US", "ERROR", "PONG"}
\* The lines after which somebody may be missing in the list who was there.
Telling == {"JOIN_US", "LEAVE", "NICK", "KICK_US"}

\* The server says something.
LEMMA SaysType ==
  ASSUME NEW v \in ServerRecord, NEW cmd \in LineCmd, NEW who \in SUBSET Person, NEW nick \in Nick
  PROVE  LET w == Says(v, cmd, who, nick)
         IN /\ w \in ServerRecord /\ w = [v EXCEPT !.lines = w.lines]
            /\ \A mine : (IF cmd \in {"001", "NICK_US"} THEN nick = v.nick ELSE Agrees(v.lines, mine, v.nick))
                           => Agrees(w.lines, mine, w.nick)
            /\ cmd \notin Telling => \A c : Aware(v, c) => Aware(w, c)
<1> DEFINE l == [cmd |-> cmd, who |-> who, new |-> {}, nick |-> nick]
           f == Append(v.lines, l)
<1>1. l \in Line /\ (Naming(l) <=> cmd \in {"001", "NICK_US"}) /\ l.nick = nick
  BY Zeros DEF Line, Naming, LineCmd
<1>2. v.lines \in Seq(Line)
  BY DEF ServerRecord
<1>3. Says(v, cmd, who, nick) = [v EXCEPT !.lines = f]
  BY DEF Says
<1>4. f \in Seq(Line)
  BY <1>1, <1>2
<1>5. \A mine : (IF Naming(l) THEN nick = v.nick ELSE Agrees(v.lines, mine, v.nick)) => Agrees(f, mine, v.nick)
  <2> HIDE DEF l
  <2> QED BY <1>1, <1>2, AgreesAppend
<1>8. cmd \notin Telling => l.cmd # "JOIN_US" /\ \A X : X \subseteq Effect(X, l)
  BY DEF Effect, Telling
<1> HIDE DEF l, f
<1> DEFINE w == [v EXCEPT !.lines = f]
<1>6. /\ w \in ServerRecord /\ w.lines = f /\ w.nick = v.nick
      /\ w.link = v.link /\ w.on = v.on /\ w.users = v.users
  BY <1>4 DEF ServerRecord
<1> HIDE DEF w
<1>7. w = [v EXCEPT !.lines = w.lines]
  BY <1>6 DEF w
<1>9. ASSUME cmd \notin Telling, NEW c, Aware(v, c) PROVE Aware(w, c)
  <2>1. l.cmd # "JOIN_US" /\ \A X \in SUBSET Person : v.users \subseteq X => v.users \subseteq Effect(X, l)
    <3>1. l.cmd # "JOIN_US" /\ \A X : X \subseteq Effect(X, l)
      BY <1>8, <1>9
    <3> QED BY <3>1
  <2>2. ASSUME v.link = "open", v.on PROVE Covers(f, 0, v.users, c.members, c.known /\ c.on)
    <3>1. Covers(v.lines, 0, v.users, c.members, c.known /\ c.on)
      BY <1>9, <2>2 DEF Aware
    <3> DEFINE b == c.known /\ c.on
               m == c.members
               U == v.users
    <3> HIDE DEF b, m, U
    <3>2. Covers(Append(v.lines, l), 0, U, m, b)
      BY <1>1, <1>2, <2>1, <3>1, CoversAppend DEF b, m, U
    <3> QED BY <3>2 DEF b, m, U, f
  <2> QED BY <1>6, <2>2 DEF Aware
<1> QED BY <1>1, <1>3, <1>5, <1>6, <1>7, <1>9 DEF w

\* A command of the bot leaves the link to a server that is there as it is or closed.
LEMMA ServerGetsType ==
  ASSUME NEW v \in ServerRecord, NEW cmd, NEW nick \in Nick
  PROVE  LET w == ServerGets(v, cmd, nick)
         IN /\ w \in ServerRecord /\ w.gotold = v.gotold
            /\ v.link # "open" => w = v
            /\ v.link = "open" => w.link \in {"open", "closed"}
            /\ \A mine : Knows(v, mine) => Knows(w, mine)
            /\ \A c : Aware(v, c) => Aware(w, c)
<1> DEFINE Fine(w) == /\ w \in ServerRecord /\ w.gotold = v.gotold
                      /\ v.link = "open" => w.link \in {"open", "closed"}
                      /\ \A mine : Knows(v, mine) => Knows(w, mine)
                      /\ \A c : Aware(v, c) => Aware(w, c)
           w0 == ServerGets(v, cmd, nick)
<1>0. ASSUME NEW u \in ServerRecord, NEW c \in LineCmd, c \notin {"001", "NICK_US"},
             NEW who \in SUBSET Person, NEW k \in Nick
      PROVE  LET x == Says(u, c, who, k)
             IN /\ x \in ServerRecord /\ x = [u EXCEPT !.lines = x.lines]
                /\ \A mine : Agrees(u.lines, mine, u.nick) => Agrees(x.lines, mine, x.nick)
                /\ c \notin Telling => \A d : Aware(u, d) => Aware(x, d)
  BY <1>0, SaysType
<1>1. Fine(v) /\ (v.link # "open" => w0 = v)
  BY DEF ServerGets
<1> SUFFICES Fine(w0)
  BY <1>1
<1>2. ASSUME v.link = "open", NEW c \in LineCmd, c \notin {"001", "NICK_US"}, NEW u \in ServerRecord,
             NEW who \in SUBSET Person, NEW k \in Nick, c \notin Telling, \A d : Aware(v, d) => Aware(u, d),
             u.link = "open", u.lines = v.lines, u.nick = v.nick, u.registered = v.registered, u.gotold = v.gotold
      PROVE  Fine(Says(u, c, who, k)) /\ Says(u, c, who, k).link = "open"
             /\ Says(u, c, who, k).registered = v.registered
  <2> DEFINE x == Says(u, c, who, k)
  <2>1. /\ x \in ServerRecord /\ x = [u EXCEPT !.lines = x.lines]
        /\ \A mine : Agrees(u.lines, mine, u.nick) => Agrees(x.lines, mine, x.nick)
        /\ \A d : Aware(u, d) => Aware(x, d)
    BY <1>2, SaysType
  <2> HIDE DEF x
  <2>2. x.link = u.link /\ x.registered = u.registered /\ x.gotold = u.gotold
    BY <2>1 DEF ServerRecord
  <2> QED BY <1>2, <2>1, <2>2 DEF Knows, x
<1>3. CASE v.link = "open" /\ cmd = "NICK" /\ nick \in v.taken
  <2>1. w0 \in {v, Says(v, "433", {}, nick)}
    BY <1>3 DEF ServerGets
  <2>2. "433" \in LineCmd /\ "433" \notin {"001", "NICK_US"} /\ "433" \notin Telling
    BY DEF LineCmd, Telling
  <2>3. Fine(Says(v, "433", {}, nick))
    <3> HIDE DEF Fine
    <3> QED BY <1>2, <1>3, <2>2, Zeros
  <2> HIDE DEF Fine, w0
  <2> QED BY <1>1, <2>1, <2>3
<1>4. CASE v.link = "open" /\ cmd = "NICK" /\ nick \notin v.taken
  <2> DEFINE u == [v EXCEPT !.registered = TRUE, !.nick = nick]
             c == IF v.registered THEN "NICK_US" ELSE "001"
             x == Says(u, c, {}, nick)
  <2>1. w0 \in {v, x}
    BY <1>4 DEF ServerGets
  <2>2. u \in ServerRecord /\ u.nick = nick /\ u.link = "open" /\ u.gotold = v.gotold
        /\ \A d : Aware(v, d) => Aware(u, d)
    BY <1>4 DEF ServerRecord, Aware
  <2>3. c \in LineCmd /\ c \in {"001", "NICK_US"} /\ c \notin Telling
    BY DEF LineCmd, Telling
  <2> HIDE DEF u, c
  <2>4. /\ x \in ServerRecord /\ x = [u EXCEPT !.lines = x.lines] /\ \A mine : Agrees(x.lines, mine, x.nick)
        /\ \A d : Aware(u, d) => Aware(x, d)
    <3> DEFINE none == {}
    <3>1. none \in SUBSET Person /\ u \in ServerRecord /\ c \in LineCmd /\ nick \in Nick /\ x = Says(u, c, none, nick)
      BY <2>2, <2>3
    <3> HIDE DEF x, none
    <3>2. /\ x \in ServerRecord /\ x = [u EXCEPT !.lines = x.lines]
          /\ \A mine : (IF c \in {"001", "NICK_US"} THEN nick = u.nick ELSE Agrees(u.lines, mine, u.nick))
                          => Agrees(x.lines, mine, x.nick)
          /\ c \notin Telling => \A d : Aware(u, d) => Aware(x, d)
      BY ONLY <3>1, SaysType
    <3> QED BY <2>2, <2>3, <3>2
  <2> HIDE DEF x
  <2>5. x.link = "open" /\ x.gotold = v.gotold
    BY <2>2, <2>4 DEF ServerRecord
  <2>6. Fine(x)
    BY <1>4, <2>2, <2>4, <2>5 DEF Knows
  <2> HIDE DEF Fine, w0
  <2> QED BY <1>1, <2>1, <2>6
<1>5. CASE v.link = "open" /\ cmd = "JOIN" /\ v.registered /\ ~v.on
  <2> DEFINE u == [v EXCEPT !.on = TRUE]
             x == Says(u, "JOIN_US", {}, 0)
             y == Says(x, "353", v.users, 0)
  <2>1. w0 = y
    BY <1>5 DEF ServerGets
  <2>2. /\ u \in ServerRecord /\ u.nick = v.nick /\ u.link = "open" /\ u.gotold = v.gotold /\ u.lines = v.lines
        /\ v.users \in SUBSET Person
    BY <1>5 DEF ServerRecord
  <2>3. "JOIN_US" \in LineCmd /\ "353" \in LineCmd
    BY DEF LineCmd
  <2> HIDE DEF u
  <2>4. x \in ServerRecord /\ x = [u EXCEPT !.lines = x.lines]
        /\ \A mine : Agrees(u.lines, mine, u.nick) => Agrees(x.lines, mine, x.nick)
    <3>1. {} \in SUBSET Person /\ 0 \in Nick /\ "JOIN_US" \notin {"001", "NICK_US"}
      BY Zeros
    <3> QED BY <1>0, <2>2, <2>3, <3>1
  <2> HIDE DEF x
  <2>5. y \in ServerRecord /\ y = [x EXCEPT !.lines = y.lines]
        /\ \A mine : Agrees(x.lines, mine, x.nick) => Agrees(y.lines, mine, y.nick)
    <3>1. 0 \in Nick /\ "353" \notin {"001", "NICK_US"} /\ "353" \in LineCmd
          /\ x \in ServerRecord /\ v.users \in SUBSET Person
      BY <2>2, <2>3, <2>4, Zeros
    <3> DEFINE W == v.users
    <3> HIDE DEF W
    <3>2. LET z == Says(x, "353", W, 0)
          IN /\ z \in ServerRecord /\ z = [x EXCEPT !.lines = z.lines]
             /\ \A mine : Agrees(x.lines, mine, x.nick) => Agrees(z.lines, mine, z.nick)
             /\ "353" \notin Telling => \A d : Aware(x, d) => Aware(z, d)
      BY <1>0, <3>1 DEF W
    <3> HIDE DEF y
    <3>3. y = Says(x, "353", W, 0)
      BY DEF W, y
    <3> QED BY <3>2, <3>3
  <2> DEFINE j == [cmd |-> "JOIN_US", who |-> {}, new |-> {}, nick |-> 0]
             l == [cmd |-> "353", who |-> v.users, new |-> {}, nick |-> 0]
  <2>9. j \in Line /\ l \in Line /\ l.cmd = "353" /\ l.who = v.users /\ v.lines \in Seq(Line)
    BY <2>2, Zeros DEF Line, ServerRecord
  <2>10. x.lines = Append(u.lines, j) /\ y.lines = Append(x.lines, l)
    <3>1. x.lines = Append(u.lines, j)
      BY <2>2 DEF x, Says, ServerRecord
    <3>2. y.lines = Append(x.lines, l)
      BY <2>4 DEF y, Says, ServerRecord
    <3> QED BY <3>1, <3>2
  <2> HIDE DEF y, j, l
  <2>6. x.link = "open" /\ x.gotold = v.gotold /\ x.users = u.users
    BY <2>2, <2>4 DEF ServerRecord
  <2>7. y.link = "open" /\ y.gotold = v.gotold /\ y.users = u.users
    BY <2>4, <2>5, <2>6 DEF ServerRecord
  <2>11. u.users = v.users
    BY DEF u, ServerRecord
  <2>12. ASSUME NEW d PROVE Aware(y, d)
    <3> DEFINE b == d.known /\ d.on
               m == d.members
    <3> HIDE DEF b, m
    <3>1. Covers(Append(Append(v.lines, j), l), 0, l.who, m, b)
      BY <2>9, CoversJoin
    <3> QED BY <2>2, <2>7, <2>9, <2>10, <2>11, <3>1 DEF Aware, b, m
  <2>8. Fine(y)
    BY <1>5, <2>2, <2>4, <2>5, <2>7, <2>12 DEF Knows
  <2> HIDE DEF Fine, w0
  <2> QED BY <2>1, <2>8
<1>6. CASE v.link = "open" /\ cmd = "PART" /\ v.on
  <2> DEFINE u == [v EXCEPT !.on = FALSE]
  <2>1. w0 = Says(u, "PART_US", {}, 0)
    BY <1>6 DEF ServerGets
  <2>2. /\ u \in ServerRecord /\ u.nick = v.nick /\ u.link = "open" /\ u.gotold = v.gotold /\ u.lines = v.lines
        /\ u.registered = v.registered /\ \A d : Aware(u, d)
    BY <1>6 DEF ServerRecord, Aware
  <2>3. "PART_US" \in LineCmd /\ "PART_US" \notin {"001", "NICK_US"} /\ "PART_US" \notin Telling
    BY DEF LineCmd, Telling
  <2> HIDE DEF u, Fine
  <2>4. Fine(Says(u, "PART_US", {}, 0))
    BY <1>2, <1>6, <2>2, <2>3, Zeros
  <2> QED BY <2>1, <2>4
<1>7. CASE v.link = "open" /\ cmd = "PING"
  <2>1. w0 \in {v, Says(v, "PONG", {}, 0)}
    BY <1>7 DEF ServerGets
  <2>2. "PONG" \in LineCmd /\ "PONG" \notin {"001", "NICK_US"} /\ "PONG" \notin Telling
    BY DEF LineCmd, Telling
  <2>3. Fine(Says(v, "PONG", {}, 0))
    <3> HIDE DEF Fine
    <3> QED BY <1>2, <1>7, <2>2, Zeros
  <2> HIDE DEF Fine, w0
  <2> QED BY <1>1, <2>1, <2>3
<1>8. CASE v.link = "open" /\ cmd = "QUIT"
  <2> DEFINE x == Says(v, "ERROR", {}, 0)
  <2>1. w0 = HangsUp(x)
    BY <1>8 DEF ServerGets
  <2>2. "ERROR" \in LineCmd
    BY DEF LineCmd
  <2>3. x \in ServerRecord /\ x = [v EXCEPT !.lines = x.lines]
    BY <2>2, SaysType, Zeros
  <2> HIDE DEF x
  <2>4. HangsUp(x) \in ServerRecord /\ HangsUp(x).link = "closed" /\ HangsUp(x).gotold = v.gotold
    BY <2>3 DEF ServerRecord, HangsUp
  <2>5. Fine(HangsUp(x))
    BY <2>4 DEF Knows, Aware
  <2> HIDE DEF Fine, w0
  <2> QED BY <2>1, <2>5
<1>9. CASE /\ v.link = "open" /\ cmd # "NICK" /\ cmd # "PING" /\ cmd # "QUIT"
           /\ ~(cmd = "JOIN" /\ v.registered /\ ~v.on) /\ ~(cmd = "PART" /\ v.on)
  <2>1. w0 = v
    BY <1>9 DEF ServerGets
  <2> HIDE DEF Fine, w0
  <2> QED BY <1>1, <2>1
<1>10. CASE v.link # "open"
  <2> HIDE DEF Fine, w0
  <2> QED BY <1>1, <1>10
<1> HIDE DEF Fine, w0
<1> QED BY <1>3, <1>4, <1>5, <1>6, <1>7, <1>8, <1>9, <1>10
-----------------------------------------------------------------------------
(* Handlers *)

\* One part of a state is replaced.
LEMMA Setters ==
  ASSUME NEW s \in BotState
  PROVE  /\ \A c \in ConnRecord : LET t == [s EXCEPT !.conn = c] IN
              /\ t \in BotState /\ t.conn = c /\ t.lookup = s.lookup /\ t.me = s.me /\ t.chan = s.chan
              /\ t.sendq = s.sendq /\ t.exiting = s.exiting /\ t.server = s.server
         /\ \A c \in LookupRecord : LET t == [s EXCEPT !.lookup = c] IN
              /\ t \in BotState /\ t.conn = s.conn /\ t.lookup = c /\ t.me = s.me /\ t.chan = s.chan
              /\ t.sendq = s.sendq /\ t.exiting = s.exiting /\ t.server = s.server
         /\ \A c \in MeRecord : LET t == [s EXCEPT !.me = c] IN
              /\ t \in BotState /\ t.conn = s.conn /\ t.lookup = s.lookup /\ t.me = c /\ t.chan = s.chan
              /\ t.sendq = s.sendq /\ t.exiting = s.exiting /\ t.server = s.server
         /\ \A c \in ChanRecord : LET t == [s EXCEPT !.chan = c] IN
              /\ t \in BotState /\ t.conn = s.conn /\ t.lookup = s.lookup /\ t.me = s.me /\ t.chan = c
              /\ t.sendq = s.sendq /\ t.exiting = s.exiting /\ t.server = s.server
         /\ \A c \in QueueOf(BOOLEAN) : LET t == [s EXCEPT !.sendq = c] IN
              /\ t \in BotState /\ t.conn = s.conn /\ t.lookup = s.lookup /\ t.me = s.me /\ t.chan = s.chan
              /\ t.sendq = c /\ t.exiting = s.exiting /\ t.server = s.server
         /\ \A c \in {"no", "yes", "exited"} : LET t == [s EXCEPT !.exiting = c] IN
              /\ t \in BotState /\ t.conn = s.conn /\ t.lookup = s.lookup /\ t.me = s.me /\ t.chan = s.chan
              /\ t.sendq = s.sendq /\ t.exiting = c /\ t.server = s.server
         /\ \A c \in ServerRecord : LET t == [s EXCEPT !.server = c] IN
              /\ t \in BotState /\ t.conn = s.conn /\ t.lookup = s.lookup /\ t.me = s.me /\ t.chan = s.chan
              /\ t.sendq = s.sendq /\ t.exiting = s.exiting /\ t.server = c
<1>1. \A c \in ConnRecord : LET t == [s EXCEPT !.conn = c] IN
        /\ t \in BotState /\ t.conn = c /\ t.lookup = s.lookup /\ t.me = s.me /\ t.chan = s.chan
        /\ t.sendq = s.sendq /\ t.exiting = s.exiting /\ t.server = s.server
  BY DEF BotState
<1>2. \A c \in LookupRecord : LET t == [s EXCEPT !.lookup = c] IN
        /\ t \in BotState /\ t.conn = s.conn /\ t.lookup = c /\ t.me = s.me /\ t.chan = s.chan
        /\ t.sendq = s.sendq /\ t.exiting = s.exiting /\ t.server = s.server
  BY DEF BotState
<1>3. \A c \in MeRecord : LET t == [s EXCEPT !.me = c] IN
        /\ t \in BotState /\ t.conn = s.conn /\ t.lookup = s.lookup /\ t.me = c /\ t.chan = s.chan
        /\ t.sendq = s.sendq /\ t.exiting = s.exiting /\ t.server = s.server
  BY DEF BotState
<1>4. \A c \in ChanRecord : LET t == [s EXCEPT !.chan = c] IN
        /\ t \in BotState /\ t.conn = s.conn /\ t.lookup = s.lookup /\ t.me = s.me /\ t.chan = c
        /\ t.sendq = s.sendq /\ t.exiting = s.exiting /\ t.server = s.server
  BY DEF BotState
<1>5. \A c \in QueueOf(BOOLEAN) : LET t == [s EXCEPT !.sendq = c] IN
        /\ t \in BotState /\ t.conn = s.conn /\ t.lookup = s.lookup /\ t.me = s.me /\ t.chan = s.chan
        /\ t.sendq = c /\ t.exiting = s.exiting /\ t.server = s.server
  BY DEF BotState
<1>6. \A c \in {"no", "yes", "exited"} : LET t == [s EXCEPT !.exiting = c] IN
        /\ t \in BotState /\ t.conn = s.conn /\ t.lookup = s.lookup /\ t.me = s.me /\ t.chan = s.chan
        /\ t.sendq = s.sendq /\ t.exiting = c /\ t.server = s.server
  BY DEF BotState
<1>7. \A c \in ServerRecord : LET t == [s EXCEPT !.server = c] IN
        /\ t \in BotState /\ t.conn = s.conn /\ t.lookup = s.lookup /\ t.me = s.me /\ t.chan = s.chan
        /\ t.sendq = s.sendq /\ t.exiting = s.exiting /\ t.server = c
  BY DEF BotState
<1> QED BY <1>1, <1>2, <1>3, <1>4, <1>5, <1>6, <1>7

\* What the invariant does not look at may change.
LEMMA Alike ==
  ASSUME NEW s \in BotState, NEW t \in BotState,
         t.conn.status = s.conn.status, t.server = s.server,
         s.sendq \in QueueOf({FALSE}) => t.sendq \in QueueOf({FALSE})
  PROVE  /\ Sound(s) => Sound(t)
         /\ Good(s) /\ t.me.nick = s.me.nick /\ (t.chan = s.chan \/ Calm(s.chan, t.chan)) => Good(t)
  BY AwareCalm DEF Good, Sound, Linked, Fresh

\* The status while there is no server.
LEMMA ToType ==
  ASSUME NEW s \in BotState, NEW status \in Status
  PROVE  LET t == To(s, status)
         IN /\ t \in BotState /\ t.conn = [s.conn EXCEPT !.status = status] /\ t.conn.status = status
            /\ t.lookup = s.lookup /\ t.me = s.me /\ t.chan = s.chan
            /\ t.sendq = s.sendq /\ t.exiting = s.exiting /\ t.server = s.server
<1> DEFINE c == [s.conn EXCEPT !.status = status]
<1>1. c \in ConnRecord /\ c.status = status
  BY PartsOf DEF ConnRecord
<1>2. To(s, status) = [s EXCEPT !.conn = c]
  BY DEF To
<1> HIDE DEF c
<1>3. LET t == [s EXCEPT !.conn = c]
      IN /\ t \in BotState /\ t.conn = c /\ t.lookup = s.lookup /\ t.me = s.me /\ t.chan = s.chan
         /\ t.sendq = s.sendq /\ t.exiting = s.exiting /\ t.server = s.server
  BY <1>1, Setters
<1> QED BY <1>1, <1>2, <1>3 DEF c

Disconnected(s) == s.conn.status = "NEED_TO_CONNECT" /\ s.server.link = "none"

\* After close_server there is no server, and what still waits counts as old.
LEMMA CloseServerType ==
  ASSUME NEW s \in BotState, ~s.server.gotold
  PROVE  LET t == CloseServer(s)
         IN /\ Good(t) /\ Disconnected(t) /\ t.sendq = Aged(s.sendq)
            /\ t.lookup = s.lookup /\ t.me = s.me /\ t.chan = s.chan /\ t.exiting = s.exiting
<1> DEFINE c == [s.conn EXCEPT !.status = "NEED_TO_CONNECT", !.quiet = 0]
           q == Aged(s.sendq)
           v == [s.server EXCEPT !.link = "none", !.registered = FALSE, !.on = FALSE,
                                 !.nick = 0, !.lines = <<>>]
           t == [s EXCEPT !.conn = c, !.sendq = q, !.server = v]
<1>1. CloseServer(s) = t
  BY DEF CloseServer, To
<1>2. c \in ConnRecord /\ c.status = "NEED_TO_CONNECT"
  BY PartsOf, Zeros DEF ConnRecord, Status
<1>3. q \in QueueOf(BOOLEAN)
  BY PartsOf, AgedType
<1>4. v \in ServerRecord /\ v.link = "none" /\ ~v.registered /\ ~v.on /\ v.lines = <<>> /\ v.gotold = s.server.gotold
  <2>1. <<>> \in Seq(Line) /\ 0 \in Nick /\ s.server \in ServerRecord
    BY PartsOf, Zeros
  <2> QED BY <2>1 DEF ServerRecord
<1>6. q = Aged(s.sendq)
  OBVIOUS
<1> HIDE DEF c, q, v
<1>5. /\ t \in BotState /\ t.conn = c /\ t.sendq = q /\ t.server = v
      /\ t.lookup = s.lookup /\ t.me = s.me /\ t.chan = s.chan /\ t.exiting = s.exiting
  BY <1>2, <1>3, <1>4 DEF BotState
<1> HIDE DEF t
<1> QED BY <1>1, <1>2, <1>4, <1>5, <1>6 DEF Good, Sound, Linked, Fresh, Knows, Aware, Disconnected

\* A message written to the queue.
LEMMA SubmitType ==
  ASSUME NEW s \in BotState, NEW type \in Queue, NEW cmd \in Command, NEW nick \in Nick
  PROVE  LET t == Submit(s, type, cmd, nick)
         IN /\ t \in BotState /\ t.conn = s.conn /\ t.lookup = s.lookup /\ t.me = s.me /\ t.chan = s.chan
            /\ t.exiting = s.exiting /\ t.server = s.server
            /\ s.sendq \in QueueOf({FALSE}) => t.sendq \in QueueOf({FALSE})
<1> DEFINE q == Enqueue(s.sendq, type, cmd, nick)
<1>1. q \in QueueOf(BOOLEAN) /\ (s.sendq \in QueueOf({FALSE}) => q \in QueueOf({FALSE}))
  <2>1. s.sendq \in QueueOf(BOOLEAN) /\ BOOLEAN \in Ghost /\ {FALSE} \in Ghost
    BY PartsOf DEF Ghost
  <2> QED BY <2>1, EnqueueType
<1>2. Submit(s, type, cmd, nick) \in {s, [s EXCEPT !.sendq = q]}
  BY DEF Submit
<1> HIDE DEF q
<1>3. LET t == [s EXCEPT !.sendq = q]
      IN /\ t \in BotState /\ t.conn = s.conn /\ t.lookup = s.lookup /\ t.me = s.me /\ t.chan = s.chan
         /\ t.sendq = q /\ t.exiting = s.exiting /\ t.server = s.server
  BY <1>1, Setters
<1> QED BY <1>1, <1>2, <1>3

\* A message sent at once.
LEMMA SendNowType ==
  ASSUME NEW s \in BotState, NEW cmd \in Command, NEW nick \in Nick
  PROVE  LET t == SendNow(s, cmd, nick)
         IN /\ t \in BotState /\ t.conn = s.conn /\ t.lookup = s.lookup /\ t.me = s.me /\ t.chan = s.chan
            /\ t.exiting = s.exiting /\ t.server.gotold = s.server.gotold
            /\ s.server.link = "none" => t.server = s.server
            /\ Good(s) => Good(t)
<1> DEFINE q == Charge(s.sendq, cmd)
           v == ServerGets(s.server, cmd, nick)
           t == [s EXCEPT !.server = v, !.sendq = q]
<1>1. q \in QueueOf(BOOLEAN) /\ (s.sendq \in QueueOf({FALSE}) => q \in QueueOf({FALSE}))
  <2>1. s.sendq \in QueueOf(BOOLEAN) /\ BOOLEAN \in Ghost /\ {FALSE} \in Ghost
    BY PartsOf DEF Ghost
  <2> QED BY <2>1, ChargeType
<1>2. /\ v \in ServerRecord /\ v.gotold = s.server.gotold
      /\ s.server.link # "open" => v = s.server
      /\ s.server.link = "open" => v.link \in {"open", "closed"}
      /\ \A mine : Knows(s.server, mine) => Knows(v, mine)
      /\ \A c : Aware(s.server, c) => Aware(v, c)
  BY PartsOf, ServerGetsType
<1>3. SendNow(s, cmd, nick) \in {s, t}
  BY DEF SendNow
<1> HIDE DEF q, v
<1>4. /\ t \in BotState /\ t.conn = s.conn /\ t.sendq = q /\ t.server = v
      /\ t.lookup = s.lookup /\ t.me = s.me /\ t.chan = s.chan /\ t.exiting = s.exiting
  BY <1>1, <1>2 DEF BotState
<1> HIDE DEF t
<1>5. ASSUME Good(s) PROVE Good(t)
  <2>1. Linked(t)
    BY <1>2, <1>4, <1>5 DEF Good, Sound, Linked
  <2>2. Fresh(t)
    BY <1>1, <1>4, <1>5 DEF Good, Sound, Fresh
  <2> QED BY <1>2, <1>4, <1>5, <2>1, <2>2 DEF Good, Sound
<1> QED BY <1>2, <1>3, <1>4, <1>5

\* One message after another: the states of the server in between.
LEMMA HearsSteps ==
  ASSUME NEW v \in ServerRecord, NEW sent \in Seq(MessageOf({FALSE})), ~v.gotold
  PROVE  \E V \in [0..Len(sent) -> ServerRecord] :
           /\ V[0] = v /\ Hears(v, sent) = V[Len(sent)] /\ \A k \in 0..Len(sent) : ~V[k].gotold
           /\ \A k \in 1..Len(sent) : V[k] = ServerGets(V[k - 1], sent[k].cmd, sent[k].arg)
<1> DEFINE n == Len(sent)
           Heed(w, m) == [ServerGets(w, m.cmd, m.arg) EXCEPT !.gotold = @ \/ m.old]
           Is(f) == f = [k \in 0..n |-> IF k = 0 THEN v ELSE Heed(f[k - 1], sent[k])]
           S == {w \in ServerRecord : ~w.gotold}
           D == [k \in 1..n |-> [w \in S |-> Heed(w, sent[k])]]
           V == CHOOSE f : Is(f)
<1>1. n \in Nat /\ \A k \in 1..n : sent[k] \in MessageOf({FALSE})
  OBVIOUS
<1>2. Hears(v, sent) = V[n]
  BY DEF Hears
<1>3. ASSUME NEW w \in S, NEW m \in MessageOf({FALSE})
      PROVE  Heed(w, m) = ServerGets(w, m.cmd, m.arg) /\ Heed(w, m) \in S
  <2> DEFINE u == ServerGets(w, m.cmd, m.arg)
             x == [u EXCEPT !.gotold = u.gotold \/ m.old]
  <2>1. m.arg \in Nick /\ m.old = FALSE
    BY DEF MessageOf
  <2>2. u \in ServerRecord /\ u.gotold = w.gotold
    BY <2>1, ServerGetsType
  <2> HIDE DEF u
  <2>3. u.gotold = FALSE
    BY <2>2 DEF ServerRecord
  <2>4. x = u
    BY <2>1, <2>2, <2>3 DEF ServerRecord
  <2> QED BY <2>2, <2>3, <2>4 DEF u
<1>4. v \in S /\ \A w \in S : w \in ServerRecord /\ ~w.gotold
  OBVIOUS
<1> HIDE DEF Heed, S, n
<1>5. D \in StepsOf(n, S) /\ \A k \in 1..n : \A w \in S : D[k][w] = Heed(w, sent[k])
  BY <1>1, <1>3 DEF StepsOf
<1> HIDE DEF D
<1>6. Made(n, S, v, D)
  BY <1>1, <1>4, <1>5, Iterated
<1>7. \E f : Is(f)
  <2>1. PICK f \in [0..n -> S] : f[0] = v /\ \A k \in 1..n : f[k] = D[k][f[k - 1]]
    BY <1>6 DEF Made
  <2>2. \A k \in 1..n : f[k] = Heed(f[k - 1], sent[k])
    <3> SUFFICES ASSUME NEW k \in 1..n PROVE f[k] = Heed(f[k - 1], sent[k])
      OBVIOUS
    <3>1. k - 1 \in 0..n
      BY <1>1
    <3>2. f[k - 1] \in S
      BY <2>1, <3>1
    <3> QED BY <1>5, <2>1, <3>2
  <2>3. \A k \in 0..n : k # 0 => k \in 1..n
    BY <1>1
  <2>4. \A k \in 0..n : f[k] = IF k = 0 THEN v ELSE Heed(f[k - 1], sent[k])
    BY <2>1, <2>2, <2>3
  <2>5. Is(f)
    BY <2>4
  <2> QED BY <2>5
<1>8. Is(V)
  <2> HIDE DEF Is
  <2> QED BY <1>7
<1>9. 0 \in 0..n /\ n \in 0..n /\ \A k \in 1..n : k \in 0..n /\ k # 0 /\ k - 1 \in 0..n
  BY <1>1
<1> HIDE DEF V
<1>10. V[0] = v /\ \A k \in 1..n : V[k] = Heed(V[k - 1], sent[k])
  BY <1>8, <1>9
<1>11. \A k \in 0..n : V[k] \in S
  <2>1. \A k \in 1..n : V[k - 1] \in S => V[k] = D[k][V[k - 1]]
    BY <1>5, <1>10
  <2> HIDE DEF Is
  <2> QED BY <1>6, <1>9, <1>10, <2>1 DEF Made
<1>12. \A k \in 1..n : V[k] = ServerGets(V[k - 1], sent[k].cmd, sent[k].arg)
  <2> SUFFICES ASSUME NEW k \in 1..n PROVE V[k] = ServerGets(V[k - 1], sent[k].cmd, sent[k].arg)
    OBVIOUS
  <2>1. V[k - 1] \in S /\ sent[k] \in MessageOf({FALSE})
    BY <1>1, <1>9, <1>11
  <2> QED BY <1>3, <1>10, <2>1
<1>13. V \in [0..n -> ServerRecord]
  <2>1. V = [k \in 0..n |-> V[k]]
    BY <1>8
  <2> HIDE DEF Is
  <2>2. \A k \in 0..n : V[k] \in ServerRecord
    BY <1>4, <1>11
  <2> QED BY <2>1, <2>2
<1> HIDE DEF Is
<1> QED BY <1>2, <1>4, <1>10, <1>11, <1>12, <1>13 DEF n

\* What the messages do to the server, with its ghost.
LEMMA HearsType ==
  ASSUME NEW v \in ServerRecord, NEW sent \in Seq(MessageOf({FALSE})), ~v.gotold
  PROVE  LET w == Hears(v, sent)
         IN /\ w \in ServerRecord /\ ~w.gotold
            /\ v.link # "open" => /\ w.link = v.link /\ w.lines = v.lines
                                  /\ w.registered = v.registered /\ w.on = v.on
            /\ v.link = "open" => w.link \in {"open", "closed"}
            /\ \A mine : Knows(v, mine) => Knows(w, mine)
            /\ \A c : Aware(v, c) => Aware(w, c)
<1> DEFINE n == Len(sent)
           Fine(w) == /\ v.link # "open" => /\ w.link = v.link /\ w.lines = v.lines
                                            /\ w.registered = v.registered /\ w.on = v.on
                      /\ v.link = "open" => w.link \in {"open", "closed"}
                      /\ \A mine : Knows(v, mine) => Knows(w, mine)
                      /\ \A c : Aware(v, c) => Aware(w, c)
<1>1. PICK V \in [0..n -> ServerRecord] :
        /\ V[0] = v /\ Hears(v, sent) = V[n] /\ \A k \in 0..n : ~V[k].gotold
        /\ \A k \in 1..n : V[k] = ServerGets(V[k - 1], sent[k].cmd, sent[k].arg)
  BY HearsSteps
<1>2. n \in Nat /\ 0 \in 0..n /\ n \in 0..n /\ \A k \in 1..n : k \in 0..n /\ k - 1 \in 0..n /\ sent[k].arg \in Nick
  BY DEF MessageOf
<1> DEFINE P == {k \in 0..n : Fine(V[k])}
<1>3. 0 \in P
  BY <1>1, <1>2 DEF Knows
<1>4. ASSUME NEW k \in 1..n, k - 1 \in P PROVE k \in P
  <2> DEFINE w == V[k - 1]
             u == V[k]
  <2>1. w \in ServerRecord /\ Fine(w) /\ u = ServerGets(w, sent[k].cmd, sent[k].arg)
    BY <1>1, <1>2, <1>4
  <2>2. k \in 0..n /\ sent[k].arg \in Nick
    BY <1>2
  <2> HIDE DEF w, u
  <2>3. /\ u \in ServerRecord
        /\ w.link # "open" => u = w
        /\ w.link = "open" => u.link \in {"open", "closed"}
        /\ \A mine : Knows(w, mine) => Knows(u, mine)
        /\ \A c : Aware(w, c) => Aware(u, c)
    BY <2>1, <2>2, ServerGetsType
  <2>4. v.link # "open" => /\ u.link = v.link /\ u.lines = v.lines
                           /\ u.registered = v.registered /\ u.on = v.on
    BY <2>1, <2>3
  <2>5. v.link = "open" => u.link \in {"open", "closed"}
    BY <2>1, <2>3
  <2>6. Fine(u)
    BY <2>1, <2>3, <2>4, <2>5
  <2> HIDE DEF Fine
  <2> QED BY <2>2, <2>6 DEF u
<1> HIDE DEF n
<1>5. Fine(V[n])
  <2> HIDE DEF Fine
  <2>1. n \in P
    <3> HIDE DEF P
    <3> QED BY <1>2, <1>3, <1>4, Climb
  <2> QED BY <2>1
<1>6. V[n] \in ServerRecord /\ ~V[n].gotold
  BY <1>1, <1>2
<1> QED BY <1>1, <1>5, <1>6

\* sendserver keeps a good state good.
LEMMA SendServerGood ==
  ASSUME NEW s, Good(s)
  PROVE  Good(SendServer(s))
<1> DEFINE r == SendQueue(s.sendq)
           u == [s EXCEPT !.sendq = r.q]
           v == Hears(s.server, r.sent)
           t == [s EXCEPT !.sendq = r.q, !.server = v]
<1>1. /\ s \in BotState /\ Linked(s) /\ Fresh(s) /\ ~s.server.gotold /\ Knows(s.server, s.me.nick)
      /\ Aware(s.server, s.chan)
  BY DEF Good, Sound
<1>2. CASE ~Connected(s)
  BY <1>2 DEF SendServer
<1>3. CASE Connected(s)
  <2>1. SendServer(s) \in {CloseServer(u), t}
    BY <1>3 DEF SendServer
  <2>2. r.q \in QueueOf({FALSE}) /\ r.q \in QueueOf(BOOLEAN) /\ r.sent \in Seq(MessageOf({FALSE}))
    <3>1. s.sendq \in QueueOf({FALSE}) /\ s.sendq \in QueueOf(BOOLEAN) /\ BOOLEAN \in Ghost /\ {FALSE} \in Ghost
      BY <1>1, <1>3, PartsOf DEF Fresh, Connected, Ghost
    <3>2. r \in SentOf({FALSE}) /\ r \in SentOf(BOOLEAN)
      BY <3>1, SendQueueType
    <3> QED BY <3>2 DEF SentOf
  <2> HIDE DEF r
  <2>3. u \in BotState /\ u.server = s.server
    BY <1>1, <2>2, Setters
  <2>4. /\ v \in ServerRecord /\ ~v.gotold
        /\ s.server.link # "open" => /\ v.link = s.server.link /\ v.lines = s.server.lines
                                     /\ v.registered = s.server.registered /\ v.on = s.server.on
        /\ s.server.link = "open" => v.link \in {"open", "closed"}
        /\ \A mine : Knows(s.server, mine) => Knows(v, mine)
        /\ \A c : Aware(s.server, c) => Aware(v, c)
    BY <1>1, <2>2, PartsOf, HearsType
  <2> HIDE DEF v
  <2>5. /\ t \in BotState /\ t.conn = s.conn /\ t.sendq = r.q /\ t.server = v /\ t.me = s.me /\ t.chan = s.chan
    BY <1>1, <2>2, <2>4 DEF BotState
  <2> HIDE DEF t
  <2>6. Linked(t) /\ Fresh(t)
    BY <1>1, <1>3, <2>2, <2>4, <2>5 DEF Linked, Fresh, Connected
  <2>7. Good(t)
    BY <1>1, <2>4, <2>5, <2>6 DEF Good, Sound
  <2>8. Good(CloseServer(u))
    <3> HIDE DEF u
    <3> QED BY <1>1, <2>3, CloseServerType
  <2> QED BY <2>1, <2>7, <2>8
<1> QED BY <1>2, <1>3

\* quit_server leaves no server and nothing that waits.
LEMMA QuitServerType ==
  ASSUME NEW s, Good(s)
  PROVE  LET t == QuitServer(s)
         IN /\ Good(t) /\ Disconnected(t) /\ t.sendq \in QueueOf({FALSE})
            /\ t.sendq.fast = <<>> /\ t.sendq.normal = <<>> /\ t.sendq.slow = <<>>
            /\ t.lookup = s.lookup /\ t.me = s.me /\ t.chan = s.chan /\ t.exiting = s.exiting
<1> DEFINE w == SendNow(s, "QUIT", 0)
           t == IF Connected(s) THEN CloseServer(w)
                ELSE IF s.conn.status \in {"SSL_HANDSHAKE", "TRYING"} THEN CloseServer(s)
                ELSE s
           x == To(t, "NEED_TO_CONNECT")
           q == Cleaned(x.sendq)
           y == [x EXCEPT !.sendq = q]
<1>1. s \in BotState /\ Linked(s) /\ Fresh(s) /\ ~s.server.gotold /\ Knows(s.server, s.me.nick)
  BY DEF Good, Sound
<1>2. w \in BotState /\ ~w.server.gotold /\ w.lookup = s.lookup /\ w.me = s.me /\ w.chan = s.chan /\ w.exiting = s.exiting
  <2>1. "QUIT" \in Command /\ 0 \in Nick
    BY Limits, Zeros
  <2> QED BY <1>1, <2>1, SendNowType
<1>3. Good(t) /\ t.server.link = "none" /\ t.lookup = s.lookup /\ t.me = s.me /\ t.chan = s.chan /\ t.exiting = s.exiting
  <2> HIDE DEF w
  <2>1. CASE Connected(s)
    <3>1. t = CloseServer(w)
      BY <2>1
    <3> HIDE DEF t
    <3> QED BY <1>2, <3>1, CloseServerType DEF Disconnected
  <2>2. CASE s.conn.status \in {"SSL_HANDSHAKE", "TRYING"}
    <3>1. t = CloseServer(s)
      BY <2>2 DEF Connected
    <3> HIDE DEF t
    <3> QED BY <1>1, <3>1, CloseServerType DEF Disconnected
  <2>3. CASE ~Connected(s) /\ s.conn.status \notin {"SSL_HANDSHAKE", "TRYING"}
    BY <1>1, <2>3 DEF Linked, Connected
  <2> QED BY <2>1, <2>2, <2>3
<1>4. QuitServer(s) = y
  BY DEF QuitServer
<1> HIDE DEF t
<1>5. /\ x \in BotState /\ x.conn.status = "NEED_TO_CONNECT" /\ x.server = t.server
      /\ x.lookup = s.lookup /\ x.me = s.me /\ x.chan = s.chan /\ x.exiting = s.exiting
  <2>1. t \in BotState /\ "NEED_TO_CONNECT" \in Status
    BY <1>3 DEF Good, Sound, Status
  <2> QED BY <1>3, <2>1, ToType
<1> HIDE DEF x
<1>6. q \in QueueOf({FALSE}) /\ q \in QueueOf(BOOLEAN)
  <2>1. x.sendq \in QueueOf(BOOLEAN) /\ BOOLEAN \in Ghost /\ {FALSE} \in Ghost
    BY <1>5, PartsOf DEF Ghost
  <2> QED BY <2>1, CleanedType
<1>9. q.fast = <<>> /\ q.normal = <<>> /\ q.slow = <<>>
  <2>1. x.sendq \in QueueOf(BOOLEAN)
    BY <1>5, PartsOf
  <2> QED BY <2>1 DEF Cleaned, QueueOf
<1> HIDE DEF q
<1>7. /\ y \in BotState /\ y.conn = x.conn /\ y.sendq = q /\ y.server = x.server
      /\ y.lookup = x.lookup /\ y.me = x.me /\ y.chan = x.chan /\ y.exiting = x.exiting
  BY <1>5, <1>6 DEF BotState
<1> HIDE DEF y
<1>8. Good(y)
  BY <1>3, <1>5, <1>6, <1>7 DEF Good, Sound, Linked, Fresh, Knows, Aware
<1> QED BY <1>3, <1>4, <1>5, <1>6, <1>7, <1>8, <1>9 DEF Disconnected

\* connectirc, called without a server and with nothing that waits.
LEMMA ConnectIrcType ==
  ASSUME NEW s, Good(s), Disconnected(s), s.sendq \in QueueOf({FALSE}), NEW forked \in BOOLEAN
  PROVE  LET t == ConnectIrc(s, forked)
         IN /\ Good(t) /\ t.server = s.server /\ t.sendq \in QueueOf({FALSE})
            /\ t.chan = s.chan /\ t.conn.status \in {"NEED_TO_CONNECT", "RESOLVING"}
            /\ t.sendq.fast = s.sendq.fast /\ t.sendq.normal = s.sendq.normal /\ t.sendq.slow = s.sendq.slow
<1> DEFINE q == [s.sendq EXCEPT !.bucket = server_send_max]
           c == [s.conn EXCEPT !.quiet = reconnect_delay]
           d == [s.conn EXCEPT !.quiet = reconnect_delay, !.status = "RESOLVING"]
           l == [s.lookup EXCEPT !.child = "none", !.mine = 0, !.answer = 0, !.reset = FALSE]
           m == [l EXCEPT !.child = "running", !.mine = s.lookup.next,
                          !.next = Min2(s.lookup.next + 1, Addresses)]
           t == [s EXCEPT !.sendq = q, !.conn = c, !.lookup = l]
           u == [s EXCEPT !.sendq = q, !.conn = d, !.lookup = m]
<1>1. s \in BotState /\ Linked(s) /\ Fresh(s) /\ ~s.server.gotold
  BY DEF Good, Sound
<1>2. ConnectIrc(s, forked) \in {t, u}
  BY DEF ConnectIrc, To
<1>3. q \in QueueOf({FALSE}) /\ q \in QueueOf(BOOLEAN)
  <2>1. server_send_max \in 0..server_send_max /\ s.sendq \in QueueOf(BOOLEAN)
    BY <1>1, Zeros, PartsOf
  <2> QED BY <2>1 DEF QueueOf
<1>8. q.fast = s.sendq.fast /\ q.normal = s.sendq.normal /\ q.slow = s.sendq.slow
  BY DEF QueueOf
<1>4. c \in ConnRecord /\ d \in ConnRecord /\ c.status = s.conn.status /\ d.status = "RESOLVING"
  BY <1>1, PartsOf, Zeros DEF ConnRecord, Status
<1>5. l \in LookupRecord /\ m \in LookupRecord
  <2>1. s.lookup \in LookupRecord /\ 0 \in 0..Addresses
    BY <1>1, PartsOf, Zeros
  <2>2. l \in LookupRecord
    BY <2>1 DEF LookupRecord
  <2>3. Min2(s.lookup.next + 1, Addresses) \in 0..Addresses /\ s.lookup.next \in 0..Addresses
    BY <2>1, NetworkAssumption DEF LookupRecord, Min2
  <2> HIDE DEF l
  <2> QED BY <2>2, <2>3 DEF LookupRecord
<1> HIDE DEF q, c, d, l, m
<1>6. /\ t \in BotState /\ t.conn = c /\ t.sendq = q /\ t.server = s.server /\ t.me = s.me /\ t.chan = s.chan
      /\ u \in BotState /\ u.conn = d /\ u.sendq = q /\ u.server = s.server /\ u.me = s.me /\ u.chan = s.chan
  BY <1>1, <1>3, <1>4, <1>5 DEF BotState
<1> HIDE DEF t, u
<1>7. Good(t) /\ Good(u)
  BY <1>1, <1>3, <1>6 DEF Good, Sound, Linked, Fresh, Knows, Aware, Disconnected
<1>9. c.status \in {"NEED_TO_CONNECT", "RESOLVING"} /\ d.status \in {"NEED_TO_CONNECT", "RESOLVING"}
  BY <1>4 DEF Disconnected
<1> QED BY <1>2, <1>3, <1>6, <1>7, <1>8, <1>9

\* switchserver.
LEMMA SwitchServerGood ==
  ASSUME NEW s, Good(s), NEW forked \in BOOLEAN
  PROVE  LET t == SwitchServer(s, forked)
         IN /\ Good(t) /\ t.chan = s.chan /\ t.conn.status \in {"NEED_TO_CONNECT", "RESOLVING"}
            /\ t.sendq.fast = <<>> /\ t.sendq.normal = <<>> /\ t.sendq.slow = <<>>
<1> DEFINE t == QuitServer(s)
           u == ConnectIrc(t, forked)
           c == [u.conn EXCEPT !.backoff = Min2(u.conn.backoff + 1, MaxBackoff), !.servertime = 0]
           x == [u EXCEPT !.conn = c]
<1>1. /\ Good(t) /\ Disconnected(t) /\ t.sendq \in QueueOf({FALSE}) /\ t.chan = s.chan
      /\ t.sendq.fast = <<>> /\ t.sendq.normal = <<>> /\ t.sendq.slow = <<>>
  BY QuitServerType
<1>2. SwitchServer(s, forked) \in {t, x}
  BY DEF SwitchServer
<1> HIDE DEF t
<1>3. /\ Good(u) /\ u.chan = s.chan /\ u.conn.status \in {"NEED_TO_CONNECT", "RESOLVING"}
      /\ u.sendq.fast = <<>> /\ u.sendq.normal = <<>> /\ u.sendq.slow = <<>>
  BY <1>1, ConnectIrcType
<1> HIDE DEF u
<1>4. u \in BotState /\ u.conn \in ConnRecord
  BY <1>3, PartsOf DEF Good, Sound
<1>5. c \in ConnRecord /\ c.status = u.conn.status
  <2>1. Min2(u.conn.backoff + 1, MaxBackoff) \in 0..MaxBackoff
    BY <1>4, NetworkAssumption DEF ConnRecord, Min2
  <2>2. 0 \in 0..3
    BY Zeros
  <2> QED BY <1>4, <2>1, <2>2 DEF ConnRecord
<1> HIDE DEF c
<1>6. x \in BotState /\ x.conn = c /\ x.sendq = u.sendq /\ x.server = u.server /\ x.me = u.me /\ x.chan = u.chan
  BY <1>4, <1>5 DEF BotState
<1> HIDE DEF x
<1>7. Good(x)
  BY <1>3, <1>4, <1>5, <1>6, Alike
<1> QED BY <1>1, <1>2, <1>3, <1>5, <1>6, <1>7 DEF Disconnected

\* joinchannel.
LEMMA JoinChannelType ==
  ASSUME NEW s \in BotState
  PROVE  LET t == JoinChannel(s)
         IN /\ t \in BotState /\ t.conn = s.conn /\ t.lookup = s.lookup /\ t.me = s.me
            /\ t.exiting = s.exiting /\ t.server = s.server
            /\ t.chan.known = s.chan.known /\ t.chan.on = s.chan.on
            /\ s.sendq \in QueueOf({FALSE}) => t.sendq \in QueueOf({FALSE})
<1> DEFINE u == Submit(s, "normal", "JOIN", 0)
           c == [u.chan EXCEPT !.members = {}]
           t == [u EXCEPT !.chan = c]
<1>1. /\ u \in BotState /\ u.conn = s.conn /\ u.lookup = s.lookup /\ u.me = s.me
      /\ u.exiting = s.exiting /\ u.server = s.server /\ u.chan = s.chan
      /\ s.sendq \in QueueOf({FALSE}) => u.sendq \in QueueOf({FALSE})
  <2>1. "normal" \in Queue /\ "JOIN" \in Command /\ 0 \in Nick
    BY Limits, Zeros DEF Queue
  <2> QED BY <2>1, SubmitType
<1>2. JoinChannel(s) \in {s, t}
  BY DEF JoinChannel
<1> HIDE DEF u
<1>3. c \in ChanRecord /\ c.known = s.chan.known /\ c.on = s.chan.on
  BY <1>1, PartsOf DEF ChanRecord
<1> HIDE DEF c
<1>4. /\ t \in BotState /\ t.conn = u.conn /\ t.lookup = u.lookup /\ t.me = u.me /\ t.chan = c
      /\ t.exiting = u.exiting /\ t.server = u.server /\ t.sendq = u.sendq
  BY <1>1, <1>3 DEF BotState
<1> HIDE DEF t
<1> QED BY <1>1, <1>2, <1>3, <1>4

\* initirc.
LEMMA InitIrcGood ==
  ASSUME NEW s, Good(s)
  PROVE  Good(InitIrc(s))
<1> DEFINE u == SendNow(s, "NICK", 0)
           c == [u.chan EXCEPT !.on = FALSE, !.lost = FALSE]
           q == [u.sendq EXCEPT !.recentsent = 0]
           t == [u EXCEPT !.chan = c, !.sendq = q]
<1>1. u \in BotState /\ Good(u)
  <2>1. s \in BotState /\ "NICK" \in Command /\ 0 \in Nick
    BY Limits, Zeros DEF Good, Sound
  <2> QED BY <2>1, SendNowType
<1>6. InitIrc(s) = [u EXCEPT !.chan.on = FALSE, !.chan.lost = FALSE, !.sendq.recentsent = 0]
  BY DEF InitIrc
<1> HIDE DEF u
<1>2. InitIrc(s) = t
  BY <1>1, <1>6 DEF BotState
<1>3. c \in ChanRecord /\ Calm(u.chan, c)
  BY <1>1, PartsOf DEF ChanRecord, Calm
<1>4. q \in QueueOf(BOOLEAN) /\ (u.sendq \in QueueOf({FALSE}) => q \in QueueOf({FALSE}))
  <2>1. 0 \in 0..RecentPings /\ u.sendq \in QueueOf(BOOLEAN)
    BY <1>1, Zeros, PartsOf
  <2> QED BY <2>1 DEF QueueOf
<1> HIDE DEF c, q
<1>5. t \in BotState /\ t.conn = u.conn /\ t.sendq = q /\ t.server = u.server /\ t.me = u.me /\ t.chan = c
  BY <1>1, <1>3, <1>4 DEF BotState
<1> HIDE DEF t
<1> QED BY <1>1, <1>2, <1>3, <1>4, <1>5, Alike

\* handshake_ssl.
LEMMA HandshakeSslGood ==
  ASSUME NEW s, Good(s), s.conn.status \in {"CONNECTED", "SSL_HANDSHAKE"}, NEW result
  PROVE  Good(HandshakeSsl(s, result))
<1>1. s \in BotState /\ ~s.server.gotold
  BY DEF Good, Sound
<1>2. ASSUME NEW status \in {"CONNECTED", "SSL_HANDSHAKE"} PROVE Good(To(s, status))
  <2> DEFINE t == To(s, status)
  <2>1. /\ t \in BotState /\ t.conn.status = status /\ t.me = s.me /\ t.sendq = s.sendq /\ t.server = s.server
        /\ t.chan = s.chan
    <3>1. status \in Status
      BY DEF Status
    <3> QED BY <1>1, <3>1, ToType
  <2> HIDE DEF t
  <2>2. Good(t)
    BY <2>1 DEF Good, Sound, Linked, Fresh
  <2> QED BY <2>2 DEF t
<1>3. HandshakeSsl(s, result) \in {InitIrc(s), InitIrc(To(s, "CONNECTED")), To(s, "SSL_HANDSHAKE"), CloseServer(s)}
  BY DEF HandshakeSsl
<1>4. Good(CloseServer(s))
  BY <1>1, CloseServerType
<1>5. Good(To(s, "CONNECTED")) /\ Good(To(s, "SSL_HANDSHAKE"))
  BY <1>2
<1> QED BY <1>3, <1>4, <1>5, InitIrcGood
-----------------------------------------------------------------------------
(* Lines that are read *)

\* A line that names us sets the nick, no other does; the server's side stays or goes.
LEMMA HandleType ==
  ASSUME NEW s, Sound(s), NEW l \in Line
  PROVE  LET t == Handle(s, l)
         IN /\ Sound(t)
            /\ t.me.nick = IF Naming(l) THEN l.nick ELSE s.me.nick
            /\ t.server = s.server \/ t.server.link = "none"
<1> DEFINE Same(t) == Sound(t) /\ t.me = s.me /\ (t.server = s.server \/ t.server.link = "none")
           Named(t) == Sound(t) /\ t.me.nick = l.nick /\ t.server = s.server
           h == Handle(s, l)
<1>1. s \in BotState /\ Linked(s) /\ Fresh(s) /\ ~s.server.gotold
  BY DEF Sound
<1>2. l.cmd \in LineCmd /\ l.who \in SUBSET Person /\ l.new \in SUBSET Person /\ l.nick \in Nick
  BY DEF Line, LineCmd
<1>3. ASSUME NEW c \in ChanRecord
      PROVE  /\ Same([s EXCEPT !.chan = c]) /\ [s EXCEPT !.chan = c] \in BotState
             /\ [s EXCEPT !.chan = c].server = s.server
  <2> DEFINE t == [s EXCEPT !.chan = c]
  <2>1. t \in BotState /\ t.conn = s.conn /\ t.me = s.me /\ t.sendq = s.sendq /\ t.server = s.server
    BY <1>1 DEF BotState
  <2> HIDE DEF t
  <2>2. Sound(t)
    BY <1>1, <2>1, Alike
  <2> QED BY <2>1, <2>2 DEF t
<1>4. ASSUME NEW m \in MeRecord, m.nick = l.nick PROVE Named([s EXCEPT !.me = m])
  <2> DEFINE t == [s EXCEPT !.me = m]
  <2>1. t \in BotState /\ t.conn = s.conn /\ t.me = m /\ t.sendq = s.sendq /\ t.server = s.server
    BY <1>1 DEF BotState
  <2> HIDE DEF t
  <2>2. Sound(t)
    BY <1>1, <2>1, Alike
  <2> QED BY <1>4, <2>1, <2>2 DEF t
<1>5. CASE l.cmd = "001" \/ l.cmd = "NICK_US"
  <2> DEFINE m == [nick |-> l.nick, number |-> 0]
  <2>1. h = [s EXCEPT !.me = m]
    BY <1>5 DEF Handle, Welcomed, Renamed
  <2>2. m \in MeRecord /\ m.nick = l.nick
    BY <1>2, Zeros DEF MeRecord
  <2> HIDE DEF m
  <2>3. Named(h)
    <3> HIDE DEF Named, h
    <3> QED BY <1>4, <2>1, <2>2
  <2> QED BY <1>5, <2>3 DEF Naming
<1>6. CASE l.cmd = "433"
  <2> DEFINE u == Submit(s, "normal", "NICK", s.me.number + 1)
             m == [u.me EXCEPT !.number = Min2(u.me.number + 1, MaxNick)]
             t == [u EXCEPT !.me = m]
  <2>1. h = t
    BY <1>6 DEF Handle, NickInUse
  <2>2. s.me.number \in 0..MaxNick /\ s.me.number + 1 \in Nick /\ s.me.nick \in Nick
    BY <1>1, Limits, PartsOf DEF MeRecord, Nick
  <2>3. /\ u \in BotState /\ u.conn = s.conn /\ u.me = s.me /\ u.server = s.server
        /\ s.sendq \in QueueOf({FALSE}) => u.sendq \in QueueOf({FALSE})
    <3>1. "normal" \in Queue /\ "NICK" \in Command
      BY Limits DEF Queue
    <3> QED BY <1>1, <2>2, <3>1, SubmitType
  <2> HIDE DEF u
  <2>4. m \in MeRecord /\ m.nick = s.me.nick
    <3>1. Min2(u.me.number + 1, MaxNick) \in 0..MaxNick
      BY <2>2, <2>3, Limits DEF Min2
    <3>2. u.me \in MeRecord
      BY <2>3, PartsOf
    <3> QED BY <2>3, <3>1, <3>2 DEF MeRecord
  <2> HIDE DEF m
  <2>5. t \in BotState /\ t.conn = u.conn /\ t.me = m /\ t.sendq = u.sendq /\ t.server = u.server
    BY <2>3, <2>4 DEF BotState
  <2> HIDE DEF t
  <2>6. Sound(t)
    BY <1>1, <2>3, <2>5, Alike
  <2> QED BY <1>6, <2>1, <2>3, <2>4, <2>5, <2>6 DEF Naming
<1>7. CASE l.cmd \in {"353", "JOIN", "LEAVE", "NICK"} /\ (l.cmd = "353" => s.chan.known)
  <2> DEFINE c == [s.chan EXCEPT !.members = s.chan.members \cup l.who]
             d == [s.chan EXCEPT !.members = s.chan.members \ l.who]
             e == [s.chan EXCEPT !.members = (s.chan.members \ l.who) \cup l.new]
  <2>1. h \in {s, [s EXCEPT !.chan = c], [s EXCEPT !.chan = d], [s EXCEPT !.chan = e]}
    <3>1. CASE l.cmd \in {"353", "JOIN"}
      BY <1>7, <3>1 DEF Handle, NamesGot, Remember
    <3>2. CASE l.cmd = "LEAVE"
      BY <3>2 DEF Handle, Forget
    <3>3. CASE l.cmd = "NICK" /\ l.who \subseteq s.chan.members
      BY <1>1, <3>3 DEF Handle, Forget, Remember, BotState, ChanRecord
    <3>4. CASE l.cmd = "NICK" /\ ~(l.who \subseteq s.chan.members)
      BY <3>4 DEF Handle
    <3> QED BY <1>7, <3>1, <3>2, <3>3, <3>4
  <2>2. c \in ChanRecord /\ d \in ChanRecord /\ e \in ChanRecord
    BY <1>1, <1>2, PartsOf DEF ChanRecord
  <2> HIDE DEF c, d, e
  <2>3. Same(s)
    OBVIOUS
  <2>4. Same(h)
    <3> HIDE DEF Same, h
    <3> QED BY <1>3, <2>1, <2>2, <2>3
  <2> QED BY <1>7, <2>4 DEF Naming
<1>8. CASE l.cmd = "JOIN_US"
  <2> DEFINE b == [s.conn EXCEPT !.backoff = 0]
             c == [s.chan EXCEPT !.on = TRUE]
             t == [s EXCEPT !.conn = b, !.chan = c]
             u == [s EXCEPT !.conn = b]
  <2>1. h \in {t, u}
    BY <1>8 DEF Handle, Joined
  <2>2. c \in ChanRecord /\ b \in ConnRecord /\ b.status = s.conn.status
    <3>1. 0 \in 0..MaxBackoff /\ s.conn \in ConnRecord /\ s.chan \in ChanRecord
      BY <1>1, PartsOf, Zeros
    <3> QED BY <3>1 DEF ChanRecord, ConnRecord
  <2> HIDE DEF b, c
  <2>3. /\ t \in BotState /\ t.conn = b /\ t.me = s.me /\ t.sendq = s.sendq /\ t.server = s.server
        /\ u \in BotState /\ u.conn = b /\ u.me = s.me /\ u.sendq = s.sendq /\ u.server = s.server
    BY <1>1, <2>2 DEF BotState
  <2> HIDE DEF t, u
  <2>4. Sound(t) /\ Sound(u)
    BY <1>1, <2>2, <2>3, Alike
  <2> HIDE DEF h
  <2> QED BY <1>8, <2>1, <2>3, <2>4 DEF Naming, h
<1>9. CASE l.cmd = "KICK_US"
  <2> DEFINE c == [s.chan EXCEPT !.kicked = TRUE, !.members = {}]
             d == [s.chan EXCEPT !.on = FALSE]
             u == [s EXCEPT !.chan = d]
  <2>1. h \in {s, [s EXCEPT !.chan = c], JoinChannel(u)}
    BY <1>9 DEF Handle, Kicked
  <2>2. c \in ChanRecord /\ d \in ChanRecord
    BY <1>1, PartsOf DEF ChanRecord
  <2> HIDE DEF c, d
  <2>3. Same(s)
    OBVIOUS
  <2>4. Same([s EXCEPT !.chan = c])
    BY <1>3, <2>2
  <2>5. Same(JoinChannel(u))
    <3>1. Same(u) /\ u \in BotState /\ u.server = s.server
      BY <1>3, <2>2
    <3> HIDE DEF u
    <3> DEFINE x == JoinChannel(u)
    <3>2. /\ x \in BotState /\ x.conn = u.conn /\ x.me = u.me /\ x.server = u.server
          /\ u.sendq \in QueueOf({FALSE}) => x.sendq \in QueueOf({FALSE})
      BY <3>1, JoinChannelType
    <3> HIDE DEF x
    <3>3. Sound(x)
      BY <3>1, <3>2, Alike
    <3> QED BY <3>1, <3>2, <3>3 DEF x
  <2>6. Same(h)
    <3> HIDE DEF Same, h
    <3> QED BY <2>1, <2>3, <2>4, <2>5
  <2> QED BY <1>9, <2>6 DEF Naming
<1>10. CASE l.cmd \in {"QUIT_US", "ERROR"}
  <2> DEFINE t == CloseServer(s)
             x == To(t, "EXIT")
             q == Cleaned(x.sendq)
             y == [x EXCEPT !.sendq = q]
             p == [s.sendq EXCEPT !.recentsent = 0]
             z == [s EXCEPT !.sendq = p]
  <2>1. h \in {y, z, t}
    <3>1. CASE l.cmd = "QUIT_US"
      BY <3>1 DEF Handle, ForcedQuit
    <3>2. CASE l.cmd = "ERROR"
      BY <3>2 DEF Handle, ClosingLink
    <3> QED BY <1>10, <3>1, <3>2
  <2>2. Good(t) /\ t.server.link = "none" /\ t.me = s.me
    BY <1>1, CloseServerType DEF Disconnected
  <2> HIDE DEF t
  <2>3. Same(t)
    BY <2>2 DEF Good
  <2>4. /\ x \in BotState /\ x.conn.status = "EXIT" /\ x.server = t.server /\ x.me = s.me
    <3>1. t \in BotState /\ "EXIT" \in Status
      BY <2>2 DEF Good, Sound, Status
    <3> QED BY <2>2, <3>1, ToType
  <2> HIDE DEF x
  <2>5. q \in QueueOf(BOOLEAN)
    <3>1. x.sendq \in QueueOf(BOOLEAN) /\ BOOLEAN \in Ghost
      BY <2>4, PartsOf DEF Ghost
    <3> QED BY <3>1, CleanedType
  <2> HIDE DEF q
  <2>6. y \in BotState /\ y.conn = x.conn /\ y.server = x.server /\ y.me = x.me
    BY <2>4, <2>5 DEF BotState
  <2> HIDE DEF y
  <2>7. Same(y)
    BY <2>2, <2>4, <2>6 DEF Good, Sound, Linked, Fresh
  <2>8. p \in QueueOf(BOOLEAN) /\ (s.sendq \in QueueOf({FALSE}) => p \in QueueOf({FALSE}))
    <3>1. 0 \in 0..RecentPings /\ s.sendq \in QueueOf(BOOLEAN)
      BY <1>1, Zeros, PartsOf
    <3> QED BY <3>1 DEF QueueOf
  <2> HIDE DEF p
  <2>9. z \in BotState /\ z.conn = s.conn /\ z.server = s.server /\ z.me = s.me /\ z.sendq = p
    BY <1>1, <2>8 DEF BotState
  <2> HIDE DEF z
  <2>10. Same(z)
    BY <1>1, <2>8, <2>9, Alike
  <2>11. Same(h)
    <3> HIDE DEF Same, h
    <3> QED BY <2>1, <2>3, <2>7, <2>10
  <2> QED BY <1>10, <2>11 DEF Naming
<1>11. CASE l.cmd \in {"PART_US", "PONG"}
  <2>1. h = s
    BY <1>11 DEF Handle
  <2> QED BY <1>11, <2>1 DEF Naming
<1>12. CASE l.cmd = "353" /\ ~s.chan.known
  <2> DEFINE u == Submit(s, "normal", "PART", 0)
  <2>1. h = u
    BY <1>12 DEF Handle, NamesGot
  <2>2. /\ u \in BotState /\ u.conn = s.conn /\ u.me = s.me /\ u.server = s.server
        /\ s.sendq \in QueueOf({FALSE}) => u.sendq \in QueueOf({FALSE})
    <3>1. "normal" \in Queue /\ "PART" \in Command /\ 0 \in Nick
      BY Limits, Zeros DEF Queue
    <3> QED BY <1>1, <3>1, SubmitType
  <2> HIDE DEF u
  <2>3. Sound(u)
    BY <1>1, <2>2, Alike
  <2> QED BY <1>12, <2>1, <2>2, <2>3 DEF Naming
<1> QED BY <1>2, <1>5, <1>6, <1>7, <1>8, <1>9, <1>10, <1>11, <1>12 DEF LineCmd

\* The list after a line, if it counts, is what the line makes of one that counted, or
\* the line makes it count.
LEMMA HandleFollows ==
  ASSUME NEW s, Sound(s), NEW l \in Line
  PROVE  Follows(s.chan, Handle(s, l).chan, l)
<1> DEFINE h == Handle(s, l)
<1>1. s \in BotState /\ ~s.server.gotold /\ s.chan \in ChanRecord
  BY PartsOf DEF Sound
<1>2. l.cmd \in LineCmd /\ l.who \in SUBSET Person /\ l.new \in SUBSET Person /\ l.nick \in Nick
  BY DEF Line, LineCmd
<1>3. ASSUME NEW c \in ChanRecord PROVE [s EXCEPT !.chan = c].chan = c /\ [s EXCEPT !.chan = c] \in BotState
  BY <1>1 DEF BotState
<1>4. Follows(s.chan, s.chan, l) \/ l.cmd \in {"353", "JOIN", "LEAVE", "NICK", "KICK_US"}
  BY DEF Follows, Effect
<1>5. CASE l.cmd \in {"353", "JOIN"}
  <2> DEFINE c == [s.chan EXCEPT !.members = s.chan.members \cup l.who]
             u == Submit(s, "normal", "PART", 0)
  <2>1. IF s.chan.known THEN h = [s EXCEPT !.chan = c] ELSE h \in {s, u}
    BY <1>5 DEF Handle, NamesGot, Remember
  <2>3. u.chan = s.chan
    <3>1. "normal" \in Queue /\ "PART" \in Command /\ 0 \in Nick
      BY Limits, Zeros DEF Queue
    <3> QED BY <1>1, <3>1, SubmitType
  <2>2. c \in ChanRecord /\ Follows(s.chan, c, l) /\ (~s.chan.known => Follows(s.chan, s.chan, l))
    BY <1>1, <1>2, <1>5 DEF ChanRecord, Follows, Effect
  <2> HIDE DEF c, h, u
  <2> QED BY <1>3, <2>1, <2>2, <2>3 DEF h
<1>6. CASE l.cmd = "LEAVE"
  <2> DEFINE c == [s.chan EXCEPT !.members = s.chan.members \ l.who]
  <2>1. h = [s EXCEPT !.chan = c]
    BY <1>6 DEF Handle, Forget
  <2>2. c \in ChanRecord /\ Follows(s.chan, c, l)
    BY <1>1, <1>2, <1>6 DEF ChanRecord, Follows, Effect
  <2> HIDE DEF c, h
  <2> QED BY <1>3, <2>1, <2>2 DEF h
<1>7. CASE l.cmd = "NICK" /\ l.who \subseteq s.chan.members
  <2> DEFINE c == [s.chan EXCEPT !.members = (s.chan.members \ l.who) \cup l.new]
  <2>1. h = [s EXCEPT !.chan = c]
    BY <1>1, <1>7 DEF Handle, Forget, Remember, BotState, ChanRecord
  <2>2. c \in ChanRecord /\ Follows(s.chan, c, l)
    BY <1>1, <1>2, <1>7 DEF ChanRecord, Follows, Effect
  <2> HIDE DEF c, h
  <2> QED BY <1>3, <2>1, <2>2 DEF h
<1>8. CASE l.cmd = "NICK" /\ ~(l.who \subseteq s.chan.members)
  <2>1. h = s /\ Follows(s.chan, s.chan, l)
    BY <1>8 DEF Handle, Follows, Effect
  <2> QED BY <2>1
<1>9. CASE l.cmd = "KICK_US"
  <2> DEFINE c == [s.chan EXCEPT !.kicked = TRUE, !.members = {}]
             d == [s.chan EXCEPT !.on = FALSE]
             u == [s EXCEPT !.chan = d]
  <2>1. (~s.chan.known /\ h = s) \/ h = [s EXCEPT !.chan = c] \/ h = JoinChannel(u)
    BY <1>9 DEF Handle, Kicked
  <2>2. /\ c \in ChanRecord /\ Follows(s.chan, c, l) /\ d \in ChanRecord /\ ~d.on
        /\ ~s.chan.known => Follows(s.chan, s.chan, l)
    BY <1>1, <1>9 DEF ChanRecord, Follows, Effect
  <2> HIDE DEF c, d
  <2>3. u \in BotState /\ u.chan = d
    BY <1>3, <2>2
  <2> HIDE DEF u
  <2>4. ~JoinChannel(u).chan.on
    BY <2>2, <2>3, JoinChannelType
  <2>5. Follows(s.chan, JoinChannel(u).chan, l)
    BY <2>4 DEF Follows
  <2> HIDE DEF h
  <2> QED BY <1>3, <2>1, <2>2, <2>5 DEF h
<1>10. CASE l.cmd = "JOIN_US"
  BY <1>10 DEF Follows
<1>11. ASSUME h.chan = s.chan, l.cmd \notin {"353", "JOIN", "LEAVE", "NICK", "KICK_US"}
       PROVE  Follows(s.chan, h.chan, l)
  <2> HIDE DEF h
  <2> QED BY <1>4, <1>11
<1>12. CASE l.cmd \in {"001", "NICK_US", "PART_US", "PONG"}
  <2>1. h \in {s, [s EXCEPT !.me = [nick |-> l.nick, number |-> 0]]}
    BY <1>12 DEF Handle, Welcomed, Renamed
  <2>2. h.chan = s.chan
    BY <1>1, <2>1 DEF BotState
  <2> QED BY <1>11, <1>12, <2>2
<1>13. CASE l.cmd = "433"
  <2> DEFINE u == Submit(s, "normal", "NICK", s.me.number + 1)
  <2>1. s.me.number + 1 \in Nick
    BY <1>1, Limits, PartsOf DEF MeRecord, Nick
  <2>2. u \in BotState /\ u.chan = s.chan
    <3>1. "normal" \in Queue /\ "NICK" \in Command
      BY Limits DEF Queue
    <3> QED BY <1>1, <2>1, <3>1, SubmitType
  <2>3. h = [u EXCEPT !.me.number = Min2(u.me.number + 1, MaxNick)]
    BY <1>13 DEF Handle, NickInUse
  <2> HIDE DEF u
  <2>4. h.chan = s.chan
    BY <2>2, <2>3 DEF BotState
  <2> QED BY <1>11, <1>13, <2>4
<1>14. CASE l.cmd \in {"QUIT_US", "ERROR"}
  <2> DEFINE t == CloseServer(s)
             x == To(t, "EXIT")
  <2>1. \/ h = t \/ h = [s EXCEPT !.sendq.recentsent = 0]
        \/ h = [x EXCEPT !.sendq = Cleaned(x.sendq)]
    <3>1. CASE l.cmd = "QUIT_US"
      BY <3>1 DEF Handle, ForcedQuit
    <3>2. CASE l.cmd = "ERROR"
      BY <3>2 DEF Handle, ClosingLink
    <3> QED BY <1>14, <3>1, <3>2
  <2>2. t \in BotState /\ t.chan = s.chan
    BY <1>1, CloseServerType DEF Good, Sound
  <2> HIDE DEF t
  <2>3. x \in BotState /\ x.chan = s.chan
    <3>1. "EXIT" \in Status
      BY DEF Status
    <3> QED BY <2>2, <3>1, ToType
  <2> HIDE DEF x
  <2>4. h.chan = s.chan
    BY <1>1, <2>1, <2>2, <2>3 DEF BotState
  <2> QED BY <1>11, <1>14, <2>4
<1> QED BY <1>2, <1>5, <1>6, <1>7, <1>8, <1>9, <1>10, <1>12, <1>13, <1>14 DEF LineCmd

\* The rest of some lines agrees with the nick the lines before it have left.
LEMMA AgreesRest ==
  ASSUME NEW L \in Seq(Line), NEW n \in 1..Len(L), NEW mine, NEW nick,
         \A i \in DOMAIN L : Naming(L[i]) /\ (\A j \in DOMAIN L : j > i => ~Naming(L[j])) => L[i].nick = nick,
         (\A i \in DOMAIN L : i > n => ~Naming(L[i])) => mine = nick
  PROVE  Agrees(SubSeq(L, n + 1, Len(L)), mine, nick)
<1> DEFINE r == SubSeq(L, n + 1, Len(L))
           m == Len(L)
<1>1. /\ m \in Nat /\ n \in 1..m /\ DOMAIN L = 1..m
      /\ DOMAIN r = 1..(m - n) /\ \A i \in 1..(m - n) : r[i] = L[n + i]
  OBVIOUS
<1>2. ( /\ (\A i \in DOMAIN r : ~Naming(r[i])) => mine = nick
        /\ \A i \in DOMAIN r : Naming(r[i]) /\ (\A j \in DOMAIN r : j > i => ~Naming(r[j])) => r[i].nick = nick )
      => Agrees(SubSeq(L, n + 1, Len(L)), mine, nick)
  BY DEF Agrees
<1> HIDE DEF r, m
<1>3. ASSUME NEW j \in DOMAIN L, j > n PROVE j - n \in DOMAIN r /\ L[j] = r[j - n]
  <2>1. j - n \in 1..(m - n) /\ n + (j - n) = j
    BY <1>1, <1>3
  <2>2. r[j - n] = L[n + (j - n)]
    BY <1>1, <2>1
  <2> QED BY <1>1, <2>1, <2>2
<1>4. ASSUME \A i \in DOMAIN r : ~Naming(r[i]) PROVE mine = nick
  <2>1. \A i \in DOMAIN L : i > n => ~Naming(L[i])
    BY <1>3, <1>4
  <2> QED BY <2>1
<1>5. ASSUME NEW i \in DOMAIN r, Naming(r[i]), \A j \in DOMAIN r : j > i => ~Naming(r[j])
      PROVE  r[i].nick = nick
  <2>1. n + i \in DOMAIN L /\ r[i] = L[n + i]
    BY <1>1
  <2>2. ASSUME NEW j \in DOMAIN L, j > n + i PROVE ~Naming(L[j])
    <3>1. j > n /\ j - n > i
      BY <1>1, <2>2
    <3>2. j - n \in DOMAIN r /\ L[j] = r[j - n]
      BY <1>3, <3>1
    <3> QED BY <1>5, <3>1, <3>2
  <2> QED BY <1>5, <2>1, <2>2
<1> QED BY <1>2, <1>4, <1>5

\* Some lines are handled one after another: the states in between.
Through(s, L, n, V) ==
  /\ V \in [0..n -> BotState] /\ V[0] = s /\ HandleAll(s, SubSeq(L, 1, n)) = V[n]
  /\ \A k \in 0..n : Sound(V[k])
  /\ \A k \in 1..n : V[k] = Handle(V[k - 1], L[k])

\* There are these states.
LEMMA HandleAllSteps ==
  ASSUME NEW s, Sound(s), NEW L \in Seq(Line), NEW n \in 1..Len(L)
  PROVE  \E V : Through(s, L, n, V)
<1> DEFINE f == SubSeq(L, 1, n)
           Is(g) == g = [k \in 0..Len(f) |-> IF k = 0 THEN s ELSE Handle(g[k - 1], f[k])]
           S == {x \in BotState : Sound(x)}
           D == [k \in 1..n |-> [x \in S |-> Handle(x, L[k])]]
           V == CHOOSE g : Is(g)
<1>1. n \in Nat /\ n >= 1 /\ Len(f) = n /\ \A k \in 1..n : f[k] = L[k] /\ L[k] \in Line
  OBVIOUS
<1>2. HandleAll(s, f) = V[Len(f)]
  BY DEF HandleAll
<1> HIDE DEF f
<1>3. ASSUME NEW x \in S, NEW k \in 1..n PROVE Handle(x, L[k]) \in S
  <2>1. L[k] \in Line /\ Sound(x)
    BY <1>1
  <2>2. Sound(Handle(x, L[k]))
    BY <2>1, HandleType
  <2> QED BY <2>2 DEF Sound
<1>4. s \in S /\ \A x \in S : x \in BotState /\ Sound(x)
  BY DEF Sound
<1> HIDE DEF S
<1>6. D \in StepsOf(n, S) /\ \A k \in 1..n : \A x \in S : D[k][x] = Handle(x, L[k])
  BY <1>3 DEF StepsOf
<1> HIDE DEF D
<1>7. Made(n, S, s, D)
  BY <1>1, <1>4, <1>6, Iterated
<1>8. \E g : Is(g)
  <2>1. PICK g \in [0..n -> S] : g[0] = s /\ \A k \in 1..n : g[k] = D[k][g[k - 1]]
    BY <1>7 DEF Made
  <2>2. \A k \in 1..n : g[k] = Handle(g[k - 1], f[k])
    <3> SUFFICES ASSUME NEW k \in 1..n PROVE g[k] = Handle(g[k - 1], f[k])
      OBVIOUS
    <3>1. k - 1 \in 0..n /\ f[k] = L[k]
      BY <1>1
    <3>2. g[k - 1] \in S
      BY <2>1, <3>1
    <3> QED BY <1>6, <2>1, <3>1, <3>2
  <2>3. \A k \in 0..n : k # 0 => k \in 1..n
    BY <1>1
  <2>4. \A k \in 0..n : g[k] = IF k = 0 THEN s ELSE Handle(g[k - 1], f[k])
    BY <2>1, <2>2, <2>3
  <2>5. DOMAIN g = 0..n /\ g = [k \in 0..n |-> g[k]]
    BY <2>1
  <2>6. Is(g)
    BY <1>1, <2>4, <2>5
  <2> QED BY <2>6
<1>9. Is(V)
  <2> HIDE DEF Is
  <2> QED BY <1>8
<1>10. 0 \in 0..n /\ n \in 0..n /\ \A k \in 1..n : k \in 0..n /\ k # 0 /\ k - 1 \in 0..n
  BY <1>1
<1> HIDE DEF V
<1>11. V[0] = s /\ \A k \in 1..n : V[k] = Handle(V[k - 1], f[k])
  BY <1>1, <1>9, <1>10
<1>14. V = [k \in 0..n |-> V[k]]
  BY <1>1, <1>9
<1> HIDE DEF Is
<1>15. \A k \in 1..n : V[k] = Handle(V[k - 1], L[k])
  BY <1>1, <1>11
<1>12. \A k \in 0..n : V[k] \in S
  <2>1. \A k \in 1..n : V[k - 1] \in S => V[k] = D[k][V[k - 1]]
    BY <1>6, <1>15
  <2> QED BY <1>7, <1>11, <2>1 DEF Made
<1>13. V \in [0..n -> BotState]
  <2>1. \A k \in 0..n : V[k] \in BotState
    BY <1>4, <1>12
  <2> QED BY <1>14, <2>1
<1>16. Through(s, L, n, V)
  BY <1>1, <1>2, <1>4, <1>11, <1>12, <1>13, <1>15 DEF f, Through
<1> QED BY <1>16

\* Some lines are handled, the others are still there.
LEMMA HandleAllGood ==
  ASSUME NEW s, Sound(s), NEW L \in Seq(Line), NEW n \in 1..Len(L),
         s.server.lines = SubSeq(L, n + 1, Len(L)),
         s.server.link = "open" /\ s.server.registered => Agrees(L, s.me.nick, s.server.nick),
         s.server.link = "open" /\ s.server.on =>
           Covers(L, 0, s.server.users, s.chan.members, s.chan.known /\ s.chan.on)
  PROVE  Good(HandleAll(s, SubSeq(L, 1, n)))
<1>1. n \in Nat /\ n >= 1 /\ \A k \in 1..n : L[k] \in Line /\ k \in DOMAIN L
  BY ONLY L \in Seq(Line), n \in 1..Len(L)
<1>3. PICK V : Through(s, L, n, V)
  BY HandleAllSteps
<1>2. /\ V \in [0..n -> BotState] /\ V[0] = s /\ HandleAll(s, SubSeq(L, 1, n)) = V[n]
      /\ \A k \in 0..n : Sound(V[k])
      /\ \A k \in 1..n : V[k] = Handle(V[k - 1], L[k])
  BY <1>3 DEF Through
<1>10. 0 \in 0..n /\ n \in 0..n /\ \A k \in 1..n : k \in 0..n /\ k # 0 /\ k - 1 \in 0..n
  BY <1>1
<1>11. V[0] = s
  BY <1>2
<1> DEFINE v == s.server
           Rest(k) == \A i \in DOMAIN L : i > k => ~Naming(L[i])
           Q(x, k) == /\ x.server = v \/ x.server.link = "none"
                      /\ v.link = "open" /\ v.registered /\ Rest(k) => x.me.nick = v.nick
                      /\ v.link = "open" /\ v.on => Covers(L, k, v.users, x.chan.members, x.chan.known /\ x.chan.on)
           P == {k \in 0..n : Q(V[k], k)}
<1>13. v.link = "open" /\ v.registered =>
         \A i \in DOMAIN L : Naming(L[i]) /\ (\A j \in DOMAIN L : j > i => ~Naming(L[j])) => L[i].nick = v.nick
  BY DEF Agrees
<1>14. 0 \in P
  <2>1. Rest(0) => \A i \in DOMAIN L : ~Naming(L[i])
    OBVIOUS
  <2> HIDE DEF Rest
  <2>2. v.link = "open" /\ v.registered /\ Rest(0) => s.me.nick = v.nick
    BY <2>1 DEF Agrees
  <2> QED BY <1>10, <1>11, <2>2
<1>15. ASSUME NEW k \in 1..n, k - 1 \in P PROVE k \in P
  <2> DEFINE w == V[k - 1]
             x == V[k]
  <2>1. w \in BotState /\ Sound(w) /\ Q(w, k - 1)
    BY <1>2, <1>10, <1>15
  <2>2. /\ x.me.nick = (IF Naming(L[k]) THEN L[k].nick ELSE w.me.nick)
        /\ x.server = w.server \/ x.server.link = "none"
        /\ Follows(w.chan, x.chan, L[k])
    <3>1. x = Handle(w, L[k]) /\ L[k] \in Line
      BY <1>1, <1>2
    <3> HIDE DEF w, x, Q
    <3>2. Sound(w)
      BY <2>1
    <3> QED BY <3>1, <3>2, HandleType, HandleFollows
  <2> HIDE DEF w, x
  <2>3. ASSUME v.link = "open", v.registered, Rest(k) PROVE x.me.nick = v.nick
    <3>1. CASE Naming(L[k])
      <4>1. k \in DOMAIN L /\ L[k].nick = v.nick
        BY <1>1, <1>13, <2>3, <3>1
      <4> QED BY <2>2, <3>1, <4>1
    <3>2. CASE ~Naming(L[k])
      <4>1. ASSUME NEW i \in DOMAIN L, i > k - 1 PROVE ~Naming(L[i])
        <5>1. i = k \/ i > k
          BY <4>1
        <5> QED BY <2>3, <3>2, <5>1
      <4>2. w.me.nick = v.nick
        BY <2>1, <2>3, <4>1
      <4> QED BY <2>2, <3>2, <4>2
    <3> QED BY <3>1, <3>2
  <2>5. ASSUME v.link = "open", v.on
        PROVE  Covers(L, k, v.users, x.chan.members, x.chan.known /\ x.chan.on)
    <3> DEFINE on == w.chan.known /\ w.chan.on
               b == x.chan.known /\ x.chan.on
               M == w.chan.members
               N == x.chan.members
               U == v.users
    <3>1. M \in SUBSET Person
      <4>1. w \in BotState
        BY <2>1
      <4> QED BY <4>1, PartsOf DEF ChanRecord
    <3>2. b => L[k].cmd = "JOIN_US" \/ (on /\ N = Effect(M, L[k]))
      BY <2>2 DEF Follows
    <3>3. Covers(L, k - 1, U, M, on)
      BY <2>1, <2>5
    <3>4. k \in 1..Len(L)
      BY <1>1
    <3> HIDE DEF on, b, M, N, U
    <3>5. Covers(L, k, U, N, b)
      BY <3>1, <3>2, <3>3, <3>4, CoversStep
    <3> QED BY <3>5 DEF b, N, U
  <2>4. Q(x, k)
    <3> HIDE DEF Rest
    <3> QED BY <2>1, <2>2, <2>3, <2>5
  <2> HIDE DEF Q
  <2> QED BY <1>10, <2>4 DEF x
<1>16. Sound(V[n]) /\ Q(V[n], n)
  <2>1. n \in P
    <3> HIDE DEF P
    <3>1. 0..n \subseteq P
      BY <1>1, <1>14, <1>15, Climb
    <3> QED BY <1>10, <3>1
  <2> HIDE DEF Q
  <2> QED BY <1>2, <1>10, <2>1
<1> DEFINE t == V[n]
<1> HIDE DEF t
<1>17. Sound(t) /\ Q(t, n)
  <2> HIDE DEF Q
  <2> QED BY <1>16 DEF t
<1>18. ASSUME t.server.link = "open", t.server.registered PROVE Agrees(t.server.lines, t.me.nick, t.server.nick)
  <2>1. t.server = v /\ v.link = "open" /\ v.registered /\ v.lines = SubSeq(L, n + 1, Len(L))
    BY <1>17, <1>18
  <2>2. Rest(n) => t.me.nick = v.nick
    <3> HIDE DEF Rest
    <3> QED BY <1>17, <2>1
  <2>3. Agrees(SubSeq(L, n + 1, Len(L)), t.me.nick, v.nick)
    BY <1>13, <2>1, <2>2, AgreesRest
  <2> QED BY <2>1, <2>3
<1>20. ASSUME t.server.link = "open", t.server.on
       PROVE  Covers(t.server.lines, 0, t.server.users, t.chan.members, t.chan.known /\ t.chan.on)
  <2>1. t.server = v /\ v.link = "open" /\ v.on /\ v.lines = SubSeq(L, n + 1, Len(L))
    BY <1>17, <1>20
  <2> DEFINE U == v.users
             M == t.chan.members
             b == t.chan.known /\ t.chan.on
  <2>2. Covers(L, n, U, M, b) /\ n \in 0..Len(L)
    BY <1>17, <2>1
  <2> HIDE DEF U, M, b
  <2>3. Covers(SubSeq(L, n + 1, Len(L)), 0, U, M, b)
    BY <2>2, CoversRest
  <2> QED BY <2>1, <2>3 DEF U, M, b
<1>19. Good(t)
  <2> HIDE DEF Q
  <2> QED BY <1>17, <1>18, <1>20 DEF Good, Knows, Aware
<1> QED BY <1>2, <1>19 DEF t
-----------------------------------------------------------------------------
(* A pass of the main loop *)

\* What else the channel is, and the rest of the connection's record, is of no matter.
LEMMA PartsGood ==
  ASSUME NEW s, Good(s)
  PROVE  /\ s \in BotState
         /\ \A c \in ChanRecord : Calm(s.chan, c) =>
              LET t == [s EXCEPT !.chan = c]
              IN Good(t) /\ t.conn = s.conn /\ t.server = s.server /\ t.sendq = s.sendq /\ t.chan = c
         /\ \A c \in ConnRecord : c.status = s.conn.status =>
              LET t == [s EXCEPT !.conn = c]
              IN Good(t) /\ t.conn = c /\ t.server = s.server /\ t.lookup = s.lookup
<1>1. s \in BotState
  BY DEF Good, Sound
<1>2. ASSUME NEW c \in ChanRecord, Calm(s.chan, c)
      PROVE  LET t == [s EXCEPT !.chan = c]
             IN Good(t) /\ t.conn = s.conn /\ t.server = s.server /\ t.sendq = s.sendq /\ t.chan = c
  <2> DEFINE t == [s EXCEPT !.chan = c]
  <2>1. /\ t \in BotState /\ t.conn = s.conn /\ t.me = s.me /\ t.sendq = s.sendq /\ t.server = s.server
        /\ t.chan = c
    BY <1>1 DEF BotState
  <2> HIDE DEF t
  <2>2. Good(t)
    BY <1>1, <1>2, <2>1, Alike
  <2> QED BY <2>1, <2>2 DEF t
<1>3. ASSUME NEW c \in ConnRecord, c.status = s.conn.status
      PROVE  LET t == [s EXCEPT !.conn = c]
             IN Good(t) /\ t.conn = c /\ t.server = s.server /\ t.lookup = s.lookup
  <2> DEFINE t == [s EXCEPT !.conn = c]
  <2>1. /\ t \in BotState /\ t.conn = c /\ t.me = s.me /\ t.sendq = s.sendq /\ t.server = s.server
        /\ t.lookup = s.lookup /\ t.chan = s.chan
    BY <1>1 DEF BotState
  <2> HIDE DEF t
  <2>2. Good(t)
    BY <1>1, <1>3, <2>1, Alike
  <2> QED BY <2>1, <2>2 DEF t
<1> QED BY <1>1, <1>2, <1>3

\* What is queued is written for the connection there is.
LEMMA SubmitGood ==
  ASSUME NEW s, Good(s), NEW type \in Queue, NEW cmd \in Command, NEW nick \in Nick
  PROVE  LET t == Submit(s, type, cmd, nick)
         IN /\ Good(t) /\ t.conn = s.conn /\ t.chan = s.chan /\ t.exiting = s.exiting /\ t.server = s.server
            /\ t.me = s.me
<1> DEFINE t == Submit(s, type, cmd, nick)
<1>1. s \in BotState
  BY DEF Good, Sound
<1>2. /\ t \in BotState /\ t.conn = s.conn /\ t.me = s.me /\ t.chan = s.chan
      /\ t.exiting = s.exiting /\ t.server = s.server
      /\ s.sendq \in QueueOf({FALSE}) => t.sendq \in QueueOf({FALSE})
  BY <1>1, SubmitType
<1> HIDE DEF t
<1>3. Good(t)
  BY <1>1, <1>2, Alike
<1> QED BY <1>2, <1>3 DEF t

\* So is a JOIN, which empties a list that does not count.
LEMMA JoinChannelGood ==
  ASSUME NEW s, Good(s), ~s.chan.on
  PROVE  Good(JoinChannel(s)) /\ JoinChannel(s).conn = s.conn
<1> DEFINE t == JoinChannel(s)
<1>1. s \in BotState
  BY DEF Good, Sound
<1>2. /\ t \in BotState /\ t.conn = s.conn /\ t.me = s.me /\ t.server = s.server /\ t.chan.on = s.chan.on
      /\ s.sendq \in QueueOf({FALSE}) => t.sendq \in QueueOf({FALSE})
  BY <1>1, JoinChannelType
<1> HIDE DEF t
<1>3. Good(t)
  BY <1>1, <1>2, Alike DEF Calm
<1> QED BY <1>2, <1>3 DEF t

\* A second on the clocks.
LEMMA TickType ==
  ASSUME NEW s, Good(s)
  PROVE  LET t == Tick(s)
         IN /\ Good(t) /\ t.conn.status = s.conn.status
            /\ t.lookup = s.lookup /\ t.me = s.me /\ t.chan = s.chan /\ t.exiting = s.exiting
            /\ t.server = s.server /\ t.sendq = Elapsed(s.sendq)
            /\ t.conn.age < waitjoin => s.conn.age < waitjoin
<1> DEFINE c == [s.conn EXCEPT !.quiet = Min2(s.conn.quiet + 1, MaxQuiet), !.age = Min2(s.conn.age + 1, waitjoin)]
           q == Elapsed(s.sendq)
           t == [s EXCEPT !.conn = c, !.sendq = q]
<1>1. s \in BotState /\ s.conn \in ConnRecord /\ s.sendq \in QueueOf(BOOLEAN)
  BY PartsOf DEF Good, Sound
<1>2. Tick(s) = t
  BY DEF Tick
<1>3. c \in ConnRecord /\ c.status = s.conn.status /\ (c.age < waitjoin => s.conn.age < waitjoin)
  <2>1. MaxQuiet \in Nat /\ waitjoin \in Nat
    BY NetworkAssumption DEF MaxQuiet, Patience
  <2>2. s.conn.quiet \in 0..MaxQuiet /\ s.conn.age \in 0..waitjoin
    BY <1>1 DEF ConnRecord
  <2>3. Min2(s.conn.quiet + 1, MaxQuiet) \in 0..MaxQuiet /\ Min2(s.conn.age + 1, waitjoin) \in 0..waitjoin
    BY <2>1, <2>2 DEF Min2
  <2>4. Min2(s.conn.age + 1, waitjoin) < waitjoin => s.conn.age < waitjoin
    BY <2>1, <2>2 DEF Min2
  <2> QED BY <1>1, <2>3, <2>4 DEF ConnRecord
<1>4. q \in QueueOf(BOOLEAN) /\ (s.sendq \in QueueOf({FALSE}) => q \in QueueOf({FALSE}))
  <2>1. BOOLEAN \in Ghost /\ {FALSE} \in Ghost
    BY DEF Ghost
  <2> QED BY <1>1, <2>1, ElapsedType
<1>7. q = Elapsed(s.sendq)
  OBVIOUS
<1> HIDE DEF c, q
<1>5. /\ t \in BotState /\ t.conn = c /\ t.sendq = q /\ t.server = s.server
      /\ t.lookup = s.lookup /\ t.me = s.me /\ t.chan = s.chan /\ t.exiting = s.exiting
  BY <1>1, <1>3, <1>4 DEF BotState
<1> HIDE DEF t
<1>6. Good(t)
  BY <1>1, <1>3, <1>4, <1>5, Alike
<1> QED BY <1>2, <1>3, <1>5, <1>6, <1>7

\* irc_perform every second, with the status the pass began with.
LEMMA EverySecondGood ==
  ASSUME NEW s, Good(s), NEW status, NEW forked \in BOOLEAN,
         status = "RESOLVING" => s.server.link = "none"
  PROVE  Good(EverySecond(s, status, forked))
<1> DEFINE t == CASE status \in {"TRYING", "SSL_HANDSHAKE"} /\ TimedOut(s) -> CloseServer(s)
                  [] status = "RESOLVING" /\ TimedOut(s) -> To(s, "NEED_TO_CONNECT")
                  [] status = "NEED_TO_CONNECT" /\ ~s.conn.offline /\ TimedOut(s) -> SwitchServer(s, forked)
                  [] OTHER -> s
<1>1. s \in BotState /\ Linked(s) /\ ~s.server.gotold
  BY DEF Good, Sound
<1>2. EverySecond(s, status, forked) = SendServer(t)
  BY DEF EverySecond
<1>3. t \in {CloseServer(s), SwitchServer(s, forked), s} \/ (status = "RESOLVING" /\ t = To(s, "NEED_TO_CONNECT"))
  OBVIOUS
<1> HIDE DEF t
<1>4. ASSUME status = "RESOLVING" PROVE Good(To(s, "NEED_TO_CONNECT"))
  <2> DEFINE u == To(s, "NEED_TO_CONNECT")
  <2>1. u \in BotState /\ u.conn.status = "NEED_TO_CONNECT" /\ u.me = s.me /\ u.sendq = s.sendq /\ u.server = s.server
    <3>1. "NEED_TO_CONNECT" \in Status
      BY DEF Status
    <3> QED BY <1>1, <3>1, ToType
  <2> HIDE DEF u
  <2>2. Good(u)
    BY <1>1, <1>4, <2>1 DEF Good, Sound, Linked, Fresh, Knows, Aware
  <2> QED BY <2>2 DEF u
<1>5. Good(t)
  BY <1>1, <1>3, <1>4, CloseServerType, SwitchServerGood
<1> QED BY <1>2, <1>5, SendServerGood

\* The resolver's answer is used.
LEMMA AnsweredGood ==
  ASSUME NEW s, Good(s), s.conn.status = "RESOLVING"
  PROVE  LET t == Answered(s)
         IN /\ Good(t) /\ t.server = s.server /\ t.sendq = s.sendq /\ t.chan = s.chan
            /\ t.conn.status = "TRYING"
<1> DEFINE c == [s.conn EXCEPT !.status = "TRYING", !.quiet = reconnect_delay]
           l == [s.lookup EXCEPT !.next = IF s.lookup.reset THEN 0 ELSE s.lookup.next,
                                 !.addr = s.lookup.answer, !.answer = 0, !.reset = FALSE]
           t == [s EXCEPT !.conn = c, !.lookup = l]
<1>1. s \in BotState /\ s.conn \in ConnRecord /\ s.lookup \in LookupRecord
  BY PartsOf DEF Good, Sound
<1>2. Answered(s) = t
  BY <1>1 DEF Answered, To, BotState
<1>3. c \in ConnRecord /\ c.status = "TRYING"
  BY <1>1, Zeros DEF ConnRecord, Status
<1>4. l \in LookupRecord
  BY <1>1, Zeros DEF LookupRecord
<1> HIDE DEF c, l
<1>5. t \in BotState /\ t.conn = c /\ t.sendq = s.sendq /\ t.server = s.server /\ t.me = s.me /\ t.chan = s.chan
  BY <1>1, <1>3, <1>4 DEF BotState
<1> HIDE DEF t
<1>6. Good(t)
  BY <1>3, <1>5 DEF Good, Sound, Linked, Fresh, Knows, Aware
<1> QED BY <1>2, <1>3, <1>5, <1>6

\* The connection is there.
LEMMA EstablishedGood ==
  ASSUME NEW s, Good(s), s.conn.status = "TRYING", NEW result
  PROVE  LET t == Established(s)
         IN /\ Good(t) /\ Good(HandshakeSsl(t, result))
            /\ t.conn.status = "CONNECTED" /\ t.sendq = s.sendq /\ t.chan = s.chan
            /\ t.server.lines = <<>> /\ ~t.server.registered /\ ~t.server.on
<1> DEFINE c == [s.conn EXCEPT !.status = "CONNECTED", !.age = 0]
           m == [s.me EXCEPT !.nick = 0]
           l == [s.lookup EXCEPT !.addr = 0]
           v == [s.server EXCEPT !.link = "open"]
           t == [s EXCEPT !.conn = c, !.me = m, !.lookup = l, !.server = v]
<1>1. /\ s \in BotState /\ s.conn \in ConnRecord /\ s.lookup \in LookupRecord /\ s.me \in MeRecord
      /\ s.server \in ServerRecord /\ s.server.link = "none" /\ ~s.server.registered /\ ~s.server.gotold
      /\ ~s.server.on /\ s.server.lines = <<>>
  BY PartsOf DEF Good, Sound, Linked
<1>2. Established(s) = t
  BY DEF Established, To
<1>3. c \in ConnRecord /\ c.status = "CONNECTED"
  BY <1>1, Zeros DEF ConnRecord, Status
<1>4. l \in LookupRecord /\ m \in MeRecord
  BY <1>1, Zeros DEF LookupRecord, MeRecord
<1>5. v \in ServerRecord /\ v.link = "open" /\ ~v.registered /\ ~v.gotold /\ ~v.on /\ v.lines = <<>>
  BY <1>1 DEF ServerRecord
<1> HIDE DEF c, l, m, v
<1>6. t \in BotState /\ t.conn = c /\ t.sendq = s.sendq /\ t.server = v /\ t.me = m /\ t.chan = s.chan
  BY <1>1, <1>3, <1>4, <1>5 DEF BotState
<1> HIDE DEF t
<1>7. Good(t)
  BY <1>3, <1>5, <1>6 DEF Good, Sound, Linked, Fresh, Knows, Aware
<1> QED BY <1>2, <1>3, <1>5, <1>6, <1>7, HandshakeSslGood

\* The server has said something.
LEMMA HeardGood ==
  ASSUME NEW s, s \in BotState
  PROVE  LET t == Heard(s)
         IN /\ t \in BotState /\ t.conn.status = s.conn.status /\ t.sendq = s.sendq
            /\ t.server = s.server /\ t.me = s.me /\ t.exiting = s.exiting /\ t.chan = s.chan
            /\ t.conn.age = s.conn.age
            /\ Sound(s) => Sound(t)
            /\ Good(s) => Good(t)
<1> DEFINE c == [s.conn EXCEPT !.quiet = reconnect_delay, !.servertime = 0]
           t == [s EXCEPT !.conn = c]
<1>1. Heard(s) = t
  BY DEF Heard
<1>2. c \in ConnRecord /\ c.status = s.conn.status /\ c.age = s.conn.age
  BY PartsOf, Zeros DEF ConnRecord
<1> HIDE DEF c
<1>3. /\ t \in BotState /\ t.conn = c /\ t.sendq = s.sendq /\ t.server = s.server /\ t.me = s.me
      /\ t.exiting = s.exiting /\ t.chan = s.chan
  BY <1>2 DEF BotState
<1> HIDE DEF t
<1> QED BY <1>1, <1>2, <1>3, Alike

\* Lines are read.
LEMMA LinesReadGood ==
  ASSUME NEW s, Good(s), NEW n \in DOMAIN s.server.lines
  PROVE  Good(LinesRead(s, n))
<1> DEFINE L == s.server.lines
           rest == SubSeq(L, n + 1, Len(L))
           v == [s.server EXCEPT !.lines = rest]
           u == [s EXCEPT !.server = v]
           t == Heard(u)
<1>1. /\ s \in BotState /\ s.server \in ServerRecord /\ L \in Seq(Line) /\ n \in 1..Len(L)
      /\ Linked(s) /\ Fresh(s) /\ ~s.server.gotold /\ Knows(s.server, s.me.nick) /\ Aware(s.server, s.chan)
  BY PartsOf DEF Good, Sound, ServerRecord
<1>2. LinesRead(s, n) = HandleAll(t, SubSeq(L, 1, n))
  BY DEF LinesRead
<1>3. rest \in Seq(Line)
  <2>1. n \in 0..Len(L)
    BY <1>1
  <2> HIDE DEF L
  <2> QED BY <1>1, <2>1, PartsType
<1>4. s.server.link # "none"
  BY <1>1 DEF Linked
<1> HIDE DEF rest
<1>5. /\ v \in ServerRecord /\ v.lines = rest /\ v.link = s.server.link /\ v.registered = s.server.registered
      /\ v.nick = s.server.nick /\ v.gotold = s.server.gotold
      /\ v.on = s.server.on /\ v.users = s.server.users
  BY <1>1, <1>3 DEF ServerRecord
<1> HIDE DEF v
<1>6. u \in BotState /\ u.conn = s.conn /\ u.sendq = s.sendq /\ u.server = v /\ u.me = s.me /\ u.chan = s.chan
  BY <1>1, <1>5 DEF BotState
<1> HIDE DEF u
<1>7. Sound(u)
  BY <1>1, <1>4, <1>5, <1>6 DEF Sound, Linked, Fresh
<1>8. Sound(t) /\ t.server = v /\ t.me = s.me /\ t.chan = s.chan
  BY <1>6, <1>7, HeardGood
<1> HIDE DEF t
<1>9. t.server.link = "open" /\ t.server.registered => Agrees(L, t.me.nick, t.server.nick)
  BY <1>1, <1>5, <1>8 DEF Knows
<1>10. t.server.lines = SubSeq(L, n + 1, Len(L))
  BY <1>5, <1>8 DEF rest
<1>11. t.server.link = "open" /\ t.server.on =>
         Covers(L, 0, t.server.users, t.chan.members, t.chan.known /\ t.chan.on)
  BY <1>1, <1>5, <1>8 DEF Aware
<1> HIDE DEF L
<1> QED BY <1>1, <1>2, <1>8, <1>9, <1>10, <1>11, HandleAllGood

\* The pings that are owed may be forgotten or counted down.
LEMMA OwedGood ==
  ASSUME NEW s, Good(s), NEW k \in 0..RecentPings
  PROVE  LET t == [s EXCEPT !.sendq.recentsent = k]
         IN /\ t \in BotState /\ Good(t) /\ t.server = s.server /\ t.chan = s.chan /\ t.conn = s.conn
            /\ t.exiting = s.exiting /\ t.sendq = [s.sendq EXCEPT !.recentsent = k]
<1> DEFINE q == [s.sendq EXCEPT !.recentsent = k]
           t == [s EXCEPT !.sendq = q]
<1>1. s \in BotState /\ s.sendq \in QueueOf(BOOLEAN)
  BY PartsOf DEF Good, Sound
<1>2. q \in QueueOf(BOOLEAN) /\ (s.sendq \in QueueOf({FALSE}) => q \in QueueOf({FALSE}))
  BY <1>1 DEF QueueOf
<1> HIDE DEF q
<1>3. /\ t \in BotState /\ t.conn = s.conn /\ t.sendq = q /\ t.server = s.server /\ t.me = s.me /\ t.chan = s.chan
      /\ t.exiting = s.exiting
  BY <1>1, <1>2 DEF BotState
<1> HIDE DEF t
<1>4. Good(t)
  BY <1>1, <1>2, <1>3, Alike
<1> QED BY <1>3, <1>4 DEF t, q

\* The end of the stream.
LEMMA EndedGood ==
  ASSUME NEW s, Good(s), NEW errno
  PROVE  Good(Ended(s, errno))
<1> DEFINE t == Heard(s)
           u == [t EXCEPT !.sendq.recentsent = 0]
<1>1. Good(t)
  <2>1. s \in BotState
    BY DEF Good, Sound
  <2> QED BY <2>1, HeardGood
<1>2. Ended(s, errno) \in {t, CloseServer(t), CloseServer(u)}
  BY DEF Ended
<1> HIDE DEF t
<1>3. Good(u)
  BY <1>1, OwedGood, Zeros
<1> HIDE DEF u
<1>4. t \in BotState /\ ~t.server.gotold /\ u \in BotState /\ ~u.server.gotold
  BY <1>1, <1>3 DEF Good, Sound
<1> QED BY <1>1, <1>2, <1>4, CloseServerType

\* A ping sent straight to the server, and one more counted.
LEMMA ProbeGood ==
  ASSUME NEW s, Good(s)
  PROVE  Good(Probe(s))
<1> DEFINE v == ServerGets(s.server, "PING", 0)
           c == [s.conn EXCEPT !.servertime = s.conn.servertime + 1]
           t == [s EXCEPT !.server = v, !.conn = c]
           u == CloseServer(s)
           d == [u.conn EXCEPT !.servertime = 0]
           w == [u EXCEPT !.conn = d]
<1>1. /\ s \in BotState /\ s.conn \in ConnRecord /\ s.server \in ServerRecord
      /\ Linked(s) /\ Fresh(s) /\ ~s.server.gotold /\ Knows(s.server, s.me.nick) /\ Aware(s.server, s.chan)
  BY PartsOf DEF Good, Sound
<1>2. Probe(s) \in {s, w} \/ (s.conn.servertime < 3 /\ Probe(s) = t)
  BY DEF Probe
<1>3. /\ v \in ServerRecord /\ v.gotold = s.server.gotold
      /\ s.server.link # "open" => v = s.server
      /\ s.server.link = "open" => v.link \in {"open", "closed"}
      /\ \A mine : Knows(s.server, mine) => Knows(v, mine)
      /\ \A e : Aware(s.server, e) => Aware(v, e)
  <2>1. 0 \in Nick
    BY Zeros
  <2> QED BY <1>1, <2>1, ServerGetsType
<1> HIDE DEF v
<1>4. ASSUME s.conn.servertime < 3 PROVE Good(t)
  <2>1. c \in ConnRecord /\ c.status = s.conn.status
    <3>1. s.conn.servertime + 1 \in 0..3
      BY <1>1, <1>4 DEF ConnRecord
    <3> QED BY <1>1, <3>1 DEF ConnRecord
  <2> HIDE DEF c
  <2>2. t \in BotState /\ t.conn = c /\ t.sendq = s.sendq /\ t.server = v /\ t.me = s.me /\ t.chan = s.chan
    BY <1>1, <1>3, <2>1 DEF BotState
  <2> HIDE DEF t
  <2>3. Linked(t) /\ Fresh(t)
    BY <1>1, <1>3, <2>1, <2>2 DEF Linked, Fresh
  <2> QED BY <1>1, <1>3, <2>2, <2>3 DEF Good, Sound
<1>5. Good(w)
  <2>1. Good(u)
    BY <1>1, CloseServerType
  <2> HIDE DEF u
  <2>2. d \in ConnRecord /\ d.status = u.conn.status
    <3>1. u.conn \in ConnRecord /\ 0 \in 0..3
      BY <2>1, PartsOf, Zeros DEF Good, Sound
    <3> QED BY <3>1 DEF ConnRecord
  <2> HIDE DEF d
  <2> QED BY <2>1, <2>2, PartsGood
<1> HIDE DEF t, w
<1> QED BY <1>2, <1>4, <1>5

\* The ping that keeps the bucket's server talking.
LEMMA PingServerGood ==
  ASSUME NEW s, Good(s)
  PROVE  Good(PingServer(s))
<1> DEFINE u == SendNow(s, "PING", 0)
           t == [u EXCEPT !.sendq.recentsent = u.sendq.recentsent - 1]
<1>1. s \in BotState /\ s.sendq \in QueueOf(BOOLEAN)
  BY PartsOf DEF Good, Sound
<1>2. PingServer(s) = s \/ (s.sendq.recentsent # 0 /\ PingServer(s) = t)
  BY DEF PingServer
<1>3. Good(u)
  <2>1. "PING" \in Command /\ 0 \in Nick
    BY Limits, Zeros
  <2> QED BY <1>1, <2>1, SendNowType
<1>4. ASSUME s.sendq.recentsent # 0 PROVE Good(t)
  <2>1. u.sendq.recentsent = s.sendq.recentsent
    <3>1. Charge(s.sendq, "PING").recentsent = s.sendq.recentsent
      BY <1>1 DEF Charge, QueueOf
    <3> QED BY <1>1, <3>1 DEF SendNow, BotState
  <2>2. u.sendq.recentsent - 1 \in 0..RecentPings
    <3>1. s.sendq.recentsent \in 0..RecentPings /\ RecentPings \in Nat
      BY <1>1, Limits DEF QueueOf
    <3> HIDE DEF u
    <3> QED BY <1>4, <2>1, <3>1
  <2> HIDE DEF u
  <2> QED BY <1>3, <2>2, OwedGood
<1> QED BY <1>2, <1>4

\* a_rehash_channels.
LEMMA RehashChannelsGood ==
  ASSUME NEW s, Good(s), NEW wanted \in BOOLEAN, NEW jump \in BOOLEAN
  PROVE  Good(RehashChannels(s, wanted, jump))
<1> DEFINE u == Submit(s, "normal", "PART", 0)
           c == Forgiven(s.chan)
           d == Dropped(s.chan)
           e == Dropped(u.chan)
           a == [s.chan EXCEPT !.known = TRUE, !.on = FALSE, !.kicked = FALSE, !.members = {}, !.lost = Held(s)]
           x == [s EXCEPT !.chan = a]
<1>1. s \in BotState /\ s.chan \in ChanRecord
  BY PartsOf DEF Good, Sound
<1>2. Good(u) /\ u.chan = s.chan
  <2>1. "normal" \in Queue /\ "PART" \in Command /\ 0 \in Nick
    BY Limits, Zeros DEF Queue
  <2> QED BY <2>1, SubmitGood
<1>3. RehashChannels(s, wanted, jump) \in
        {s, [s EXCEPT !.chan = c], [s EXCEPT !.chan = d], [u EXCEPT !.chan = e], x, JoinChannel(x)}
  <2>1. CASE s.chan.known /\ wanted
    <3>1. RehashChannels(s, wanted, jump) = [s EXCEPT !.chan = c]
      BY <2>1 DEF RehashChannels
    <3> QED BY <3>1
  <2>2. CASE s.chan.known /\ ~wanted
    <3>1. RehashChannels(s, wanted, jump) \in {[s EXCEPT !.chan = d], [u EXCEPT !.chan = e]}
      BY <2>2 DEF RehashChannels
    <3> QED BY <3>1
  <2>3. CASE ~s.chan.known /\ wanted
    <3>1. RehashChannels(s, wanted, jump) \in {x, JoinChannel(x)}
      BY <2>3 DEF RehashChannels, Added
    <3> QED BY <3>1
  <2>4. CASE ~s.chan.known /\ ~wanted
    <3>1. RehashChannels(s, wanted, jump) = s
      BY <2>4 DEF RehashChannels
    <3> QED BY <3>1
  <2> QED BY <2>1, <2>2, <2>3, <2>4
<1>4. Held(s) \in BOOLEAN
  BY <1>1, PartsOf DEF Held, ServerRecord
<1> HIDE DEF u
<1>5. /\ c \in ChanRecord /\ d \in ChanRecord /\ e \in ChanRecord
      /\ Calm(s.chan, c) /\ Calm(s.chan, d) /\ Calm(u.chan, e)
  <2>1. c \in ChanRecord /\ Calm(s.chan, c)
    <3> DEFINE b == s.chan.lost \/ (s.chan.kicked /\ s.chan.on)
    <3>1. b \in BOOLEAN
      OBVIOUS
    <3>2. c = [s.chan EXCEPT !.kicked = FALSE, !.lost = b]
      BY DEF Forgiven
    <3> HIDE DEF b
    <3>3. LET x1 == [s.chan EXCEPT !.kicked = FALSE, !.lost = b]
          IN x1 \in ChanRecord /\ Calm(s.chan, x1)
      BY <1>1, <3>1 DEF ChanRecord, Calm
    <3> QED BY <3>2, <3>3
  <2> QED BY <1>1, <1>2, <2>1 DEF ChanRecord, Dropped, Calm
<1>6. a \in ChanRecord /\ ~a.on
  <2> DEFINE b == Held(s)
  <2> HIDE DEF b
  <2>1. b \in BOOLEAN
    BY <1>4 DEF b
  <2>2. LET x1 == [s.chan EXCEPT !.known = TRUE, !.on = FALSE, !.kicked = FALSE, !.members = {}, !.lost = b]
        IN x1 \in ChanRecord /\ ~x1.on
    BY <1>1, <2>1 DEF ChanRecord
  <2> QED BY <2>2 DEF b
<1> HIDE DEF c, d, e, a
<1>7. Good([s EXCEPT !.chan = c]) /\ Good([s EXCEPT !.chan = d]) /\ Good(x) /\ ~x.chan.on
  <2>1. Calm(s.chan, a)
    BY <1>6 DEF Calm
  <2> QED BY <1>5, <1>6, <2>1, PartsGood
<1>8. Good([u EXCEPT !.chan = e])
  BY <1>2, <1>5, PartsGood
<1> HIDE DEF x
<1>9. Good(JoinChannel(x))
  BY <1>7, JoinChannelGood
<1> QED BY <1>3, <1>7, <1>8, <1>9

\* REHASH and the like begin by forgetting that the network is offline or how long to wait.
LEMMA ResetGood ==
  ASSUME NEW s, Good(s), NEW o \in BOOLEAN
  PROVE  /\ Good([s EXCEPT !.conn.offline = o])
         /\ Good([s EXCEPT !.conn.backoff = 0])
<1> DEFINE c == [s.conn EXCEPT !.offline = o]
           d == [s.conn EXCEPT !.backoff = 0]
<1>1. c \in ConnRecord /\ c.status = s.conn.status /\ d \in ConnRecord /\ d.status = s.conn.status
  <2>1. s.conn \in ConnRecord /\ 0 \in 0..MaxBackoff
    BY PartsOf, Zeros DEF Good, Sound
  <2> QED BY <2>1 DEF ConnRecord
<1> HIDE DEF c, d
<1>2. Good([s EXCEPT !.conn = c]) /\ Good([s EXCEPT !.conn = d])
  BY <1>1, PartsGood
<1> QED BY <1>2 DEF c, d

\* What else the invariant does not look at.
LEMMA OthersGood ==
  ASSUME NEW s, Good(s)
  PROVE  /\ \A l \in LookupRecord : Good([s EXCEPT !.lookup = l])
         /\ \A x \in {"no", "yes", "exited"} : Good([s EXCEPT !.exiting = x])
         /\ \A q \in QueueOf(BOOLEAN) : (s.sendq \in QueueOf({FALSE}) => q \in QueueOf({FALSE}))
              => Good([s EXCEPT !.sendq = q])
<1>1. s \in BotState
  BY DEF Good, Sound
<1>2. ASSUME NEW l \in LookupRecord PROVE Good([s EXCEPT !.lookup = l])
  <2> DEFINE t == [s EXCEPT !.lookup = l]
  <2>1. /\ t \in BotState /\ t.conn = s.conn /\ t.me = s.me /\ t.sendq = s.sendq /\ t.server = s.server
        /\ t.chan = s.chan
    BY <1>1 DEF BotState
  <2> HIDE DEF t
  <2>2. Good(t)
    BY <1>1, <2>1, Alike
  <2> QED BY <2>2 DEF t
<1>3. ASSUME NEW x \in {"no", "yes", "exited"} PROVE Good([s EXCEPT !.exiting = x])
  <2> DEFINE t == [s EXCEPT !.exiting = x]
  <2>1. /\ t \in BotState /\ t.conn = s.conn /\ t.me = s.me /\ t.sendq = s.sendq /\ t.server = s.server
        /\ t.chan = s.chan
    BY <1>1 DEF BotState
  <2> HIDE DEF t
  <2>2. Good(t)
    BY <1>1, <2>1, Alike
  <2> QED BY <2>2 DEF t
<1>4. ASSUME NEW q \in QueueOf(BOOLEAN), s.sendq \in QueueOf({FALSE}) => q \in QueueOf({FALSE})
      PROVE  Good([s EXCEPT !.sendq = q])
  <2> DEFINE t == [s EXCEPT !.sendq = q]
  <2>1. /\ t \in BotState /\ t.conn = s.conn /\ t.me = s.me /\ t.sendq = q /\ t.server = s.server
        /\ t.chan = s.chan
    BY <1>1 DEF BotState
  <2> HIDE DEF t
  <2>2. Good(t)
    BY <1>1, <1>4, <2>1, Alike
  <2> QED BY <2>2 DEF t
<1> QED BY <1>2, <1>3, <1>4

\* The status stays, or there is no server any more.
LEMMA StatusGood ==
  ASSUME NEW s, Good(s), NEW status \in Status,
         status = s.conn.status \/ (status = "NEED_TO_CONNECT" /\ s.server.link = "none")
  PROVE  Good(To(s, status)) /\ To(s, status).lookup = s.lookup
<1> DEFINE t == To(s, status)
<1>1. s \in BotState
  BY DEF Good, Sound
<1>2. /\ t \in BotState /\ t.conn.status = status /\ t.me = s.me /\ t.sendq = s.sendq
      /\ t.server = s.server /\ t.lookup = s.lookup /\ t.chan = s.chan
  BY <1>1, ToType
<1> HIDE DEF t
<1>3. Good(t)
  BY <1>2 DEF Good, Sound, Linked, Fresh, Knows
<1> QED BY <1>2, <1>3 DEF t

\* The server's side changes as it does by itself.
LEMMA ServerGood ==
  ASSUME NEW s, Good(s), NEW v \in ServerRecord, v.gotold = s.server.gotold,
         v.link = "none" <=> s.server.link = "none",
         v.link = "none" => v.lines = s.server.lines /\ v.registered = s.server.registered /\ v.on = s.server.on,
         Knows(s.server, s.me.nick) => Knows(v, s.me.nick),
         Aware(s.server, s.chan) => Aware(v, s.chan)
  PROVE  Good([s EXCEPT !.server = v])
<1> DEFINE t == [s EXCEPT !.server = v]
<1>1. s \in BotState
  BY DEF Good, Sound
<1>2. /\ t \in BotState /\ t.conn = s.conn /\ t.me = s.me /\ t.sendq = s.sendq /\ t.server = v
      /\ t.chan = s.chan
  BY <1>1 DEF BotState
<1> HIDE DEF t
<1>3. Linked(t) /\ Fresh(t)
  BY <1>2 DEF Good, Sound, Linked, Fresh
<1>4. Good(t)
  BY <1>2, <1>3 DEF Good, Sound
<1> QED BY <1>4 DEF t

\* The server gets a command.
LEMMA GetsGood ==
  ASSUME NEW s, Good(s), NEW cmd, NEW nick \in Nick
  PROVE  Good([s EXCEPT !.server = ServerGets(s.server, cmd, nick)])
<1> DEFINE v == ServerGets(s.server, cmd, nick)
<1>1. s.server \in ServerRecord
  BY PartsOf DEF Good, Sound
<1>2. /\ v \in ServerRecord /\ v.gotold = s.server.gotold
      /\ s.server.link # "open" => v = s.server
      /\ s.server.link = "open" => v.link \in {"open", "closed"}
      /\ \A mine : Knows(s.server, mine) => Knows(v, mine)
      /\ \A c : Aware(s.server, c) => Aware(v, c)
  BY <1>1, ServerGetsType
<1> HIDE DEF v
<1>3. v.link = "none" <=> s.server.link = "none"
  BY <1>2
<1>4. v.link = "none" => v.lines = s.server.lines /\ v.registered = s.server.registered /\ v.on = s.server.on
  BY <1>2
<1>5. Good([s EXCEPT !.server = v])
  BY <1>2, <1>3, <1>4, ServerGood
<1> QED BY <1>5 DEF v
-----------------------------------------------------------------------------
(* The invariant *)

NetworkInv == Good(Now) /\ faults \in 0..MaxFaults

\* What Now is made of.
LEMMA NowParts ==
  ASSUME Good(Now)
  PROVE  /\ Now \in BotState /\ Linked(Now) /\ Fresh(Now) /\ Knows(server, me.nick) /\ Aware(server, chan)
         /\ Now.conn = conn /\ Now.lookup = lookup /\ Now.me = me /\ Now.chan = chan
         /\ Now.sendq = sendq /\ Now.exiting = exiting /\ Now.server = server
  BY DEF Now, Good, Sound

\* A good state is the next one.
LEMMA BecomesGood ==
  ASSUME NEW t, Good(t), Becomes(t)
  PROVE  Good(Now')
<1>1. t \in BotState
  BY DEF Good, Sound
<1>2. Now' = t
  BY <1>1 DEF Now, Becomes, BotState
<1> QED BY <1>2

\* A pass of the main loop, with a second in it or without.
LEMMA PassGood ==
  ASSUME Good(Now), NEW e, Good(e), NEW f, Good(f), conn.status = "RESOLVING" => f.server.link = "none",
         Becomes(e) \/ Becomes(EverySecond(f, conn.status, TRUE))
  PROVE  Good(Now')
<1>1. Good(EverySecond(f, conn.status, TRUE))
  BY EverySecondGood
<1> QED BY <1>1, BecomesGood

\* What is counted stays counted.
LEMMA FaultType ==
  ASSUME faults \in 0..MaxFaults, Fault \/ UNCHANGED faults
  PROVE  faults' \in 0..MaxFaults
  BY NetworkAssumption DEF Fault

\* Initially.
LEMMA InitGood == Init => NetworkInv
<1> SUFFICES ASSUME Init PROVE NetworkInv
  OBVIOUS
<1>1. conn \in ConnRecord /\ conn.status = "NEED_TO_CONNECT"
  <2>1. MaxQuiet \in 0..MaxQuiet /\ 0 \in 0..waitjoin /\ 0 \in 0..MaxBackoff /\ 0 \in 0..3
    <3>1. MaxQuiet \in Nat
      BY NetworkAssumption DEF MaxQuiet, Patience
    <3> QED BY <3>1, Zeros
  <2> QED BY <2>1 DEF Init, ConnRecord, Status
<1>2. lookup \in LookupRecord /\ me \in MeRecord
  BY Zeros DEF Init, LookupRecord, MeRecord
<1>3. chan \in ChanRecord /\ exiting \in {"no", "yes", "exited"} /\ faults \in 0..MaxFaults
  BY NetworkAssumption DEF Init, ChanRecord
<1>4. sendq \in QueueOf(BOOLEAN)
  <2>1. /\ 0 \in 0..server_send_max /\ 0 \in 0..(slow_privmsg + 1) /\ 0 \in 0..RecentPings
        /\ <<>> \in Seq(MessageOf(BOOLEAN)) /\ <<>> \in Seq(AnnounceOf(BOOLEAN))
    BY Limits
  <2> QED BY <2>1 DEF Init, EmptyQueues, QueueOf
<1>5. /\ server \in ServerRecord /\ server.link = "none" /\ server.lines = <<>> /\ ~server.registered
      /\ ~server.on /\ ~server.gotold
  <2>1. PICK users \in Present :
          server = [link |-> "none", registered |-> FALSE, nick |-> 0, on |-> FALSE,
                    users |-> users, taken |-> {}, lines |-> <<>>, killed |-> FALSE,
                    gotold |-> FALSE]
    BY DEF Init
  <2>2. users \in SUBSET Person /\ <<>> \in Seq(Line) /\ 0 \in Nick /\ {} \in SUBSET {0, 1}
    BY NetworkAssumption, Zeros
  <2> QED BY <2>1, <2>2 DEF ServerRecord
<1>6. Now \in BotState
  BY <1>1, <1>2, <1>3, <1>4, <1>5 DEF Now, BotState
<1>7. Good(Now)
  BY <1>1, <1>5, <1>6 DEF Now, Good, Sound, Linked, Fresh, Knows, Aware
<1> QED BY <1>3, <1>7 DEF NetworkInv
-----------------------------------------------------------------------------
(* The actions *)

Kept == Good(Now') /\ (Fault \/ UNCHANGED faults)

\* The periodic work.
LEMMA PeriodsGood ==
  ASSUME Good(Now), Periods
  PROVE  Kept
<1>1. CASE FiveSeconds
  <2>1. Good(FiveWork)
    BY ProbeGood, PingServerGood DEF FiveWork
  <2>2. Becomes(FiveWork) /\ UNCHANGED faults
    BY <1>1 DEF FiveSeconds
  <2> QED BY <2>1, <2>2, BecomesGood DEF Kept
<1>2. CASE TwentySeconds
  <2> DEFINE t == IF Connected(Now) /\ ~chan.on THEN JoinChannel(Now) ELSE Now
  <2>1. Good(t)
    BY NowParts, JoinChannelGood
  <2>2. TwentyWork = Regain(t)
    BY DEF TwentyWork
  <2> HIDE DEF t
  <2>3. Regain(t) \in {t, Submit(t, "normal", "NICK", 0)}
    BY DEF Regain
  <2>4. Good(Submit(t, "normal", "NICK", 0))
    <3>1. "normal" \in Queue /\ "NICK" \in Command /\ 0 \in Nick
      BY Limits, Zeros DEF Queue
    <3> QED BY <2>1, <3>1, SubmitGood
  <2>5. Good(TwentyWork)
    BY <2>1, <2>2, <2>3, <2>4
  <2>6. Becomes(TwentyWork) /\ UNCHANGED faults
    BY <1>2 DEF TwentySeconds
  <2> QED BY <2>5, <2>6, BecomesGood DEF Kept
<1>3. ASSUME NEW forked \in BOOLEAN, Second(forked) PROVE Kept
  <2> DEFINE t == Tick(Now)
  <2>1. Good(t) /\ (conn.status = "RESOLVING" => t.server.link = "none")
    BY TickType, NowParts DEF Linked
  <2>2. Becomes(EverySecond(t, conn.status, forked)) /\ (Fault \/ UNCHANGED faults)
    BY <1>3 DEF Second, SecondWork
  <2> HIDE DEF t
  <2>3. Good(EverySecond(t, conn.status, forked))
    BY <2>1, EverySecondGood
  <2> QED BY <2>2, <2>3, BecomesGood DEF Kept
<1> QED BY <1>1, <1>2, <1>3 DEF Periods

\* The resolver.
LEMMA ResolverGood ==
  ASSUME Good(Now), ChildAnswers \/ ChildEnds \/ Reap \/ ReadAnswerFails
  PROVE  Kept
<1>1. /\ Now.lookup = lookup /\ Now.conn = conn /\ lookup \in LookupRecord /\ conn \in ConnRecord
      /\ conn.status = "RESOLVING" => Now.server.link = "none"
  BY NowParts, PartsOf DEF Linked
<1>2. ASSUME NEW l \in LookupRecord, lookup' = l, UNCHANGED <<conn, me, chan, sendq, exiting, server>>
      PROVE  Good(Now')
  <2>1. Good([Now EXCEPT !.lookup = l])
    BY OthersGood
  <2>2. Now' = [Now EXCEPT !.lookup = l]
    BY <1>2 DEF Now
  <2> QED BY <2>1, <2>2
<1>3. CASE ChildAnswers
  <2> DEFINE b == lookup.mine + 1 >= Addresses
             l == [lookup EXCEPT !.child = "done", !.answer = AnswerOf(lookup.mine), !.mine = 0, !.reset = b]
  <2>1. lookup' = l /\ UNCHANGED <<conn, me, chan, sendq, exiting, server, faults>>
    BY <1>3 DEF ChildAnswers
  <2>2. b \in BOOLEAN /\ AnswerOf(lookup.mine) \in 0..Addresses /\ 0 \in 0..Addresses
    BY <1>1, NetworkAssumption DEF AnswerOf, LookupRecord
  <2> HIDE DEF b
  <2>3. l \in LookupRecord
    BY <1>1, <2>2 DEF LookupRecord
  <2> HIDE DEF l
  <2> QED BY <1>2, <2>1, <2>3 DEF Kept
<1>4. CASE ChildEnds
  <2> DEFINE l == [lookup EXCEPT !.child = "dead", !.mine = 0]
  <2>1. lookup' = l /\ UNCHANGED <<conn, me, chan, sendq, exiting, server>> /\ (Fault \/ UNCHANGED faults)
    BY <1>4 DEF ChildEnds
  <2>2. l \in LookupRecord
    BY <1>1, Zeros DEF LookupRecord
  <2> HIDE DEF l
  <2> QED BY <1>2, <2>1, <2>2 DEF Kept
<1>5. CASE Reap
  <2> DEFINE status == IF conn.status = "RESOLVING" THEN "NEED_TO_CONNECT" ELSE conn.status
             t == To(Now, status)
             l == [t.lookup EXCEPT !.child = "none", !.answer = 0, !.reset = FALSE]
  <2>1. Becomes([t EXCEPT !.lookup = l]) /\ UNCHANGED faults
    BY <1>5 DEF Reap
  <2>2. status \in Status /\ (status = conn.status \/ (status = "NEED_TO_CONNECT" /\ Now.server.link = "none"))
    BY <1>1 DEF ConnRecord, Status
  <2> HIDE DEF status
  <2>3. Good(t) /\ t.lookup = lookup
    BY <1>1, <2>2, StatusGood
  <2> HIDE DEF t
  <2>4. l \in LookupRecord
    BY <1>1, <2>3, Zeros DEF LookupRecord
  <2> HIDE DEF l
  <2>5. Good([t EXCEPT !.lookup = l])
    BY <2>3, <2>4, OthersGood
  <2> QED BY <2>1, <2>5, BecomesGood DEF Kept
<1>6. CASE ReadAnswerFails
  <2> DEFINE t == To(Now, "NEED_TO_CONNECT")
             l == [t.lookup EXCEPT !.next = IF lookup.reset THEN 0 ELSE lookup.next, !.answer = 0, !.reset = FALSE]
  <2>1. Good(t) /\ t.lookup = lookup
    <3>1. conn.status = "RESOLVING" /\ "NEED_TO_CONNECT" \in Status
      BY <1>6 DEF ReadAnswerFails, Status
    <3> QED BY <1>1, <3>1, StatusGood
  <2>2. Becomes([t EXCEPT !.lookup = l]) /\ Fault
    BY <1>6 DEF ReadAnswerFails
  <2> HIDE DEF t
  <2>3. l \in LookupRecord
    BY <1>1, <2>1, Zeros DEF LookupRecord
  <2> HIDE DEF l
  <2>4. Good([t EXCEPT !.lookup = l])
    BY <2>1, <2>3, OthersGood
  <2> QED BY <2>2, <2>4, BecomesGood DEF Kept
<1> QED BY <1>3, <1>4, <1>5, <1>6

\* What happens on the network's socket.
LEMMA SocketGood ==
  ASSUME Good(Now),
         \/ ReadAnswer \/ ConnectFails
         \/ \E errno \in {"other", "EAGAIN"} : ReadEnd(errno)
         \/ \E r \in Result : ConnectDone(r) \/ HandshakeStep(r)
         \/ \E n \in Nat : Read(n)
  PROVE  Kept
<1> DEFINE t == Tick(Now)
<1>1. /\ Now.conn = conn /\ Now.server = server /\ Now \in BotState
      /\ conn.status = "RESOLVING" => Now.server.link = "none"
  BY NowParts DEF Linked
<1>2. Good(t) /\ t.conn.status = conn.status /\ t.server = server /\ t \in BotState
  <2>1. Good(t) /\ t.conn.status = conn.status /\ t.server = server
    BY <1>1, TickType
  <2> QED BY <2>1 DEF Good, Sound
<1> HIDE DEF t
<1>3. ASSUME NEW e, Good(e), NEW f, Good(f), conn.status = "RESOLVING" => f.server.link = "none", UNCHANGED faults,
             Becomes(e) \/ Becomes(EverySecond(f, conn.status, TRUE))
      PROVE  Kept
  <2>1. Good(Now')
    BY <1>3, PassGood
  <2> QED BY <1>3, <2>1 DEF Kept
<1>4. CASE ReadAnswer
  <2>1. /\ conn.status = "RESOLVING" /\ UNCHANGED faults
        /\ Becomes(Answered(Now)) \/ Becomes(EverySecond(Answered(t), conn.status, TRUE))
    BY <1>4 DEF ReadAnswer, Pass, t
  <2>2. Good(Answered(Now)) /\ Good(Answered(t)) /\ Answered(t).server = server
    BY <1>1, <1>2, <2>1, AnsweredGood
  <2>3. Answered(t).server.link = "none"
    BY <1>1, <2>1, <2>2
  <2> DEFINE e == Answered(Now)
             f == Answered(t)
  <2> HIDE DEF e, f
  <2>4. /\ Good(e) /\ Good(f) /\ f.server.link = "none" /\ UNCHANGED faults
        /\ Becomes(e) \/ Becomes(EverySecond(f, conn.status, TRUE))
    BY <2>1, <2>2, <2>3 DEF e, f
  <2> QED BY <1>3, <2>4
<1>5. CASE ConnectFails
  <2> DEFINE e == CloseServer([Now EXCEPT !.lookup.addr = 0])
             f == CloseServer([t EXCEPT !.lookup.addr = 0])
  <2>1. /\ conn.status = "TRYING" /\ UNCHANGED faults
        /\ Becomes(e) \/ Becomes(EverySecond(f, conn.status, TRUE))
    BY <1>5 DEF ConnectFails, Pass, t
  <2>2. ASSUME NEW s, Good(s) PROVE Good(CloseServer([s EXCEPT !.lookup.addr = 0]))
    <3> DEFINE l == [s.lookup EXCEPT !.addr = 0]
               u == [s EXCEPT !.lookup = l]
    <3>1. l \in LookupRecord
      <4>1. s.lookup \in LookupRecord /\ 0 \in 0..Addresses
        BY <2>2, PartsOf, Zeros DEF Good, Sound
      <4> QED BY <4>1 DEF LookupRecord
    <3> HIDE DEF l
    <3>2. Good(u)
      BY <2>2, <3>1, OthersGood
    <3> HIDE DEF u
    <3>3. Good(CloseServer(u))
      BY <3>2, CloseServerType DEF Good, Sound
    <3> QED BY <3>3 DEF u, l
  <2>3. Good(e) /\ Good(f)
    BY <1>2, <2>2
  <2> HIDE DEF e, f
  <2> QED BY <1>3, <2>1, <2>3
<1>6. ASSUME NEW errno, ReadEnd(errno) PROVE Kept
  <2> DEFINE e == Ended(Now, errno)
             f == Ended(t, errno)
  <2>1. /\ conn.status = "CONNECTED" /\ UNCHANGED faults
        /\ Becomes(e) \/ Becomes(EverySecond(f, conn.status, TRUE))
    BY <1>6 DEF ReadEnd, Pass, t
  <2>2. Good(e) /\ Good(f)
    BY <1>2, EndedGood
  <2> HIDE DEF e, f
  <2> QED BY <1>3, <2>1, <2>2
<1>7. ASSUME NEW r, ConnectDone(r) PROVE Kept
  <2> DEFINE e == HandshakeSsl(Established(Now), r)
             f == HandshakeSsl(Established(t), r)
  <2>1. /\ conn.status = "TRYING" /\ UNCHANGED faults
        /\ Becomes(e) \/ Becomes(EverySecond(f, conn.status, TRUE))
    BY <1>7 DEF ConnectDone, Pass, t
  <2>2. Good(e) /\ Good(f)
    BY <1>1, <1>2, <2>1, EstablishedGood
  <2> HIDE DEF e, f
  <2> QED BY <1>3, <2>1, <2>2
<1>8. ASSUME NEW r, HandshakeStep(r) PROVE Kept
  <2> DEFINE e == HandshakeSsl(Now, r)
             f == HandshakeSsl(t, r)
  <2>1. /\ conn.status = "SSL_HANDSHAKE" /\ UNCHANGED faults
        /\ Becomes(e) \/ Becomes(EverySecond(f, conn.status, TRUE))
    BY <1>8 DEF HandshakeStep, Pass, t
  <2>2. Good(e) /\ Good(f)
    BY <1>1, <1>2, <2>1, HandshakeSslGood
  <2> HIDE DEF e, f
  <2> QED BY <1>3, <2>1, <2>2
<1>9. ASSUME NEW n, Read(n) PROVE Kept
  <2> DEFINE e == LinesRead(Now, n)
             f == LinesRead(t, n)
  <2>1. /\ conn.status = "CONNECTED" /\ n \in DOMAIN server.lines /\ UNCHANGED faults
        /\ Becomes(e) \/ Becomes(EverySecond(f, conn.status, TRUE))
    BY <1>9 DEF Read, Pass, t
  <2>2. Good(e) /\ Good(f)
    BY <1>1, <1>2, <2>1, LinesReadGood
  <2> HIDE DEF e, f
  <2> QED BY <1>3, <2>1, <2>2
<1> QED BY <1>4, <1>5, <1>6, <1>7, <1>8, <1>9

\* The bot ends.
LEMMA ExitGood ==
  ASSUME Good(Now), Exit
  PROVE  Kept
<1>1. Good([Now EXCEPT !.exiting = "exited"])
  BY OthersGood
<1>2. Now' = [Now EXCEPT !.exiting = "exited"] /\ UNCHANGED faults
  BY DEF Exit, Now
<1> QED BY <1>1, <1>2 DEF Kept

\* What the owner and the rest of the bot do.
LEMMA OwnerGood ==
  ASSUME Good(Now), Owner
  PROVE  Kept
<1>1. /\ Now.conn = conn /\ Now.chan = chan /\ Now.server = server /\ Now.sendq = sendq /\ Now.me = me
      /\ Now \in BotState /\ conn \in ConnRecord /\ chan \in ChanRecord /\ sendq \in QueueOf(BOOLEAN)
      /\ ~server.gotold /\ Fresh(Now)
  BY NowParts, PartsOf DEF Good, Sound
<1>2. "normal" \in Queue /\ {"PART", "PRIVMSG", "QUIT"} \subseteq Command /\ 0 \in Nick
  BY Limits, Zeros DEF Queue
<1>3. ASSUME NEW s, Good(s)
      PROVE  Dropped(s.chan) \in ChanRecord /\ s.chan \in ChanRecord /\ Calm(s.chan, Dropped(s.chan))
  <2>1. s.chan \in ChanRecord
    BY <1>3, PartsOf DEF Good, Sound
  <2> QED BY <2>1 DEF Dropped, ChanRecord, Calm
<1>4. ASSUME NEW t, Good(t), Becomes(t), Fault \/ UNCHANGED faults PROVE Kept
  BY <1>4, BecomesGood DEF Kept
<1>5. ASSUME NEW type \in Queue, Say(type) PROVE Kept
  <2> DEFINE t == Submit(Now, type, "PRIVMSG", 0)
  <2>1. Good(t)
    BY <1>2, SubmitGood
  <2>2. Becomes(t) /\ Fault
    BY <1>5 DEF Say
  <2> HIDE DEF t
  <2> QED BY <1>4, <2>1, <2>2
<1>6. ASSUME NEW wait \in 0..1, Announce(wait) PROVE Kept
  <2> DEFINE a == [wait |-> wait, old |-> FALSE]
             f == Append(sendq.announce, a)
             q == [sendq EXCEPT !.announce = f]
  <2>1. sendq' = q /\ UNCHANGED <<conn, lookup, me, chan, exiting, server>> /\ Fault
    BY <1>6 DEF Announce
  <2>2. ASSUME NEW O, FALSE \in O, sendq \in QueueOf(O) PROVE q \in QueueOf(O)
    <3>1. sendq.announce \in Seq(AnnounceOf(O)) /\ a \in AnnounceOf(O)
      <4>1. sendq.announce \in Seq(AnnounceOf(O))
        BY <2>2 DEF QueueOf
      <4>2. wait \in Nat
        OBVIOUS
      <4>3. a \in AnnounceOf(O)
        BY <2>2, <4>2 DEF AnnounceOf
      <4> QED BY <4>1, <4>3
    <3> HIDE DEF a
    <3>2. f \in Seq(AnnounceOf(O))
      BY <3>1
    <3> HIDE DEF f
    <3> QED BY <2>2, <3>2 DEF QueueOf
  <2> HIDE DEF q
  <2>3. q \in QueueOf(BOOLEAN) /\ (Now.sendq \in QueueOf({FALSE}) => q \in QueueOf({FALSE}))
    BY <1>1, <2>2
  <2>4. Good([Now EXCEPT !.sendq = q])
    BY <2>3, OthersGood
  <2>5. Now' = [Now EXCEPT !.sendq = q]
    BY <2>1 DEF Now
  <2> QED BY <2>1, <2>4, <2>5 DEF Kept
<1>7. CASE Hop
  <2> DEFINE u == Submit(Now, "normal", "PART", 0)
             c == [u.chan EXCEPT !.members = {}, !.on = FALSE, !.kicked = FALSE]
             t == [u EXCEPT !.chan = c]
  <2>1. Becomes(JoinChannel(t)) /\ Fault
    BY <1>7 DEF Hop
  <2>2. Good(u) /\ u.chan = chan
    BY <1>1, <1>2, SubmitGood
  <2> HIDE DEF u
  <2>3. c \in ChanRecord /\ ~c.on /\ Calm(u.chan, c)
    BY <1>1, <2>2 DEF ChanRecord, Calm
  <2> HIDE DEF c
  <2>4. Good(t) /\ ~t.chan.on
    BY <2>2, <2>3, PartsGood
  <2> HIDE DEF t
  <2> QED BY <1>4, <2>1, <2>4, JoinChannelGood
<1>8. CASE Part
  <2> DEFINE u == Submit(Now, "normal", "PART", 0)
             c == Dropped(u.chan)
             t == [u EXCEPT !.chan = c]
  <2>1. Becomes(t) /\ Fault
    BY <1>8 DEF Part
  <2>2. Good(u)
    BY <1>2, SubmitGood
  <2> HIDE DEF u
  <2>3. c \in ChanRecord /\ Calm(u.chan, c)
    BY <1>3, <2>2
  <2> HIDE DEF c
  <2>4. Good(t)
    BY <2>2, <2>3, PartsGood
  <2> HIDE DEF t
  <2> QED BY <1>4, <2>1, <2>4
<1>9. CASE Join
  <2>1. Good(RehashChannels(Now, TRUE, TRUE)) /\ RehashChannels(Now, TRUE, TRUE) = Added(Now)
    <3>1. Good(RehashChannels(Now, TRUE, TRUE))
      BY RehashChannelsGood
    <3>2. ~Now.chan.known
      BY <1>1, <1>9 DEF Join
    <3> QED BY <3>1, <3>2 DEF RehashChannels
  <2>2. Becomes(Added(Now)) /\ Fault
    BY <1>9 DEF Join
  <2> QED BY <1>4, <2>1, <2>2
<1>10. CASE Offline
  <2> DEFINE u == QuitServer(Now)
             c == Dropped(u.chan)
             m == [u.me EXCEPT !.nick = 0]
             d == [u.conn EXCEPT !.offline = TRUE]
             t == [u EXCEPT !.chan = c, !.me = m, !.conn = d]
  <2>1. Becomes(t) /\ Fault
    BY <1>10 DEF Offline
  <2>2. Good(u) /\ Disconnected(u) /\ u \in BotState
    BY QuitServerType DEF Good, Sound
  <2> HIDE DEF u
  <2>3. c \in ChanRecord
    BY <1>3, <2>2
  <2>4. m \in MeRecord /\ d \in ConnRecord /\ d.status = u.conn.status
    <3>1. u.me \in MeRecord /\ u.conn \in ConnRecord /\ 0 \in Nick
      BY <2>2, PartsOf, Zeros
    <3> QED BY <3>1 DEF MeRecord, ConnRecord
  <2> HIDE DEF c, m, d
  <2>5. t \in BotState /\ t.conn = d /\ t.sendq = u.sendq /\ t.server = u.server
    BY <2>2, <2>3, <2>4 DEF BotState
  <2> HIDE DEF t
  <2>6. Sound(t)
    BY <2>2, <2>4, <2>5, Alike DEF Good
  <2>7. Good(t)
    BY <2>2, <2>5, <2>6 DEF Good, Disconnected, Knows, Aware
  <2> QED BY <1>4, <2>1, <2>7
<1>11. CASE Online
  <2> DEFINE c == [conn EXCEPT !.offline = FALSE]
  <2>1. conn' = c /\ UNCHANGED <<lookup, me, chan, sendq, exiting, server, faults>>
    BY <1>11 DEF Online
  <2>2. c \in ConnRecord /\ c.status = Now.conn.status
    BY <1>1 DEF ConnRecord
  <2> HIDE DEF c
  <2>3. Good([Now EXCEPT !.conn = c])
    BY <2>2, PartsGood
  <2>4. Now' = [Now EXCEPT !.conn = c]
    BY <2>1 DEF Now
  <2> QED BY <2>1, <2>3, <2>4 DEF Kept
<1>12. ASSUME NEW wanted \in BOOLEAN, NEW jump \in BOOLEAN, Rehash(wanted, jump) PROVE Kept
  <2> DEFINE u == [Now EXCEPT !.conn.offline = FALSE]
             s == RehashChannels(u, wanted, jump)
             x == [s EXCEPT !.conn.backoff = 0]
             t == IF jump THEN SwitchServer(x, TRUE) ELSE s
  <2>1. Becomes(t) /\ Fault
    BY <1>12 DEF Rehash
  <2>2. Good(u)
    BY ResetGood
  <2> HIDE DEF u
  <2>3. Good(s)
    BY <2>2, RehashChannelsGood
  <2> HIDE DEF s
  <2>4. Good(x)
    BY <2>3, ResetGood
  <2> HIDE DEF x
  <2>5. Good(t)
    BY <2>3, <2>4, SwitchServerGood
  <2> HIDE DEF t
  <2> QED BY <1>4, <2>1, <2>5
<1>13. ASSUME NEW forked \in BOOLEAN, Jump(forked) \/ Switch(forked) PROVE Kept
  <2> DEFINE x == [Now EXCEPT !.conn.backoff = 0]
  <2>1. Becomes(SwitchServer(x, forked)) \/ Becomes(SwitchServer(Now, forked))
    BY <1>13 DEF Jump, Switch
  <2>2. Fault
    BY <1>13 DEF Jump, Switch
  <2>3. Good(x)
    BY ResetGood
  <2> HIDE DEF x
  <2>4. Good(SwitchServer(x, forked)) /\ Good(SwitchServer(Now, forked))
    BY <2>3, SwitchServerGood
  <2> QED BY <1>4, <2>1, <2>2, <2>4
<1>14. ASSUME NEW left \in BOOLEAN, Shutdown(left) PROVE Kept
  <2> DEFINE d == [Now EXCEPT !.exiting = "exited"]
             q == Cleaned(sendq)
             s == [Now EXCEPT !.sendq = q]
             t == IF left THEN Submit(s, "normal", "PRIVMSG", 0) ELSE s
             u == [t EXCEPT !.server = ServerGets(t.server, "QUIT", 0)]
             x == [u EXCEPT !.exiting = "yes"]
  <2>1. UNCHANGED faults /\ (Becomes(d) \/ Becomes(x))
    <3>1. x = [t EXCEPT !.server = ServerGets(t.server, "QUIT", 0), !.exiting = "yes"]
      BY DEF x, u
    <3>2. s = [Now EXCEPT !.sendq = Cleaned(Now.sendq)]
      BY <1>1
    <3> HIDE DEF x, u
    <3> QED BY <1>14, <3>1, <3>2 DEF Shutdown
  <2>2. Good(d)
    BY OthersGood
  <2>3. Good(s)
    <3>1. q \in QueueOf(BOOLEAN) /\ q \in QueueOf({FALSE})
      <4>1. BOOLEAN \in Ghost /\ {FALSE} \in Ghost
        BY DEF Ghost
      <4> QED BY <1>1, <4>1, CleanedType
    <3> HIDE DEF q
    <3> QED BY <3>1, OthersGood
  <2> HIDE DEF s, d
  <2>4. Good(t)
    <3>1. Good(Submit(s, "normal", "PRIVMSG", 0))
      BY <1>2, <2>3, SubmitGood
    <3> QED BY <2>3, <3>1
  <2> HIDE DEF t
  <2>5. Good(u)
    BY <1>2, <2>4, GetsGood
  <2> HIDE DEF u
  <2>6. Good(x)
    BY <2>5, OthersGood
  <2> HIDE DEF x
  <2> QED BY <1>4, <2>1, <2>2, <2>6
<1> QED BY <1>5, <1>6, <1>7, <1>8, <1>9, <1>10, <1>11, <1>12, <1>13, <1>14 DEF Owner

\* A line that does not name us.
LEMMA SaysKnown ==
  ASSUME NEW v \in ServerRecord, NEW cmd \in LineCmd, cmd \notin {"001", "NICK_US"}, NEW who \in SUBSET Person
  PROVE  LET w == Says(v, cmd, who, 0)
         IN /\ w \in ServerRecord /\ w.link = v.link /\ w.registered = v.registered /\ w.on = v.on
            /\ w.gotold = v.gotold /\ w.nick = v.nick
            /\ \A mine : Knows(v, mine) => Knows(w, mine)
            /\ cmd \notin Telling => \A c : Aware(v, c) => Aware(w, c)
<1> DEFINE w == Says(v, cmd, who, 0)
<1>1. /\ w \in ServerRecord /\ w = [v EXCEPT !.lines = w.lines]
      /\ \A mine : Agrees(v.lines, mine, v.nick) => Agrees(w.lines, mine, w.nick)
      /\ cmd \notin Telling => \A c : Aware(v, c) => Aware(w, c)
  <2>1. 0 \in Nick
    BY Zeros
  <2> QED BY <2>1, SaysType
<1> HIDE DEF w
<1>2. /\ w.link = v.link /\ w.registered = v.registered /\ w.on = v.on
      /\ w.gotold = v.gotold /\ w.nick = v.nick
  BY <1>1 DEF ServerRecord
<1> QED BY <1>1, <1>2 DEF Knows, w

\* What the server and its other users do.
LEMMA WorldGood ==
  ASSUME Good(Now), World
  PROVE  Kept
<1>1. /\ Now.server = server /\ server \in ServerRecord /\ Now.me = me
      /\ server.link = "none" => server.lines = <<>> /\ ~server.registered /\ ~server.on
  BY NowParts, PartsOf DEF Linked
<1> DEFINE Fine(v) == /\ v \in ServerRecord /\ v.gotold = server.gotold
                      /\ v.link = "none" <=> server.link = "none"
                      /\ v.link = "none" => v.lines = server.lines /\ v.registered = server.registered /\ v.on = server.on
                      /\ \A mine : Knows(server, mine) => Knows(v, mine)
           Told(v) == \A c : Aware(server, c) => Aware(v, c)
<1>2. ASSUME NEW v, Fine(v), Told(v), Changes(v), Fault \/ UNCHANGED faults PROVE Kept
  <2>1. Good([Now EXCEPT !.server = v])
    BY <1>1, <1>2, ServerGood
  <2>2. Now' = [Now EXCEPT !.server = v]
    BY <1>2 DEF Now, Changes
  <2> QED BY <1>2, <2>1, <2>2 DEF Kept
<1>3. ASSUME NEW U \in SUBSET Person
      PROVE  LET u == [server EXCEPT !.users = U]
             IN Fine(u) /\ u.link = server.link /\ u.lines = server.lines /\ u.on = server.on /\ u.users = U
  BY <1>1 DEF ServerRecord, Knows
<1>13. ASSUME NEW u \in ServerRecord, u.link = server.link, u.lines = server.lines, u.on = server.on,
              NEW l \in Line, l.cmd # "JOIN_US",
              \A X \in SUBSET Person : server.users \subseteq X => u.users \subseteq Effect(X, l)
       PROVE  Told([u EXCEPT !.lines = Append(u.lines, l)])
  <2> DEFINE f == Append(u.lines, l)
             x == [u EXCEPT !.lines = f]
  <2>1. x.link = server.link /\ x.on = server.on /\ x.lines = f /\ x.users = u.users
    BY <1>13 DEF ServerRecord
  <2>2. server.lines \in Seq(Line)
    BY <1>1 DEF ServerRecord
  <2> HIDE DEF x
  <2>3. ASSUME NEW c, Aware(server, c) PROVE Aware(x, c)
    <3> DEFINE b == c.known /\ c.on
               m == c.members
               U == server.users
               W == u.users
    <3>1. ASSUME server.link = "open", server.on PROVE Covers(server.lines, 0, U, m, b)
      BY <2>3, <3>1 DEF Aware
    <3>2. \A X \in SUBSET Person : U \subseteq X => W \subseteq Effect(X, l)
      BY <1>13
    <3> HIDE DEF b, m, U, W
    <3>3. ASSUME server.link = "open", server.on PROVE Covers(f, 0, W, m, b)
      <4>1. Covers(server.lines, 0, U, m, b)
        BY <3>1, <3>3
      <4>2. Covers(Append(server.lines, l), 0, W, m, b)
        BY <1>13, <2>2, <3>2, <4>1, CoversAppend
      <4> QED BY <1>13, <4>2
    <3> HIDE DEF f
    <3> QED BY <2>1, <3>3 DEF Aware, b, m, W
  <2> QED BY <2>3 DEF x
<1>14. ASSUME NEW v, ~v.on \/ v.link # "open" PROVE Told(v)
  BY <1>14 DEF Aware
<1>4. ASSUME NEW u, Fine(u), u.on = server.on, NEW cmd \in {"JOIN", "LEAVE"}, NEW p \in Person
      PROVE  Fine(Tell(u, cmd, {p}))
  <2> DEFINE x == Says(u, cmd, {p}, 0)
  <2>1. CASE u.on
    <3>1. Tell(u, cmd, {p}) = x
      BY <2>1 DEF Tell
    <3>2. cmd \in LineCmd /\ cmd \notin {"001", "NICK_US"} /\ {p} \in SUBSET Person
      BY DEF LineCmd
    <3>3. /\ x \in ServerRecord /\ x.link = u.link /\ x.registered = u.registered /\ x.on = u.on
          /\ x.gotold = u.gotold /\ \A mine : Knows(u, mine) => Knows(x, mine)
      BY <1>4, <3>2, SaysKnown
    <3> HIDE DEF x
    <3>4. Fine(x)
      BY <1>1, <1>4, <2>1, <3>3
    <3> QED BY <3>1, <3>4
  <2>2. CASE ~u.on
    <3>1. Tell(u, cmd, {p}) = u
      BY <2>2 DEF Tell
    <3> QED BY <1>4, <3>1
  <2> QED BY <2>1, <2>2
<1>5. ASSUME NEW p \in Person, PersonJoins(p) \/ PersonLeaves(p) PROVE Kept
  <2> DEFINE u == [server EXCEPT !.users = server.users \cup {p}]
             w == [server EXCEPT !.users = server.users \ {p}]
  <2>1. Fine(u) /\ Fine(w) /\ u.on = server.on /\ w.on = server.on
    <3>1. server.users \cup {p} \in SUBSET Person /\ server.users \ {p} \in SUBSET Person
      BY <1>1 DEF ServerRecord
    <3> HIDE DEF Fine
    <3> QED BY <1>3, <3>1
  <2>2. Changes(Tell(u, "JOIN", {p})) \/ Changes(Tell(w, "LEAVE", {p}))
    BY <1>5 DEF PersonJoins, PersonLeaves
  <2>3. Fault
    BY <1>5 DEF PersonJoins, PersonLeaves
  <2>5. ASSUME NEW x \in ServerRecord, x.link = server.link, x.lines = server.lines, x.on = server.on,
               NEW cmd \in {"JOIN", "LEAVE"},
               \A X \in SUBSET Person : server.users \subseteq X =>
                 x.users \subseteq (IF cmd = "JOIN" THEN X \cup {p} ELSE X \ {p})
        PROVE  Told(Tell(x, cmd, {p}))
    <3> DEFINE l == [cmd |-> cmd, who |-> {p}, new |-> {}, nick |-> 0]
    <3>1. l \in Line /\ l.cmd # "JOIN_US" /\ \A X : Effect(X, l) = IF cmd = "JOIN" THEN X \cup {p} ELSE X \ {p}
      BY Zeros DEF Line, Effect
    <3>2. Tell(x, cmd, {p}) = IF x.on THEN [x EXCEPT !.lines = Append(x.lines, l)] ELSE x
      BY DEF Tell, Says
    <3> HIDE DEF l, Told
    <3>5. \A X \in SUBSET Person : server.users \subseteq X => x.users \subseteq Effect(X, l)
      BY <2>5, <3>1
    <3>6. x.link = server.link /\ x.lines = server.lines /\ x.on = server.on
      BY <2>5
    <3>7. l \in Line /\ l.cmd # "JOIN_US"
      BY <3>1
    <3>3. Told([x EXCEPT !.lines = Append(x.lines, l)])
      BY ONLY <1>13, <2>5, <3>5, <3>6, <3>7
    <3>4. ~x.on => Told(x)
      BY <1>14
    <3> QED BY <3>2, <3>3, <3>4
  <2>6. /\ u \in ServerRecord /\ u.link = server.link /\ u.lines = server.lines /\ u.on = server.on
        /\ u.users = server.users \cup {p}
        /\ w \in ServerRecord /\ w.link = server.link /\ w.lines = server.lines /\ w.on = server.on
        /\ w.users = server.users \ {p}
    BY <1>1 DEF ServerRecord
  <2> HIDE DEF Fine, u, w, Told
  <2>4. Fine(Tell(u, "JOIN", {p})) /\ Fine(Tell(w, "LEAVE", {p}))
    BY <1>4, <2>1
  <2>7. Told(Tell(u, "JOIN", {p}))
    <3>1. \A X \in SUBSET Person : server.users \subseteq X => u.users \subseteq X \cup {p}
      BY <2>6
    <3> QED BY <2>5, <2>6, <3>1
  <2>8. Told(Tell(w, "LEAVE", {p}))
    <3>1. \A X \in SUBSET Person : server.users \subseteq X => w.users \subseteq X \ {p}
      BY <2>6
    <3> QED BY <2>5, <2>6, <3>1
  <2> QED BY <1>2, <2>2, <2>3, <2>4, <2>7, <2>8
<1>6. ASSUME NEW p \in Person, NEW q \in Person, PersonRenames(p, q) PROVE Kept
  <2> DEFINE u == [server EXCEPT !.users = (server.users \ {p}) \cup {q}]
             l == [cmd |-> "NICK", who |-> {p}, new |-> {q}, nick |-> 0]
             f == Append(u.lines, l)
             x == [u EXCEPT !.lines = f]
  <2>1. Fine(u) /\ u.on = server.on /\ u.lines = server.lines
    <3>1. (server.users \ {p}) \cup {q} \in SUBSET Person
      BY <1>1 DEF ServerRecord
    <3> HIDE DEF Fine
    <3> QED BY <1>3, <3>1
  <2>2. Fault /\ ((~u.on /\ Changes(u)) \/ (u.on /\ Changes(x))) /\ p \in server.users
    BY <1>6 DEF PersonRenames, SaysNick
  <2>5. /\ u \in ServerRecord /\ u.link = server.link /\ u.lines = server.lines /\ u.on = server.on
        /\ u.users = (server.users \ {p}) \cup {q}
    BY <1>1 DEF ServerRecord
  <2> HIDE DEF u
  <2>3. l \in Line /\ ~Naming(l) /\ l.cmd # "JOIN_US"
    BY Zeros DEF Line, Naming
  <2>6. \A X \in SUBSET Person : server.users \subseteq X => u.users \subseteq Effect(X, l)
    BY <2>2, <2>5 DEF Effect
  <2> HIDE DEF l
  <2>7. Told(x) /\ (~u.on => Told(u))
    <3> HIDE DEF Told
    <3>1. Told(x)
      BY <1>13, <2>3, <2>5, <2>6
    <3> QED BY <3>1, <1>14
  <2>4. ASSUME u.on PROVE Fine(x)
    <3>1. u.lines \in Seq(Line)
      BY <2>1 DEF ServerRecord
    <3>2. f \in Seq(Line) /\ \A mine : Agrees(u.lines, mine, u.nick) => Agrees(f, mine, u.nick)
      BY <2>3, <3>1, AgreesAppend
    <3> HIDE DEF f
    <3>3. /\ x \in ServerRecord /\ x.lines = f /\ x.link = u.link /\ x.registered = u.registered /\ x.nick = u.nick
          /\ x.gotold = u.gotold
      BY <2>1, <3>2 DEF ServerRecord
    <3> HIDE DEF x
    <3>4. \A mine : Knows(u, mine) => Knows(x, mine)
      BY <3>2, <3>3 DEF Knows
    <3> QED BY <1>1, <2>1, <2>4, <3>3, <3>4
  <2> HIDE DEF Fine, x, Told
  <2> QED BY <1>2, <2>1, <2>2, <2>4, <2>7
<1>7. ASSUME NEW n \in {0, 1}, TakeNick(n) \/ FreeNick(n) PROVE Kept
  <2> DEFINE u == [server EXCEPT !.taken = server.taken \cup {n}]
             w == [server EXCEPT !.taken = server.taken \ {n}]
  <2>1. (Changes(u) \/ Changes(w)) /\ (Fault \/ UNCHANGED faults)
    BY <1>7 DEF TakeNick, FreeNick
  <2>2. server.taken \cup {n} \in SUBSET {0, 1} /\ server.taken \ {n} \in SUBSET {0, 1}
    BY <1>1 DEF ServerRecord
  <2>3. Fine(u) /\ Fine(w)
    BY <1>1, <2>2 DEF ServerRecord, Knows
  <2>4. Told(u) /\ Told(w)
    BY <1>1, <2>2 DEF ServerRecord, Aware
  <2> HIDE DEF Fine, u, w, Told
  <2> QED BY <1>2, <2>1, <2>3, <2>4
<1>8. CASE KickUs
  <2> DEFINE u == [server EXCEPT !.on = FALSE]
             x == Says(u, "KICK_US", {}, 0)
  <2>1. Changes(x) /\ Fault /\ server.on
    BY <1>8 DEF KickUs
  <2>2. /\ u \in ServerRecord /\ u.link = server.link /\ u.gotold = server.gotold /\ ~u.on
        /\ \A mine : Knows(server, mine) => Knows(u, mine)
    BY <1>1 DEF ServerRecord, Knows
  <2> HIDE DEF u
  <2>3. "KICK_US" \in LineCmd /\ "KICK_US" \notin {"001", "NICK_US"} /\ {} \in SUBSET Person
    BY DEF LineCmd
  <2>4. /\ x \in ServerRecord /\ x.link = u.link /\ x.gotold = u.gotold /\ ~x.on
        /\ \A mine : Knows(u, mine) => Knows(x, mine)
    BY <2>2, <2>3, SaysKnown
  <2> HIDE DEF x
  <2>5. Fine(x)
    BY <1>1, <2>1, <2>2, <2>4
  <2> HIDE DEF Fine, Told
  <2>6. Told(x)
    BY <1>14, <2>4
  <2> QED BY <1>2, <2>1, <2>5, <2>6
<1>9. ASSUME NEW u \in ServerRecord, u.gotold = server.gotold, server.link # "none"
      PROVE  Fine(HangsUp(u)) /\ Told(HangsUp(u))
  <2>1. HangsUp(u) \in ServerRecord /\ HangsUp(u).link = "closed" /\ HangsUp(u).gotold = u.gotold
    BY DEF HangsUp, ServerRecord
  <2> QED BY <1>9, <2>1 DEF Knows, Aware
<1>10. CASE KillUs
  <2> DEFINE u == [server EXCEPT !.killed = TRUE]
             x == Says(u, "QUIT_US", {}, 0)
             y == Says(x, "ERROR", {}, 0)
  <2>1. Changes(HangsUp(y)) /\ Fault /\ server.link # "none"
    BY <1>1, <1>10 DEF KillUs
  <2>2. u \in ServerRecord /\ u.gotold = server.gotold
    BY <1>1 DEF ServerRecord
  <2> HIDE DEF u
  <2>3. {"QUIT_US", "ERROR"} \subseteq LineCmd /\ "QUIT_US" \notin {"001", "NICK_US"}
        /\ "ERROR" \notin {"001", "NICK_US"} /\ {} \in SUBSET Person
    BY DEF LineCmd
  <2>4. x \in ServerRecord /\ x.gotold = u.gotold
    BY <2>2, <2>3, SaysKnown
  <2> HIDE DEF x
  <2>5. y \in ServerRecord /\ y.gotold = x.gotold
    BY <2>3, <2>4, SaysKnown
  <2> HIDE DEF y, Fine, Told
  <2> QED BY <1>2, <1>9, <2>1, <2>2, <2>4, <2>5
<1>11. ASSUME NEW says \in BOOLEAN, ServerDies(says) PROVE Kept
  <2> DEFINE x == Says(server, "ERROR", {}, 0)
  <2>1. (Changes(HangsUp(x)) \/ Changes(HangsUp(server))) /\ Fault /\ server.link # "none"
    BY <1>11 DEF ServerDies
  <2>2. x \in ServerRecord /\ x.gotold = server.gotold
    <3>1. "ERROR" \in LineCmd /\ "ERROR" \notin {"001", "NICK_US"} /\ {} \in SUBSET Person
      BY DEF LineCmd
    <3> QED BY <1>1, <3>1, SaysKnown
  <2> HIDE DEF x, Fine, Told
  <2> QED BY <1>1, <1>2, <1>9, <2>1, <2>2
<1>12. CASE GoesSilent
  <2> DEFINE u == [server EXCEPT !.link = "silent", !.lines = <<>>]
  <2>1. Changes(u) /\ Fault /\ server.link = "open"
    BY <1>12 DEF GoesSilent
  <2>2. u \in ServerRecord /\ u.gotold = server.gotold /\ u.link = "silent"
    BY <1>1, Zeros DEF ServerRecord
  <2> HIDE DEF u
  <2>3. Fine(u) /\ Told(u)
    BY <2>1, <2>2 DEF Knows, Aware
  <2> HIDE DEF Fine, Told
  <2> QED BY <1>2, <2>1, <2>3
<1> QED BY <1>5, <1>6, <1>7, <1>8, <1>10, <1>11, <1>12 DEF World

\* No step leaves the invariant.
LEMMA NetworkStep == NetworkInv /\ [Next]_vars => NetworkInv'
<1> SUFFICES ASSUME NetworkInv, [Next]_vars PROVE NetworkInv'
  OBVIOUS
<1>1. Good(Now) /\ faults \in 0..MaxFaults
  BY DEF NetworkInv
<1>2. ASSUME Kept PROVE NetworkInv'
  BY <1>1, <1>2, FaultType DEF NetworkInv, Kept
<1>3. CASE Events
  <2>1. ASSUME Handled PROVE Kept
    <3>1. CASE Reap
      BY <1>1, <3>1, ResolverGood
    <3>2. CASE Exit
      BY <1>1, <3>2, ExitGood
    <3>3. CASE ReadAnswer \/ ConnectFails \/ ReadEnd("other")
      BY <1>1, <3>3, SocketGood
    <3>4. CASE \E r \in Result : ConnectDone(r) \/ HandshakeStep(r)
      BY <1>1, <3>4, SocketGood
    <3>5. CASE \E n \in Nat : Read(n)
      BY <1>1, <3>5, SocketGood
    <3>6. 1..(MaxLines + 2) \subseteq Nat
      OBVIOUS
    <3> QED BY <2>1, <3>1, <3>2, <3>3, <3>4, <3>5, <3>6 DEF Handled
  <2>2. CASE ChildAnswers \/ ChildEnds \/ ReadAnswerFails
    BY <1>1, <1>2, <2>2, ResolverGood
  <2>3. CASE ReadEnd("EAGAIN")
    BY <1>1, <1>2, <2>3, SocketGood
  <2>4. CASE \E r \in Result : ConnectDone(r) \/ HandshakeStep(r)
    BY <1>1, <1>2, <2>4, SocketGood
  <2> QED BY <1>2, <1>3, <2>1, <2>2, <2>3, <2>4 DEF Events
<1>4. CASE Periods
  BY <1>1, <1>2, <1>4, PeriodsGood
<1>5. CASE Owner
  BY <1>1, <1>2, <1>5, OwnerGood
<1>6. CASE World
  BY <1>1, <1>2, <1>6, WorldGood
<1>7. CASE UNCHANGED vars
  <2>1. Now' = Now /\ UNCHANGED faults
    BY <1>7 DEF vars, Now
  <2> QED BY <1>1, <1>2, <2>1 DEF Kept
<1> QED BY <1>3, <1>4, <1>5, <1>6, <1>7 DEF Next
-----------------------------------------------------------------------------
(* The theorems *)

\* The invariant holds in every state.
THEOREM NetworkInvariant == Spec => []NetworkInv
  BY InitGood, NetworkStep, PTL DEF Spec

\* Types for every instance: whatever is said, sent, timed or asked for, the records of
\* the connection, the resolver, the channel, the queues and the server stay in shape.
THEOREM NetworkTypes == Spec => []TypeOK
<1>1. NetworkInv => TypeOK
  <2> SUFFICES ASSUME NetworkInv PROVE TypeOK
    OBVIOUS
  <2>1. /\ conn \in ConnRecord /\ lookup \in LookupRecord /\ me \in MeRecord /\ chan \in ChanRecord
        /\ sendq \in QueueOf(BOOLEAN) /\ exiting \in {"no", "yes", "exited"} /\ server \in ServerRecord
    BY NowParts, PartsOf DEF NetworkInv
  <2>2. sendq \in QueueRecord
    <3>1. MessageOf(BOOLEAN) \subseteq Message
      BY NetworkAssumption DEF MessageOf, Message, Nick
    <3>2. AnnounceOf(BOOLEAN) = [wait : Nat, old : BOOLEAN]
      BY DEF AnnounceOf
    <3>3. ASSUME NEW f \in Seq(MessageOf(BOOLEAN)) PROVE f \in Seq(Message)
      BY <3>1
    <3> QED BY <2>1, <3>2, <3>3 DEF QueueOf, QueueRecord
  <2> QED BY <2>1, <2>2 DEF NetworkInv, TypeOK, MeRecord
<1> QED BY <1>1, NetworkInvariant, PTL

\* NoStaleMessage for every instance: what was written for a connection that has been
\* closed since never reaches another server.
THEOREM NoStaleHolds == Spec => []NoStaleMessage
<1>1. NetworkInv => NoStaleMessage
  BY NowParts DEF NetworkInv, Good, Sound, NoStaleMessage
<1> QED BY <1>1, NetworkInvariant, PTL

\* NickBelief for every instance: with nothing on its way the bot believes to have the
\* nick the server knows it by.
THEOREM NickBeliefHolds == Spec => []NickBelief
<1>1. NetworkInv => NickBelief
  BY NowParts DEF NetworkInv, NickBelief, Settled, Knows, Agrees
<1> QED BY <1>1, NetworkInvariant, PTL

\* MembersKnown for every instance: with nothing on its way nobody who is in the channel
\* with the bot is missing in its list of members.
THEOREM MembersKnownHolds == Spec => []MembersKnown
<1>1. NetworkInv => MembersKnown
  <2> SUFFICES ASSUME NetworkInv, Settled, chan.known, chan.on, server.on
               PROVE  server.users \subseteq chan.members
    BY DEF MembersKnown
  <2>1. /\ server.lines = <<>> /\ Aware(server, chan) /\ server.link = "open"
        /\ chan \in ChanRecord
    BY NowParts, PartsOf DEF NetworkInv, Settled
  <2> DEFINE U == server.users
             M == chan.members
  <2>2. Covers(<<>>, 0, U, M, TRUE) /\ M \in SUBSET Person
    BY <2>1 DEF Aware, ChanRecord
  <2> HIDE DEF U, M
  <2>3. ASSUME NEW f \in [0..0 -> SUBSET Person], f[0] = M PROVE U \subseteq f[0]
    <3>1. Len(<<>>) = 0
      OBVIOUS
    <3>2. \A k \in (0 + 1)..0 : FALSE
      OBVIOUS
    <3> QED BY <2>2, <2>3, <3>1, <3>2 DEF Covers
  <2>4. [k \in 0..0 |-> M] \in [0..0 -> SUBSET Person] /\ [k \in 0..0 |-> M][0] = M
    BY <2>2
  <2> QED BY <2>3, <2>4 DEF U, M
<1> QED BY <1>1, NetworkInvariant, PTL
-----------------------------------------------------------------------------
(* What the bot believes of its channel *)

\* Whether it will believe to be in the channel with the lines after the n-th handled.
WillBelieve(L, n, on) ==
  \/ on /\ \A i \in (n + 1)..Len(L) : L[i].cmd # "KICK_US"
  \/ \E i \in (n + 1)..Len(L) :
       L[i].cmd = "JOIN_US" /\ \A j \in (i + 1)..Len(L) : L[j].cmd # "KICK_US"

\* Messages after the n-th: one of them is of this kind; the last of those that join or
\* leave joins.
Asks(S, n, cmd) == \E i \in (n + 1)..Len(S) : S[i].cmd = cmd
Stays(S, n) ==
  \E i \in (n + 1)..Len(S) : S[i].cmd = "JOIN" /\ \A j \in (i + 1)..Len(S) : S[j].cmd # "PART"
Plain(S) == \A i \in 1..Len(S) : S[i].cmd \notin {"JOIN", "PART"}

\* A line more.
LEMMA BelieveAppend ==
  ASSUME NEW T, NEW L \in Seq(T), NEW l \in T, NEW on \in BOOLEAN
  PROVE  WillBelieve(Append(L, l), 0, on) <=>
           (l.cmd = "JOIN_US" \/ (l.cmd # "KICK_US" /\ WillBelieve(L, 0, on)))
<1> DEFINE R == Append(L, l)
           n == Len(L)
<1>1. /\ n \in Nat /\ Len(R) = n + 1 /\ R[n + 1] = l /\ \A i \in 1..n : R[i] = L[i]
      /\ 1..(n + 1) = (1..n) \cup {n + 1}
  OBVIOUS
<1> HIDE DEF R, n
<1>2. (\A i \in 1..(n + 1) : R[i].cmd # "KICK_US") <=> (l.cmd # "KICK_US" /\ \A i \in 1..n : L[i].cmd # "KICK_US")
  BY <1>1
<1>3. ASSUME NEW i \in 1..n
      PROVE  (\A j \in (i + 1)..(n + 1) : R[j].cmd # "KICK_US") <=>
               (l.cmd # "KICK_US" /\ \A j \in (i + 1)..n : L[j].cmd # "KICK_US")
  <2>1. (i + 1)..(n + 1) = ((i + 1)..n) \cup {n + 1} /\ (i + 1)..n \subseteq 1..n
    BY <1>1
  <2> QED BY <1>1, <2>1
<1>4. (n + 1 + 1)..(n + 1) = {}
  BY <1>1
<1>5. (\E i \in 1..(n + 1) : R[i].cmd = "JOIN_US" /\ \A j \in (i + 1)..(n + 1) : R[j].cmd # "KICK_US") <=>
        \/ l.cmd = "JOIN_US"
        \/ l.cmd # "KICK_US" /\ \E i \in 1..n : L[i].cmd = "JOIN_US" /\ \A j \in (i + 1)..n : L[j].cmd # "KICK_US"
  <2>1. (R[n + 1].cmd = "JOIN_US" /\ \A j \in (n + 1 + 1)..(n + 1) : R[j].cmd # "KICK_US") <=> l.cmd = "JOIN_US"
    BY <1>1, <1>4
  <2> QED BY <1>1, <1>3, <2>1
<1>6. 0 + 1 = 1 /\ Len(L) = n
  BY DEF n
<1>7. WillBelieve(L, 0, on) <=>
        \/ on /\ \A i \in 1..n : L[i].cmd # "KICK_US"
        \/ \E i \in 1..n : L[i].cmd = "JOIN_US" /\ \A j \in (i + 1)..n : L[j].cmd # "KICK_US"
  BY <1>6 DEF WillBelieve
<1>8. WillBelieve(R, 0, on) <=>
        \/ on /\ \A i \in 1..(n + 1) : R[i].cmd # "KICK_US"
        \/ \E i \in 1..(n + 1) : R[i].cmd = "JOIN_US" /\ \A j \in (i + 1)..(n + 1) : R[j].cmd # "KICK_US"
  BY <1>1, <1>6 DEF WillBelieve
<1>9. WillBelieve(R, 0, on) <=> (l.cmd = "JOIN_US" \/ (l.cmd # "KICK_US" /\ WillBelieve(L, 0, on)))
  <2>1. "JOIN_US" # "KICK_US"
    OBVIOUS
  <2> QED BY <1>2, <1>5, <1>7, <1>8, <2>1
<1> QED BY <1>9 DEF R

\* A line is handled.
LEMMA BelieveStep ==
  ASSUME NEW T, NEW L \in Seq(T), NEW n \in 1..Len(L), NEW on \in BOOLEAN
  PROVE  WillBelieve(L, n - 1, on) <=>
           WillBelieve(L, n, L[n].cmd = "JOIN_US" \/ (on /\ L[n].cmd # "KICK_US"))
<1> DEFINE m == Len(L)
           A(i) == \A j \in (i + 1)..m : L[j].cmd # "KICK_US"
           J(i) == L[i].cmd = "JOIN_US"
           k == L[n].cmd = "KICK_US"
<1>1. n - 1 + 1 = n /\ n..m = {n} \cup ((n + 1)..m) /\ m \in Nat
  OBVIOUS
<1>2. A(n - 1) <=> (~k /\ A(n))
  BY <1>1
<1>3. (\E i \in n..m : J(i) /\ A(i)) <=> ((J(n) /\ A(n)) \/ \E i \in (n + 1)..m : J(i) /\ A(i))
  BY <1>1
<1>4. WillBelieve(L, n - 1, on) <=> ((on /\ A(n - 1)) \/ \E i \in n..m : J(i) /\ A(i))
  BY <1>1 DEF WillBelieve
<1>5. \A b : WillBelieve(L, n, b) <=> ((b /\ A(n)) \/ \E i \in (n + 1)..m : J(i) /\ A(i))
  BY DEF WillBelieve
<1> DEFINE E == \E i \in (n + 1)..m : J(i) /\ A(i)
<1>6. WillBelieve(L, n - 1, on) <=> ((on /\ ~k /\ A(n)) \/ (J(n) /\ A(n)) \/ E)
  BY <1>2, <1>3, <1>4
<1>7. WillBelieve(L, n, J(n) \/ (on /\ ~k)) <=> (((J(n) \/ (on /\ ~k)) /\ A(n)) \/ E)
  BY <1>5
<1> HIDE DEF A, J, E, k
<1>8. WillBelieve(L, n - 1, on) <=> WillBelieve(L, n, J(n) \/ (on /\ ~k))
  BY <1>6, <1>7
<1> QED BY <1>8 DEF J, k

\* What is left when n lines have been taken.
LEMMA BelieveRest ==
  ASSUME NEW T, NEW L \in Seq(T), NEW n \in 0..Len(L), NEW on \in BOOLEAN
  PROVE  WillBelieve(SubSeq(L, n + 1, Len(L)), 0, on) <=> WillBelieve(L, n, on)
<1> DEFINE R == SubSeq(L, n + 1, Len(L))
           m == Len(L)
<1>1. /\ m \in Nat /\ n \in Nat /\ n <= m /\ Len(R) = m - n /\ 0 + 1 = 1
      /\ \A i \in 1..(m - n) : R[i] = L[i + n] /\ i + n \in (n + 1)..m
      /\ \A i \in (n + 1)..m : i - n \in 1..(m - n) /\ L[i] = R[i - n]
  OBVIOUS
<1> HIDE DEF R, m
<1>2. (\A i \in 1..(m - n) : R[i].cmd # "KICK_US") <=> (\A i \in (n + 1)..m : L[i].cmd # "KICK_US")
  BY <1>1
<1>3. ASSUME NEW i \in 1..(m - n)
      PROVE  (\A j \in (i + 1)..(m - n) : R[j].cmd # "KICK_US") <=> (\A j \in (i + n + 1)..m : L[j].cmd # "KICK_US")
  <2>1. \A j \in (i + 1)..(m - n) : j + n \in (i + n + 1)..m /\ R[j] = L[j + n]
    BY <1>1
  <2>2. \A j \in (i + n + 1)..m : j - n \in (i + 1)..(m - n) /\ L[j] = R[j - n]
    BY <1>1
  <2> QED BY <2>1, <2>2
<1>4. (\E i \in 1..(m - n) : R[i].cmd = "JOIN_US" /\ \A j \in (i + 1)..(m - n) : R[j].cmd # "KICK_US") <=>
        \E i \in (n + 1)..m : L[i].cmd = "JOIN_US" /\ \A j \in (i + 1)..m : L[j].cmd # "KICK_US"
  <2>1. ASSUME NEW i \in 1..(m - n), R[i].cmd = "JOIN_US", \A j \in (i + 1)..(m - n) : R[j].cmd # "KICK_US"
        PROVE  \E h \in (n + 1)..m : L[h].cmd = "JOIN_US" /\ \A j \in (h + 1)..m : L[j].cmd # "KICK_US"
    <3>1. i + n \in (n + 1)..m /\ L[i + n].cmd = "JOIN_US"
      BY <1>1, <2>1
    <3>2. \A j \in (i + n + 1)..m : L[j].cmd # "KICK_US"
      BY <1>3, <2>1
    <3> QED BY <3>1, <3>2
  <2>2. ASSUME NEW i \in (n + 1)..m, L[i].cmd = "JOIN_US", \A j \in (i + 1)..m : L[j].cmd # "KICK_US"
        PROVE  \E h \in 1..(m - n) : R[h].cmd = "JOIN_US" /\ \A j \in (h + 1)..(m - n) : R[j].cmd # "KICK_US"
    <3>1. i - n \in 1..(m - n) /\ R[i - n].cmd = "JOIN_US" /\ i - n + n + 1 = i + 1
      BY <1>1, <2>2
    <3>2. \A j \in (i - n + 1)..(m - n) : R[j].cmd # "KICK_US"
      BY <1>3, <2>2, <3>1
    <3> QED BY <3>1, <3>2
  <2> QED BY <2>1, <2>2
<1>5. WillBelieve(R, 0, on) <=> WillBelieve(L, n, on)
  <2>1. WillBelieve(R, 0, on) <=>
          \/ on /\ \A i \in 1..(m - n) : R[i].cmd # "KICK_US"
          \/ \E i \in 1..(m - n) : R[i].cmd = "JOIN_US" /\ \A j \in (i + 1)..(m - n) : R[j].cmd # "KICK_US"
    BY <1>1 DEF WillBelieve
  <2>2. WillBelieve(L, n, on) <=>
          \/ on /\ \A i \in (n + 1)..m : L[i].cmd # "KICK_US"
          \/ \E i \in (n + 1)..m : L[i].cmd = "JOIN_US" /\ \A j \in (i + 1)..m : L[j].cmd # "KICK_US"
    BY DEF WillBelieve, m
  <2> QED BY <1>2, <1>4, <2>1, <2>2
<1> QED BY <1>5 DEF R, m

\* Two queues in a row.
LEMMA AsksBoth ==
  ASSUME NEW T, NEW S \in Seq(T), NEW R \in Seq(T)
  PROVE  /\ \A cmd : Asks(S \o R, 0, cmd) <=> Asks(S, 0, cmd) \/ Asks(R, 0, cmd)
         /\ Stays(S \o R, 0) <=> Stays(R, 0) \/ (Stays(S, 0) /\ ~Asks(R, 0, "PART"))
<1> DEFINE Q == S \o R
           m == Len(S)
           n == Len(R)
           K(i) == Q[i].cmd = "JOIN" /\ \A j \in (i + 1)..(m + n) : Q[j].cmd # "PART"
<1>1. /\ Q \in Seq(T) /\ m \in Nat /\ n \in Nat /\ Len(Q) = m + n /\ 0 + 1 = 1
      /\ \A i \in 1..m : Q[i] = S[i] /\ i \in 1..(m + n)
      /\ \A i \in 1..n : Q[i + m] = R[i] /\ i + m \in 1..(m + n)
      /\ \A i \in 1..(m + n) : i \in 1..m \/ (i - m \in 1..n /\ Q[i] = R[i - m] /\ i - m + m = i)
  OBVIOUS
<1> HIDE DEF Q, m, n
<1>11. /\ \A cmd : Asks(Q, 0, cmd) <=> \E i \in 1..(m + n) : Q[i].cmd = cmd
       /\ \A cmd : Asks(S, 0, cmd) <=> \E i \in 1..m : S[i].cmd = cmd
       /\ \A cmd : Asks(R, 0, cmd) <=> \E i \in 1..n : R[i].cmd = cmd
  <2>1. Len(Q) = m + n /\ Len(S) = m /\ Len(R) = n /\ 0 + 1 = 1
    BY <1>1 DEF m, n
  <2> QED BY <2>1 DEF Asks
<1>2. ASSUME NEW cmd PROVE Asks(Q, 0, cmd) <=> Asks(S, 0, cmd) \/ Asks(R, 0, cmd)
  <2>1. ASSUME NEW i \in 1..(m + n), Q[i].cmd = cmd
        PROVE  (\E j \in 1..m : S[j].cmd = cmd) \/ \E j \in 1..n : R[j].cmd = cmd
    BY <1>1, <2>1
  <2>2. ASSUME NEW i \in 1..m, S[i].cmd = cmd PROVE \E j \in 1..(m + n) : Q[j].cmd = cmd
    BY <1>1, <2>2
  <2>3. ASSUME NEW i \in 1..n, R[i].cmd = cmd PROVE \E j \in 1..(m + n) : Q[j].cmd = cmd
    BY <1>1, <2>3
  <2> QED BY <1>11, <2>1, <2>2, <2>3
<1>3. ASSUME NEW i \in 1..m
      PROVE  K(i) <=> (S[i].cmd = "JOIN" /\ (\A j \in (i + 1)..m : S[j].cmd # "PART")) /\ ~Asks(R, 0, "PART")
  <2>1. \A j \in (i + 1)..(m + n) : j \in (i + 1)..m \/ (j - m \in 1..n /\ Q[j] = R[j - m])
    BY <1>1
  <2>2. (\A j \in (i + 1)..m : j \in (i + 1)..(m + n) /\ Q[j] = S[j])
        /\ \A j \in 1..n : j + m \in (i + 1)..(m + n) /\ Q[j + m] = R[j]
    BY <1>1
  <2>3. Asks(R, 0, "PART") <=> \E j \in 1..n : R[j].cmd = "PART"
    BY <1>11
  <2>4. Q[i] = S[i]
    BY <1>1
  <2>5. ASSUME K(i) PROVE (\A j \in (i + 1)..m : S[j].cmd # "PART") /\ ~Asks(R, 0, "PART")
    <3>1. \A j \in (i + 1)..m : S[j].cmd # "PART"
      BY <2>2, <2>5
    <3>2. \A j \in 1..n : R[j].cmd # "PART"
      BY <2>2, <2>5
    <3> QED BY <2>3, <3>1, <3>2
  <2>6. ASSUME S[i].cmd = "JOIN", \A j \in (i + 1)..m : S[j].cmd # "PART", ~Asks(R, 0, "PART") PROVE K(i)
    <3>1. ASSUME NEW j \in (i + 1)..(m + n) PROVE Q[j].cmd # "PART"
      <4>1. CASE j \in (i + 1)..m
        BY <2>2, <2>6, <4>1
      <4>2. CASE j - m \in 1..n /\ Q[j] = R[j - m]
        BY <2>3, <2>6, <4>2
      <4> QED BY <2>1, <4>1, <4>2
    <3> QED BY <2>4, <2>6, <3>1
  <2> QED BY <2>4, <2>5, <2>6
<1>4. ASSUME NEW i \in 1..n
      PROVE  K(i + m) <=> R[i].cmd = "JOIN" /\ \A j \in (i + 1)..n : R[j].cmd # "PART"
  <2>1. \A j \in (i + m + 1)..(m + n) : j - m \in (i + 1)..n /\ Q[j] = R[j - m]
    BY <1>1
  <2>2. \A j \in (i + 1)..n : j + m \in (i + m + 1)..(m + n) /\ Q[j + m] = R[j]
    BY <1>1
  <2>3. Q[i + m] = R[i]
    BY <1>1
  <2>4. (\A j \in (i + m + 1)..(m + n) : Q[j].cmd # "PART") <=> \A j \in (i + 1)..n : R[j].cmd # "PART"
    BY <2>1, <2>2
  <2> QED BY <2>3, <2>4
<1>5. Stays(Q, 0) <=> \E i \in 1..(m + n) : K(i)
  BY <1>1 DEF Stays
<1>6. Stays(S, 0) <=> \E i \in 1..m : S[i].cmd = "JOIN" /\ \A j \in (i + 1)..m : S[j].cmd # "PART"
  BY <1>1 DEF Stays, m
<1>7. Stays(R, 0) <=> \E i \in 1..n : R[i].cmd = "JOIN" /\ \A j \in (i + 1)..n : R[j].cmd # "PART"
  BY <1>1 DEF Stays, n
<1> HIDE DEF K
<1>8. (\E i \in 1..(m + n) : K(i)) <=> (\E i \in 1..m : K(i)) \/ (\E i \in 1..n : K(i + m))
  BY <1>1
<1>9. Stays(Q, 0) <=> Stays(R, 0) \/ (Stays(S, 0) /\ ~Asks(R, 0, "PART"))
  BY <1>3, <1>4, <1>5, <1>6, <1>7, <1>8
<1> QED BY <1>2, <1>9 DEF Q

\* A queue that is cut in two.
LEMMA AsksCut ==
  ASSUME NEW T, NEW S \in Seq(T), NEW n \in 0..Len(S)
  PROVE  LET A == SubSeq(S, 1, n)
             B == SubSeq(S, n + 1, Len(S))
         IN /\ \A cmd : Asks(S, 0, cmd) <=> Asks(A, 0, cmd) \/ Asks(B, 0, cmd)
            /\ Stays(S, 0) <=> Stays(B, 0) \/ (Stays(A, 0) /\ ~Asks(B, 0, "PART"))
<1> DEFINE A == SubSeq(S, 1, n)
           B == SubSeq(S, n + 1, Len(S))
<1>1. A \in Seq(T) /\ B \in Seq(T) /\ S = A \o B
  <2>1. /\ A \in Seq(T) /\ Len(A) = n /\ \A i \in 1..n : A[i] = S[i]
        /\ B \in Seq(T) /\ Len(B) = Len(S) - n /\ \A i \in 1..(Len(S) - n) : B[i] = S[i + n]
        /\ n \in Nat /\ Len(S) \in Nat /\ n <= Len(S)
    BY PartsType
  <2> HIDE DEF A, B
  <2>2. A \o B \in Seq(T) /\ Len(A \o B) = Len(S)
    BY <2>1
  <2>3. ASSUME NEW i \in 1..Len(S) PROVE S[i] = (A \o B)[i]
    <3>1. CASE i \in 1..n
      BY <2>1, <3>1
    <3>2. CASE i \notin 1..n
      <4>1. i - n \in 1..(Len(S) - n) /\ (A \o B)[i] = B[i - n]
        BY <2>1, <3>2
      <4> QED BY <2>1, <4>1
    <3> QED BY <3>1, <3>2
  <2> QED BY <2>1, <2>2, <2>3, SeqEqual
<1> HIDE DEF A, B
<1>2. /\ \A cmd : Asks(A \o B, 0, cmd) <=> Asks(A, 0, cmd) \/ Asks(B, 0, cmd)
      /\ Stays(A \o B, 0) <=> Stays(B, 0) \/ (Stays(A, 0) /\ ~Asks(B, 0, "PART"))
  BY <1>1, AsksBoth
<1> QED BY <1>1, <1>2 DEF A, B

\* A message is taken.
LEMMA AsksStep ==
  ASSUME NEW T, NEW S \in Seq(T), NEW n \in 1..Len(S)
  PROVE  /\ \A cmd : Asks(S, n - 1, cmd) <=> S[n].cmd = cmd \/ Asks(S, n, cmd)
         /\ Stays(S, n - 1) <=> Stays(S, n) \/ (S[n].cmd = "JOIN" /\ ~Asks(S, n, "PART"))
<1> DEFINE m == Len(S)
           K(i) == S[i].cmd = "JOIN" /\ \A j \in (i + 1)..m : S[j].cmd # "PART"
<1>1. n - 1 + 1 = n /\ n..m = {n} \cup ((n + 1)..m) /\ m \in Nat
  OBVIOUS
<1>2. \A cmd : Asks(S, n - 1, cmd) <=> S[n].cmd = cmd \/ Asks(S, n, cmd)
  BY <1>1 DEF Asks
<1>3. K(n) <=> S[n].cmd = "JOIN" /\ ~Asks(S, n, "PART")
  BY DEF Asks
<1>4. (Stays(S, n - 1) <=> \E i \in n..m : K(i)) /\ (Stays(S, n) <=> \E i \in (n + 1)..m : K(i))
  BY <1>1 DEF Stays
<1> HIDE DEF K, m
<1>5. Stays(S, n - 1) <=> Stays(S, n) \/ (S[n].cmd = "JOIN" /\ ~Asks(S, n, "PART"))
  BY <1>1, <1>3, <1>4
<1> QED BY <1>2, <1>5

\* Nothing asks for nothing.
LEMMA AsksNone ==
  /\ \A cmd : ~Asks(<<>>, 0, cmd)
  /\ ~Stays(<<>>, 0)
  /\ \A S : Len(S) \in Nat => (\A cmd : ~Asks(S, Len(S), cmd)) /\ ~Stays(S, Len(S))
<1>1. Len(<<>>) = 0 /\ \A n \in Nat : (n + 1)..n = {}
  OBVIOUS
<1> QED BY <1>1 DEF Asks, Stays

\* One message more.
LEMMA AsksAppend ==
  ASSUME NEW T, NEW S \in Seq(T), NEW x \in T
  PROVE  /\ \A cmd : Asks(Append(S, x), 0, cmd) <=> Asks(S, 0, cmd) \/ x.cmd = cmd
         /\ Stays(Append(S, x), 0) <=> x.cmd = "JOIN" \/ (Stays(S, 0) /\ x.cmd # "PART")
<1> DEFINE R == <<x>>
<1>1. R \in Seq(T) /\ Append(S, x) = S \o R /\ Len(R) = 1 /\ R[1] = x /\ (0 + 1)..1 = {1} /\ (1 + 1)..1 = {}
  OBVIOUS
<1> HIDE DEF R
<1>2. (\A cmd : Asks(R, 0, cmd) <=> x.cmd = cmd) /\ (Stays(R, 0) <=> x.cmd = "JOIN")
  BY <1>1 DEF Asks, Stays
<1>3. /\ \A cmd : Asks(S \o R, 0, cmd) <=> Asks(S, 0, cmd) \/ Asks(R, 0, cmd)
      /\ Stays(S \o R, 0) <=> Stays(R, 0) \/ (Stays(S, 0) /\ ~Asks(R, 0, "PART"))
  BY <1>1, AsksBoth
<1> QED BY <1>1, <1>2, <1>3

\* Messages of other kinds ask for nothing.
LEMMA AsksPlain ==
  ASSUME NEW S, Plain(S)
  PROVE  ~Asks(S, 0, "JOIN") /\ ~Asks(S, 0, "PART") /\ ~Stays(S, 0)
<1>1. 0 + 1 = 1
  OBVIOUS
<1> QED BY <1>1 DEF Plain, Asks, Stays

\* What goes out in a queue's turn is the first part of it.
LEMMA SendFromCut ==
  ASSUME NEW O \in Ghost, NEW r \in SentOf(O), NEW type \in Queue
  PROVE  LET t == SendFrom(r, type)
         IN /\ t \in SentOf(O)
            /\ \A x \in Queue \ {type} : t.q[x] = r.q[x]
            /\ \E n \in 0..Len(r.q[type]) :
                 /\ t.sent = r.sent \o SubSeq(r.q[type], 1, n)
                 /\ t.q[type] = SubSeq(r.q[type], n + 1, Len(r.q[type]))
<1> DEFINE S == r.q[type]
           n == Due(r.q, type)
           all == Passing(S, r.q.bucket)
           t == SendFrom(r, type)
<1>1. t \in SentOf(O)
  BY SendFromType
<1>2. r.q \in QueueOf(O) /\ S \in Seq(MessageOf(O)) /\ r.q.bucket \in Nat
  BY Limits DEF SentOf, QueueOf, Queue
<1>3. n \in 0..all
  <2>1. all \in Nat
    BY <1>2, PassingNat
  <2>2. n = IF type # "slow" THEN all
            ELSE IF r.q.slowage <= slow_privmsg THEN 0
            ELSE IF slow_privmsg > 0 THEN Min2(all, 1) ELSE all
    BY DEF Due
  <2> HIDE DEF all, n
  <2> QED BY <2>1, <2>2 DEF Min2
<1>4. n \in 0..Len(S)
  <2> HIDE DEF n, S
  <2> QED BY <1>2, <1>3, PassingFits
<1>5. /\ t.sent = r.sent \o SubSeq(S, 1, n) /\ t.q[type] = SubSeq(S, n + 1, Len(S))
      /\ \A x \in Queue \ {type} : t.q[x] = r.q[x]
  <2> DEFINE u == [Take(r.q, type, n) EXCEPT !.slowage = IF type = "slow" /\ n > 0 THEN 0 ELSE @]
  <2>1. t = [q |-> u, sent |-> r.sent \o SubSeq(S, 1, n)]
    BY DEF SendFrom
  <2>2. u[type] = SubSeq(S, n + 1, Len(S)) /\ \A x \in Queue \ {type} : u[x] = r.q[x]
    <3> HIDE DEF n
    <3> QED BY <1>2 DEF Take, QueueOf, Queue
  <2> HIDE DEF u, t, n
  <2> QED BY <2>1, <2>2
<1> HIDE DEF t, n
<1> QED BY <1>1, <1>4, <1>5 DEF t

\* What has gone out and what waits, in this order.
Quiet(q) == Plain(q.fast) /\ Plain(q.slow)
AsksIn(sent, k, S, cmd) == Asks(sent, k, cmd) \/ Asks(S, 0, cmd)
StaysIn(sent, k, S) == Stays(S, 0) \/ (Stays(sent, k) /\ ~Asks(S, 0, "PART"))
Like(S, sent, R) ==
  /\ \A cmd \in {"JOIN", "PART"} : AsksIn(sent, 0, R, cmd) <=> Asks(S, 0, cmd)
  /\ StaysIn(sent, 0, R) <=> Stays(S, 0)

\* No turn changes what they ask for together.
LEMMA SendFromLike ==
  ASSUME NEW O \in Ghost, NEW r \in SentOf(O), NEW type \in Queue, Quiet(r.q), NEW S,
         Like(S, r.sent, r.q.normal)
  PROVE  LET t == SendFrom(r, type) IN t \in SentOf(O) /\ Quiet(t.q) /\ Like(S, t.sent, t.q.normal)
<1> DEFINE t == SendFrom(r, type)
           Q == r.q[type]
<1>1. /\ t \in SentOf(O)
      /\ \A x \in Queue \ {type} : t.q[x] = r.q[x]
      /\ \E n \in 0..Len(Q) : t.sent = r.sent \o SubSeq(Q, 1, n) /\ t.q[type] = SubSeq(Q, n + 1, Len(Q))
  BY SendFromCut
<1> HIDE DEF t
<1>2. PICK n \in 0..Len(Q) : t.sent = r.sent \o SubSeq(Q, 1, n) /\ t.q[type] = SubSeq(Q, n + 1, Len(Q))
  BY <1>1
<1> DEFINE A == SubSeq(Q, 1, n)
           B == SubSeq(Q, n + 1, Len(Q))
<1>3. /\ Q \in Seq(MessageOf(O)) /\ r.sent \in Seq(MessageOf(O)) /\ r.q.normal \in Seq(MessageOf(O))
      /\ A \in Seq(MessageOf(O)) /\ B \in Seq(MessageOf(O))
  <2>1. Q \in Seq(MessageOf(O)) /\ r.sent \in Seq(MessageOf(O)) /\ r.q.normal \in Seq(MessageOf(O))
    BY DEF SentOf, QueueOf, Queue
  <2> QED BY <2>1, PartsType
<1>4. Plain(Q) => Plain(A) /\ Plain(B)
  BY <1>3 DEF Plain
<1>5. /\ \A cmd : Asks(Q, 0, cmd) <=> Asks(A, 0, cmd) \/ Asks(B, 0, cmd)
      /\ Stays(Q, 0) <=> Stays(B, 0) \/ (Stays(A, 0) /\ ~Asks(B, 0, "PART"))
  <2> HIDE DEF Q
  <2> QED BY <1>3, AsksCut
<1> HIDE DEF A, B, Q
<1>6. /\ \A cmd : Asks(r.sent \o A, 0, cmd) <=> Asks(r.sent, 0, cmd) \/ Asks(A, 0, cmd)
      /\ Stays(r.sent \o A, 0) <=> Stays(A, 0) \/ (Stays(r.sent, 0) /\ ~Asks(A, 0, "PART"))
  BY <1>3, AsksBoth
<1>7. t.sent = r.sent \o A /\ t.q[type] = B
  BY <1>2 DEF A, B
<1>8. CASE type = "normal"
  <2>1. t.q.normal = B /\ t.q.fast = r.q.fast /\ t.q.slow = r.q.slow /\ r.q.normal = Q
    BY <1>1, <1>7, <1>8 DEF Queue, Q
  <2>2. Quiet(t.q)
    BY <2>1 DEF Quiet
  <2>3. Like(S, r.sent \o A, B)
    <3>1. Like(S, r.sent, Q)
      BY <2>1
    <3> QED BY <1>5, <1>6, <3>1 DEF Like, AsksIn, StaysIn
  <2> QED BY <1>1, <1>7, <2>1, <2>2, <2>3 DEF t
<1>9. CASE type # "normal"
  <2>1. Plain(Q)
    BY <1>9 DEF Q, Quiet, Queue
  <2>2. t.q.normal = r.q.normal
    BY <1>1, <1>9 DEF Queue
  <2>3. Plain(t.q.fast) /\ Plain(t.q.slow)
    <3>1. CASE type = "fast"
      <4>1. t.q.fast = B /\ t.q.slow = r.q.slow
        BY <1>1, <1>7, <3>1 DEF Queue
      <4> QED BY <1>4, <2>1, <4>1 DEF Quiet
    <3>2. CASE type = "slow"
      <4>1. t.q.slow = B /\ t.q.fast = r.q.fast
        BY <1>1, <1>7, <3>2 DEF Queue
      <4> QED BY <1>4, <2>1, <4>1 DEF Quiet
    <3> QED BY <1>9, <3>1, <3>2 DEF Queue
  <2>4. ~Asks(A, 0, "JOIN") /\ ~Asks(A, 0, "PART") /\ ~Stays(A, 0)
    BY <1>4, <2>1, AsksPlain
  <2>5. Like(S, r.sent \o A, r.q.normal)
    BY <1>6, <2>4 DEF Like, AsksIn, StaysIn
  <2> QED BY <1>1, <1>7, <2>2, <2>3, <2>5 DEF t, Quiet
<1> QED BY <1>8, <1>9

\* A second's work does not, either; announcements ask for nothing.
LEMMA SendQueueLike ==
  ASSUME NEW O \in Ghost, NEW q \in QueueOf(O), Quiet(q)
  PROVE  LET r == SendQueue(q)
         IN r \in SentOf(O) /\ Quiet(r.q) /\ Like(q.normal, r.sent, r.q.normal)
<1> DEFINE a == Refilled(Announced(q))
           start == [q |-> a, sent |-> <<>>]
           S == q.normal
<1>1. a \in QueueOf(O) /\ a.fast = q.fast /\ a.slow = q.slow
  <2>1. a \in QueueOf(O)
    BY AnnouncedType, RefilledType
  <2>2. a.fast = q.fast /\ a.slow = q.slow
    BY DEF Refilled, Announced, QueueOf
  <2> QED BY <2>1, <2>2
<1>2. /\ \A cmd \in {"JOIN", "PART"} : Asks(a.normal, 0, cmd) <=> Asks(S, 0, cmd)
      /\ Stays(a.normal, 0) <=> Stays(S, 0)
  <2> DEFINE now == {i \in DOMAIN q.announce : q.announce[i].wait = 0}
             due == Keep(q.announce, now)
             room == Min2(Len(due), IF Len(q.normal) < MAXSENDQ THEN MAXSENDQ - Len(q.normal) ELSE 0)
             new == [i \in 1..room |-> [Write("PRIVMSG", 0) EXCEPT !.old = due[i].old]]
  <2>1. a.normal = S \o new
    BY DEF Refilled, Announced, QueueOf
  <2>2. room \in Nat
    <3>1. q.announce \in Seq(AnnounceOf(O)) /\ q.normal \in Seq(MessageOf(O)) /\ now \subseteq DOMAIN q.announce
      BY DEF QueueOf
    <3> HIDE DEF now
    <3>2. due \in Seq(AnnounceOf(O))
      BY <3>1, KeepType
    <3> HIDE DEF due
    <3>3. Len(due) \in Nat /\ Len(q.normal) \in Nat
      BY <3>1, <3>2
    <3> QED BY <3>3, Limits DEF Min2
  <2> HIDE DEF room, due
  <2>3. \A i \in 1..room : new[i].cmd = "PRIVMSG"
    BY DEF Write
  <2> DEFINE T == MessageOf(O) \cup {new[i] : i \in 1..room}
  <2>4. new \in Seq(T) /\ Len(new) = room
    BY <2>2
  <2>5. S \in Seq(T)
    <3>1. S \in Seq(MessageOf(O))
      BY DEF QueueOf
    <3> HIDE DEF S, new
    <3> QED BY <3>1
  <2>6. Plain(new)
    BY <2>3, <2>4 DEF Plain
  <2> HIDE DEF new, T, S
  <2>7. ~Asks(new, 0, "JOIN") /\ ~Asks(new, 0, "PART") /\ ~Stays(new, 0)
    BY <2>6, AsksPlain
  <2>8. /\ \A cmd : Asks(S \o new, 0, cmd) <=> Asks(S, 0, cmd) \/ Asks(new, 0, cmd)
        /\ Stays(S \o new, 0) <=> Stays(new, 0) \/ (Stays(S, 0) /\ ~Asks(new, 0, "PART"))
    BY <2>4, <2>5, AsksBoth
  <2> QED BY <2>1, <2>7, <2>8
<1> HIDE DEF a
<1>3. start \in SentOf(O) /\ Quiet(start.q) /\ Like(S, start.sent, start.q.normal)
  <2>1. start \in SentOf(O)
    <3>1. <<>> \in Seq(MessageOf(O))
      OBVIOUS
    <3> QED BY <1>1, <3>1 DEF SentOf
  <2>2. Quiet(start.q)
    BY <1>1 DEF Quiet
  <2>3. Like(S, <<>>, a.normal)
    BY <1>2, AsksNone DEF Like, AsksIn, StaysIn
  <2> QED BY <2>1, <2>2, <2>3
<1> DEFINE x == SendFrom(start, "fast")
           y == SendFrom(x, "normal")
           z == SendFrom(y, "slow")
<1>4. SendQueue(q) \in {z, [z EXCEPT !.q.recentsent = RecentPings]}
  BY DEF SendQueue, a
<1> HIDE DEF start, S
<1>5. x \in SentOf(O) /\ Quiet(x.q) /\ Like(S, x.sent, x.q.normal)
  BY <1>3, SendFromLike DEF Queue
<1> HIDE DEF x
<1>6. y \in SentOf(O) /\ Quiet(y.q) /\ Like(S, y.sent, y.q.normal)
  BY <1>5, SendFromLike DEF Queue
<1> HIDE DEF y
<1>7. z \in SentOf(O) /\ Quiet(z.q) /\ Like(S, z.sent, z.q.normal)
  BY <1>6, SendFromLike DEF Queue
<1> HIDE DEF z
<1> DEFINE w == [z EXCEPT !.q.recentsent = RecentPings]
<1>8. w.sent = z.sent /\ w.q.normal = z.q.normal /\ w.q.fast = z.q.fast /\ w.q.slow = z.q.slow
  BY <1>7 DEF SentOf, QueueOf
<1> HIDE DEF w
<1>9. Quiet(w.q) /\ Like(S, w.sent, w.q.normal)
  BY <1>7, <1>8 DEF Quiet
<1>10. SendQueue(q) \in SentOf(O)
  BY SendQueueType
<1> QED BY <1>4, <1>7, <1>9, <1>10 DEF w, S

\* Staying means to join, and who joins and never leaves stays.
LEMMA StaysAsks ==
  ASSUME NEW S, Len(S) \in Nat, NEW k \in 0..Len(S)
  PROVE  /\ Stays(S, k) => Asks(S, k, "JOIN")
         /\ Asks(S, k, "JOIN") /\ ~Asks(S, k, "PART") => Stays(S, k)
<1>1. \A i \in (k + 1)..Len(S) : (i + 1)..Len(S) \subseteq (k + 1)..Len(S)
  OBVIOUS
<1> QED BY <1>1 DEF Stays, Asks

LEMMA StaysInAsks ==
  ASSUME NEW sent, Len(sent) \in Nat, NEW k \in 0..Len(sent), NEW S, Len(S) \in Nat
  PROVE  /\ StaysIn(sent, k, S) => AsksIn(sent, k, S, "JOIN")
         /\ AsksIn(sent, k, S, "JOIN") /\ ~AsksIn(sent, k, S, "PART") => StaysIn(sent, k, S)
<1>1. 0 \in 0..Len(S)
  OBVIOUS
<1>2. /\ Stays(sent, k) => Asks(sent, k, "JOIN")
      /\ Asks(sent, k, "JOIN") /\ ~Asks(sent, k, "PART") => Stays(sent, k)
  BY StaysAsks
<1>3. /\ Stays(S, 0) => Asks(S, 0, "JOIN")
      /\ Asks(S, 0, "JOIN") /\ ~Asks(S, 0, "PART") => Stays(S, 0)
  BY <1>1, StaysAsks
<1> QED BY <1>2, <1>3 DEF StaysIn, AsksIn
-----------------------------------------------------------------------------
(* The belief and the server *)

\* The bot will believe b and is in the channel if v; what waits asks to join (join), to
\* leave (leave), and in the end to join (stay).  When all of it has gone out and has been
\* answered, what the bot believes is so.
Fits(b, v, join, leave, stay) ==
  /\ join => stay /\ (b \/ ~v \/ leave)
  /\ ~join => (b <=> v /\ ~leave)

\* The states of the channel in which the bot is expected to know.
Trusted(c) == c.known /\ ~c.lost /\ ~(c.kicked /\ c.on)
Unasked(L, n) == \A i \in (n + 1)..Len(L) : L[i].cmd # "JOIN_US"
Outside(L, n, c, v) == ~v.on /\ ~c.on /\ Unasked(L, n)

\* What the bot believes of the channel c, with the lines after the n-th to handle.  Before
\* it may join (early) it has not, nor has it been asked to.
Minds(v, L, n, c, early, join, leave, stay) ==
  v.link = "open" =>
    /\ ~v.registered => Outside(L, n, c, v)
    /\ early => Outside(L, n, c, v) /\ ~join
    /\ Trusted(c) => Fits(WillBelieve(L, n, c.on), v.on, join, leave, stay)

\* Who is outside does not come to believe anything else.
LEMMA OutsideBelieves ==
  ASSUME NEW L, NEW n, Unasked(L, n)
  PROVE  ~WillBelieve(L, n, FALSE)
  BY DEF Unasked, WillBelieve

\* Lines and servers that are alike.
LEMMA MindsAlike ==
  ASSUME NEW v, NEW w, NEW L, NEW K, NEW m, NEW n, NEW c, NEW early, NEW join, NEW leave, NEW stay,
         Minds(v, L, m, c, early, join, leave, stay),
         w.link = "open" => v.link = "open", w.on = v.on, v.registered => w.registered,
         WillBelieve(K, n, c.on) <=> WillBelieve(L, m, c.on),
         Unasked(L, m) => Unasked(K, n)
  PROVE  Minds(w, K, n, c, early, join, leave, stay)
<1> SUFFICES ASSUME w.link = "open"
             PROVE  /\ ~w.registered => Outside(K, n, c, w)
                    /\ early => Outside(K, n, c, w) /\ ~join
                    /\ Trusted(c) => Fits(WillBelieve(K, n, c.on), w.on, join, leave, stay)
  BY DEF Minds
<1>1. /\ ~v.registered => Outside(L, m, c, v)
      /\ early => Outside(L, m, c, v) /\ ~join
      /\ Trusted(c) => Fits(WillBelieve(L, m, c.on), v.on, join, leave, stay)
  BY DEF Minds
<1>2. Outside(L, m, c, v) => Outside(K, n, c, w)
  BY DEF Outside
<1>3. WillBelieve(K, n, c.on) <=> WillBelieve(L, m, c.on)
  OBVIOUS
<1>4. Fits(WillBelieve(L, m, c.on), v.on, join, leave, stay) => Fits(WillBelieve(K, n, c.on), w.on, join, leave, stay)
  BY <1>3 DEF Fits
<1> QED BY <1>1, <1>2, <1>4

\* A line that says nothing of us.
LEMMA MindsLine ==
  ASSUME NEW v \in ServerRecord, NEW w, NEW l \in Line, NEW c \in ChanRecord,
         NEW early, NEW join, NEW leave, NEW stay,
         Minds(v, v.lines, 0, c, early, join, leave, stay),
         w.link = "open" => v.link = "open", w.on = v.on, v.registered => w.registered,
         w.lines = Append(v.lines, l), l.cmd \notin {"JOIN_US", "KICK_US"}
  PROVE  Minds(w, w.lines, 0, c, early, join, leave, stay)
<1>1. v.lines \in Seq(Line) /\ c.on \in BOOLEAN
  BY DEF ServerRecord, ChanRecord
<1>2. WillBelieve(w.lines, 0, c.on) <=> WillBelieve(v.lines, 0, c.on)
  BY <1>1, BelieveAppend
<1>3. Unasked(v.lines, 0) => Unasked(w.lines, 0)
  <2>1. /\ Len(w.lines) = Len(v.lines) + 1 /\ Len(v.lines) \in Nat /\ w.lines[Len(v.lines) + 1] = l
        /\ \A i \in 1..Len(v.lines) : w.lines[i] = v.lines[i]
    BY <1>1
  <2>2. \A i \in 1..Len(w.lines) : i \in 1..Len(v.lines) \/ i = Len(v.lines) + 1
    BY <2>1
  <2>3. 0 + 1 = 1
    OBVIOUS
  <2> QED BY <2>1, <2>2, <2>3 DEF Unasked
<1> DEFINE L == v.lines
           K == w.lines
<1>4. /\ Minds(v, L, 0, c, early, join, leave, stay)
      /\ WillBelieve(K, 0, c.on) <=> WillBelieve(L, 0, c.on)
      /\ Unasked(L, 0) => Unasked(K, 0)
  BY <1>2, <1>3
<1> HIDE DEF L, K
<1>6. /\ w.link = "open" => v.link = "open"
      /\ w.on = v.on
      /\ v.registered => w.registered
  OBVIOUS
<1>5. Minds(w, K, 0, c, early, join, leave, stay)
  BY ONLY <1>4, <1>6, MindsAlike
<1> QED BY <1>5 DEF K

\* A line is said; nothing else changes.
Adds(v, w, cmd) ==
  /\ w \in ServerRecord /\ w.link = v.link /\ w.on = v.on /\ w.registered = v.registered
  /\ \E l \in Line : l.cmd = cmd /\ w.lines = Append(v.lines, l)

\* So it is with every line.
LEMMA SaysLine ==
  ASSUME NEW v \in ServerRecord, NEW cmd \in LineCmd, NEW who \in SUBSET Person, NEW nick \in Nick
  PROVE  Adds(v, Says(v, cmd, who, nick), cmd)
<1> DEFINE l == [cmd |-> cmd, who |-> who, new |-> {}, nick |-> nick]
           w == Says(v, cmd, who, nick)
<1>1. l \in Line /\ l.cmd = cmd
  BY Zeros DEF Line, LineCmd
<1>2. w = [v EXCEPT !.lines = Append(v.lines, l)]
  BY DEF Says
<1>4. w \in ServerRecord
  BY SaysType
<1> HIDE DEF l, w
<1>3. w.lines = Append(v.lines, l) /\ w.link = v.link /\ w.on = v.on /\ w.registered = v.registered
  BY <1>2 DEF ServerRecord
<1>5. Adds(v, w, cmd)
  BY <1>1, <1>3, <1>4 DEF Adds
<1> QED BY <1>5 DEF w

\* What a command does to our place in the channel.
Joins(v, w) ==
  /\ v.registered /\ ~v.on /\ w.registered /\ w.on
  /\ \E a, b \in Line : a.cmd = "JOIN_US" /\ b.cmd = "353" /\ w.lines = Append(Append(v.lines, a), b)
Parts(v, w) ==
  /\ v.on /\ ~w.on /\ w.registered = v.registered
  /\ \E l \in Line : l.cmd = "PART_US" /\ w.lines = Append(v.lines, l)
Rests(v, w) ==
  /\ w.on = v.on /\ (v.registered => w.registered)
  /\ \/ w.lines = v.lines
     \/ \E l \in Line : l.cmd \notin {"JOIN_US", "KICK_US"} /\ w.lines = Append(v.lines, l)

LEMMA ServerGetsEffect ==
  ASSUME NEW v \in ServerRecord, NEW cmd, NEW nick \in Nick
  PROVE  LET w == ServerGets(v, cmd, nick)
         IN \/ w.link # "open"
            \/ v.link = "open" /\ cmd = "JOIN" /\ Joins(v, w)
            \/ v.link = "open" /\ cmd = "PART" /\ Parts(v, w)
            \/ /\ v.link = "open" /\ Rests(v, w)
               /\ cmd = "JOIN" => ~v.registered \/ v.on
               /\ cmd = "PART" => ~v.on
<1> DEFINE w == ServerGets(v, cmd, nick)
           Other == /\ v.link = "open" /\ Rests(v, w)
                    /\ cmd = "JOIN" => ~v.registered \/ v.on
                    /\ cmd = "PART" => ~v.on
<1>0. {} \in SUBSET Person /\ 0 \in Nick
  BY Zeros
<1>1. CASE v.link # "open"
  BY <1>1 DEF ServerGets
<1>2. CASE v.link = "open" /\ w = v
  <2>1. ~(cmd = "JOIN" /\ v.registered /\ ~v.on)
    <3> SUFFICES ASSUME cmd = "JOIN", v.registered, ~v.on PROVE FALSE
      OBVIOUS
    <3>1. w = Says(Says([v EXCEPT !.on = TRUE], "JOIN_US", {}, 0), "353", v.users, 0)
      BY <1>2 DEF ServerGets
    <3>2. w.on = TRUE
      BY <3>1 DEF Says, ServerRecord
    <3> HIDE DEF w
    <3> QED BY <1>2, <3>2
  <2>2. ~(cmd = "PART" /\ v.on)
    <3> SUFFICES ASSUME cmd = "PART", v.on PROVE FALSE
      OBVIOUS
    <3>1. w = Says([v EXCEPT !.on = FALSE], "PART_US", {}, 0)
      BY <1>2 DEF ServerGets
    <3>2. w.on = FALSE
      BY <3>1 DEF Says, ServerRecord
    <3> HIDE DEF w
    <3> QED BY <1>2, <3>2
  <2> HIDE DEF w
  <2>3. Rests(v, w)
    BY <1>2 DEF Rests
  <2> QED BY <1>2, <2>1, <2>2, <2>3 DEF w
<1>3. ASSUME NEW u \in ServerRecord, u.on = v.on, u.lines = v.lines, v.registered => u.registered,
             NEW c \in LineCmd \ {"JOIN_US", "KICK_US"}, NEW k \in Nick, w = Says(u, c, {}, k)
      PROVE  Rests(v, w)
  <2> HIDE DEF w
  <2>1. Adds(u, w, c)
    <3>1. c \in LineCmd
      BY <1>3
    <3>2. Adds(u, Says(u, c, {}, k), c)
      BY <1>0, <3>1, SaysLine
    <3> QED BY <1>3, <3>2
  <2> QED BY <1>3, <2>1 DEF Rests, Adds
<1>4. CASE v.link = "open" /\ cmd = "NICK" /\ w # v
  <2> DEFINE u == [v EXCEPT !.registered = TRUE, !.nick = nick]
             c == IF v.registered THEN "NICK_US" ELSE "001"
  <2>1. w = Says(v, "433", {}, nick) \/ w = Says(u, c, {}, nick)
    BY <1>4 DEF ServerGets
  <2>2. u \in ServerRecord /\ u.on = v.on /\ u.lines = v.lines /\ u.registered
    BY DEF ServerRecord
  <2>3. c \in LineCmd \ {"JOIN_US", "KICK_US"} /\ "433" \in LineCmd \ {"JOIN_US", "KICK_US"}
    BY DEF LineCmd
  <2> HIDE DEF w, u, c
  <2>4. Rests(v, w)
    BY <1>3, <2>1, <2>2, <2>3
  <2> QED BY <1>4, <2>4 DEF w
<1>5. CASE v.link = "open" /\ cmd = "PING" /\ w # v
  <2>1. w = Says(v, "PONG", {}, 0)
    BY <1>5 DEF ServerGets
  <2>2. "PONG" \in LineCmd \ {"JOIN_US", "KICK_US"}
    BY DEF LineCmd
  <2> HIDE DEF w
  <2>3. Rests(v, w)
    BY <1>0, <1>3, <2>1, <2>2
  <2> QED BY <1>5, <2>3 DEF w
<1>6. CASE v.link = "open" /\ cmd = "QUIT"
  <2>1. w = HangsUp(Says(v, "ERROR", {}, 0))
    BY <1>6 DEF ServerGets
  <2>2. "ERROR" \in LineCmd
    BY DEF LineCmd
  <2>3. Says(v, "ERROR", {}, 0) \in ServerRecord
    BY <1>0, <2>2, SaysLine DEF Adds
  <2>4. w.link = "closed"
    BY <2>1, <2>3 DEF HangsUp, ServerRecord
  <2> QED BY <2>4
<1>7. CASE v.link = "open" /\ cmd = "PART" /\ v.on
  <2> DEFINE u == [v EXCEPT !.on = FALSE]
  <2>1. w = Says(u, "PART_US", {}, 0)
    BY <1>7 DEF ServerGets
  <2>2. u \in ServerRecord /\ ~u.on /\ u.lines = v.lines /\ u.registered = v.registered
    BY DEF ServerRecord
  <2>3. "PART_US" \in LineCmd
    BY DEF LineCmd
  <2> HIDE DEF u, w
  <2>4. Adds(u, Says(u, "PART_US", {}, 0), "PART_US")
    BY <1>0, <2>2, <2>3, SaysLine
  <2>5. Parts(v, w)
    BY <1>7, <2>1, <2>2, <2>4 DEF Parts, Adds
  <2> QED BY <1>7, <2>5 DEF w
<1>8. CASE v.link = "open" /\ cmd = "JOIN" /\ v.registered /\ ~v.on
  <2> DEFINE u == [v EXCEPT !.on = TRUE]
             x == Says(u, "JOIN_US", {}, 0)
  <2>1. w = Says(x, "353", v.users, 0)
    BY <1>8 DEF ServerGets
  <2>2. u \in ServerRecord /\ u.on /\ u.lines = v.lines /\ u.registered = v.registered /\ v.users \in SUBSET Person
    BY DEF ServerRecord
  <2>3. "JOIN_US" \in LineCmd /\ "353" \in LineCmd
    BY DEF LineCmd
  <2> HIDE DEF u, w
  <2>4. Adds(u, x, "JOIN_US")
    BY <1>0, <2>2, <2>3, SaysLine
  <2> HIDE DEF x
  <2>7. x \in ServerRecord
    BY <2>4 DEF Adds
  <2>5. Adds(x, Says(x, "353", v.users, 0), "353")
    BY <1>0, <2>2, <2>3, <2>7, SaysLine
  <2>6. Joins(v, w)
    BY <1>8, <2>1, <2>2, <2>4, <2>5 DEF Joins, Adds
  <2> QED BY <1>8, <2>6 DEF w
<1>9. CASE /\ v.link = "open" /\ cmd # "NICK" /\ cmd # "PING" /\ cmd # "QUIT"
           /\ ~(cmd = "JOIN" /\ v.registered /\ ~v.on) /\ ~(cmd = "PART" /\ v.on)
  <2>1. w = v
    BY <1>9 DEF ServerGets
  <2> HIDE DEF w
  <2> QED BY <1>2, <1>9, <2>1
<1> HIDE DEF w
<1> QED BY <1>1, <1>2, <1>4, <1>5, <1>6, <1>7, <1>8, <1>9 DEF w

\* No JOIN of ours comes with such a line.
LEMMA UnaskedRests ==
  ASSUME NEW v, v.lines \in Seq(Line), NEW w, Rests(v, w), Unasked(v.lines, 0)
  PROVE  Unasked(w.lines, 0)
<1>1. CASE w.lines = v.lines
  BY <1>1
<1>2. ASSUME NEW l \in Line, l.cmd # "JOIN_US", w.lines = Append(v.lines, l)
      PROVE  Unasked(w.lines, 0)
  <2> DEFINE n == Len(v.lines)
  <2>1. /\ n \in Nat /\ Len(w.lines) = n + 1 /\ w.lines[n + 1] = l /\ 0 + 1 = 1
        /\ \A i \in 1..n : w.lines[i] = v.lines[i]
        /\ \A i \in 1..(n + 1) : i \in 1..n \/ i = n + 1
    BY <1>2
  <2> QED BY <1>2, <2>1 DEF Unasked
<1> QED BY <1>1, <1>2 DEF Rests

\* A message has gone out: what it asked for has been done or is on its way, the rest waits.
LEMMA FitsAfter ==
  ASSUME NEW b \in BOOLEAN, NEW v \in BOOLEAN, NEW join \in BOOLEAN, NEW leave \in BOOLEAN, NEW stay \in BOOLEAN,
         stay => join, join /\ ~leave => stay
  PROVE  /\ Fits(b, FALSE, TRUE, leave, stay \/ ~leave) => Fits(TRUE, TRUE, join, leave, stay)
         /\ Fits(b, TRUE, TRUE, leave, stay \/ ~leave) => Fits(b, TRUE, join, leave, stay)
         /\ Fits(FALSE, FALSE, TRUE, leave, stay \/ ~leave) => Fits(FALSE, FALSE, join, leave, stay)
         /\ Fits(b, v, join, TRUE, stay) => Fits(b, FALSE, join, leave, stay)
  BY DEF Fits

\* A server that gets a message.
LEMMA GetsMinds ==
  ASSUME NEW v \in ServerRecord, NEW cmd, NEW nick \in Nick, NEW c \in ChanRecord, NEW early \in BOOLEAN,
         NEW join \in BOOLEAN, NEW leave \in BOOLEAN, NEW stay \in BOOLEAN,
         stay => join, join /\ ~leave => stay,
         Minds(v, v.lines, 0, c, early, cmd = "JOIN" \/ join, cmd = "PART" \/ leave,
               stay \/ (cmd = "JOIN" /\ ~leave)),
         NEW w, w = ServerGets(v, cmd, nick)
  PROVE  Minds(w, w.lines, 0, c, early, join, leave, stay)
<1> DEFINE b == WillBelieve(v.lines, 0, c.on)
           d == WillBelieve(w.lines, 0, c.on)
<1>0. c.on \in BOOLEAN /\ v.on \in BOOLEAN /\ v.lines \in Seq(Line) /\ b \in BOOLEAN /\ d \in BOOLEAN /\ w.on \in BOOLEAN
  <2>1. w \in ServerRecord
    BY ServerGetsType
  <2> QED BY <2>1 DEF ChanRecord, ServerRecord, WillBelieve
<1>1. CASE w.link # "open"
  BY <1>1 DEF Minds
<1>2. CASE w.link = "open" /\ v.link = "open" /\ cmd = "JOIN" /\ Joins(v, w)
  <2>1. v.registered /\ ~v.on /\ w.registered /\ w.on
    BY <1>2 DEF Joins
  <2>2. d
    <3>1. PICK x \in Line, y \in Line : x.cmd = "JOIN_US" /\ y.cmd = "353" /\ w.lines = Append(Append(v.lines, x), y)
      BY <1>2 DEF Joins
    <3> DEFINE z == Append(v.lines, x)
    <3>2. z \in Seq(Line)
      BY <1>0, <3>1
    <3>3. WillBelieve(z, 0, c.on)
      BY <1>0, <3>1, BelieveAppend
    <3> HIDE DEF z
    <3>5. y.cmd # "KICK_US"
      BY <3>1
    <3>4. WillBelieve(Append(z, y), 0, c.on)
      BY <1>0, <3>2, <3>3, <3>5, BelieveAppend
    <3> QED BY <3>1, <3>4 DEF z
  <2>3. ~early /\ (Trusted(c) => Fits(b, FALSE, TRUE, leave, stay \/ ~leave))
    <3>1. /\ (cmd = "JOIN" \/ join) = TRUE /\ (cmd = "PART" \/ leave) = leave
          /\ (stay \/ (cmd = "JOIN" /\ ~leave)) = (stay \/ ~leave)
      BY <1>2
    <3>2. Minds(v, v.lines, 0, c, early, TRUE, leave, stay \/ ~leave)
      BY <3>1
    <3>3. v.on = FALSE
      BY <1>0, <2>1
    <3> QED BY <1>2, <3>2, <3>3 DEF Minds
  <2> HIDE DEF b, d
  <2>4. Trusted(c) => Fits(d, w.on, join, leave, stay)
    <3>1. Trusted(c) => Fits(TRUE, TRUE, join, leave, stay)
      BY <1>0, <2>3, FitsAfter
    <3> QED BY <1>0, <2>1, <2>2, <3>1
  <2> QED BY <2>1, <2>3, <2>4 DEF Minds, d
<1>3. CASE w.link = "open" /\ v.link = "open" /\ cmd = "PART" /\ Parts(v, w)
  <2>1. v.on /\ ~w.on /\ w.registered = v.registered
    BY <1>3 DEF Parts
  <2>2. d <=> b
    <3>1. PICK x \in Line : x.cmd = "PART_US" /\ w.lines = Append(v.lines, x)
      BY <1>3 DEF Parts
    <3> QED BY <1>0, <3>1, BelieveAppend
  <2>3. v.registered /\ ~early /\ (Trusted(c) => Fits(b, TRUE, join, TRUE, stay))
    BY <1>3, <2>1 DEF Minds, Outside
  <2> HIDE DEF b, d
  <2>4. Trusted(c) => Fits(d, w.on, join, leave, stay)
    <3>1. Trusted(c) => Fits(b, FALSE, join, leave, stay)
      BY <1>0, <2>3, FitsAfter
    <3>2. d = b /\ w.on = FALSE
      BY <1>0, <2>1, <2>2
    <3> QED BY <3>1, <3>2
  <2> QED BY <2>1, <2>3, <2>4 DEF Minds, d
<1>4. CASE /\ w.link = "open" /\ v.link = "open" /\ Rests(v, w)
           /\ cmd = "JOIN" => ~v.registered \/ v.on
           /\ cmd = "PART" => ~v.on
  <2> DEFINE j == cmd = "JOIN" \/ join
             l == cmd = "PART" \/ leave
             s == stay \/ (cmd = "JOIN" /\ ~leave)
  <2>1. Minds(w, w.lines, 0, c, early, j, l, s)
    <3>1. w.on = v.on /\ (v.registered => w.registered) /\ (w.link = "open" => v.link = "open")
      BY <1>4 DEF Rests
    <3>2. Minds(v, v.lines, 0, c, early, j, l, s)
      OBVIOUS
    <3> HIDE DEF j, l, s
    <3>3. CASE w.lines = v.lines
      BY <3>1, <3>2, <3>3 DEF Minds, Outside
    <3>4. CASE \E x \in Line : x.cmd \notin {"JOIN_US", "KICK_US"} /\ w.lines = Append(v.lines, x)
      <4>1. PICK x \in Line : x.cmd \notin {"JOIN_US", "KICK_US"} /\ w.lines = Append(v.lines, x)
        BY <3>4
      <4> QED BY <3>1, <3>2, <4>1, MindsLine
    <3> QED BY <1>4, <3>3, <3>4 DEF Rests
  <2>2. w.on = v.on /\ (v.registered => w.registered)
    BY <1>4 DEF Rests
  <2>3. CASE cmd = "JOIN"
    <3>1. ~early /\ (~w.registered => Outside(w.lines, 0, c, w)) /\ (Trusted(c) => Fits(d, w.on, TRUE, leave, stay \/ ~leave))
      BY <1>4, <2>1, <2>3 DEF Minds
    <3>2. CASE w.on
      <4> HIDE DEF d
      <4>1. Trusted(c) => Fits(d, TRUE, join, leave, stay)
        <5>1. w.on = TRUE
          BY <1>0, <2>2, <3>2
        <5> QED BY <1>0, <3>1, <5>1, FitsAfter
      <4>2. w.on = TRUE
        BY <1>0, <2>2, <3>2
      <4> QED BY <3>1, <4>1, <4>2 DEF Minds, d
    <3>3. CASE ~w.on
      <4>1. Outside(w.lines, 0, c, w)
        <5>1. w.on = FALSE /\ (w.registered = v.registered \/ ~v.registered)
          BY <1>0, <2>2, <3>3
        <5>2. ~v.registered
          BY <1>4, <2>2, <2>3, <3>3
        <5>3. Outside(v.lines, 0, c, v)
          BY <1>4, <5>2 DEF Minds
        <5>4. Unasked(w.lines, 0)
          BY <1>0, <1>4, <5>3, UnaskedRests DEF Outside
        <5> QED BY <2>2, <5>3, <5>4 DEF Outside
      <4>2. d = FALSE
        <5>1. c.on = FALSE /\ Unasked(w.lines, 0)
          BY <1>0, <4>1 DEF Outside
        <5> QED BY <1>0, <5>1, OutsideBelieves
      <4> HIDE DEF d
      <4>3. Trusted(c) => Fits(FALSE, FALSE, join, leave, stay)
        <5>1. w.on = FALSE
          BY <1>0, <2>2, <3>3
        <5> QED BY <3>1, <4>2, <5>1, FitsAfter
      <4>4. w.on = FALSE
        BY <1>0, <2>2, <3>3
      <4> QED BY <3>1, <4>2, <4>3, <4>4 DEF Minds, d
    <3> QED BY <3>2, <3>3
  <2>4. CASE cmd = "PART"
    <3>1. /\ (~w.registered => Outside(w.lines, 0, c, w))
          /\ early => Outside(w.lines, 0, c, w) /\ ~join
          /\ Trusted(c) => Fits(d, w.on, join, TRUE, stay)
      <4>1. j = join /\ l = TRUE /\ s = stay
        BY <2>4
      <4> HIDE DEF j, l, s
      <4> QED BY <1>4, <2>1, <4>1 DEF Minds
    <3>2. w.on = FALSE
      BY <1>0, <1>4, <2>2, <2>4
    <3> HIDE DEF d
    <3>3. Trusted(c) => Fits(d, w.on, join, leave, stay)
      BY <1>0, <3>1, <3>2, FitsAfter
    <3> QED BY <3>1, <3>3 DEF Minds, d
  <2>5. CASE cmd \notin {"JOIN", "PART"}
    <3>1. j = join /\ l = leave /\ s = stay
      BY <2>5
    <3> HIDE DEF j, l, s
    <3> QED BY <2>1, <3>1
  <2> QED BY <2>3, <2>4, <2>5
<1> QED BY <1>1, <1>2, <1>3, <1>4, ServerGetsEffect

\* The messages of a second.
LEMMA HearsMinds ==
  ASSUME NEW v \in ServerRecord, NEW sent \in Seq(MessageOf({FALSE})), ~v.gotold,
         NEW S \in Seq(MessageOf({FALSE})), NEW c \in ChanRecord, NEW early \in BOOLEAN,
         Minds(v, v.lines, 0, c, early, AsksIn(sent, 0, S, "JOIN"), AsksIn(sent, 0, S, "PART"), StaysIn(sent, 0, S)),
         NEW w, w = Hears(v, sent)
  PROVE  Minds(w, w.lines, 0, c, early, Asks(S, 0, "JOIN"), Asks(S, 0, "PART"), Stays(S, 0))
<1> DEFINE n == Len(sent)
           J(k) == AsksIn(sent, k, S, "JOIN")
           P(k) == AsksIn(sent, k, S, "PART")
           R(k) == StaysIn(sent, k, S)
           Fine(x, k) == Minds(x, x.lines, 0, c, early, J(k), P(k), R(k))
<1>1. PICK V \in [0..n -> ServerRecord] :
        /\ V[0] = v /\ Hears(v, sent) = V[n] /\ \A k \in 0..n : ~V[k].gotold
        /\ \A k \in 1..n : V[k] = ServerGets(V[k - 1], sent[k].cmd, sent[k].arg)
  BY HearsSteps
<1>2. n \in Nat /\ 0 \in 0..n /\ n \in 0..n /\ \A k \in 1..n : k \in 0..n /\ k - 1 \in 0..n /\ sent[k].arg \in Nick
  <2>1. \A k \in 1..n : sent[k] \in MessageOf({FALSE})
    OBVIOUS
  <2>2. \A m \in MessageOf({FALSE}) : m.arg \in Nick
    BY DEF MessageOf
  <2>3. n \in Nat
    OBVIOUS
  <2> HIDE DEF n
  <2> QED BY <2>1, <2>2, <2>3
<1>3. \A k : J(k) \in BOOLEAN /\ P(k) \in BOOLEAN /\ R(k) \in BOOLEAN
  BY DEF AsksIn, StaysIn, Asks, Stays
<1> DEFINE Q == {k \in 0..n : Fine(V[k], k)}
<1>4. 0 \in Q
  BY <1>1, <1>2
<1>5. ASSUME NEW k \in 1..n, k - 1 \in Q PROVE k \in Q
  <2> DEFINE u == V[k - 1]
             x == V[k]
  <2>1. u \in ServerRecord /\ Fine(u, k - 1) /\ x = ServerGets(u, sent[k].cmd, sent[k].arg)
    BY <1>1, <1>2, <1>5
  <2>2. k \in 0..n /\ sent[k].arg \in Nick /\ Len(S) \in Nat /\ n \in Nat
    BY <1>2
  <2>3. /\ \A cmd : Asks(sent, k - 1, cmd) <=> sent[k].cmd = cmd \/ Asks(sent, k, cmd)
        /\ Stays(sent, k - 1) <=> Stays(sent, k) \/ (sent[k].cmd = "JOIN" /\ ~Asks(sent, k, "PART"))
    BY AsksStep
  <2>4. /\ J(k - 1) <=> sent[k].cmd = "JOIN" \/ J(k)
        /\ P(k - 1) <=> sent[k].cmd = "PART" \/ P(k)
        /\ R(k - 1) <=> R(k) \/ (sent[k].cmd = "JOIN" /\ ~P(k))
    BY <2>3 DEF AsksIn, StaysIn
  <2>5. (R(k) => J(k)) /\ (J(k) /\ ~P(k) => R(k))
    BY <2>2, StaysInAsks
  <2> DEFINE j == J(k)
             p == P(k)
             r == R(k)
             cmd == sent[k].cmd
  <2>6. /\ J(k - 1) = (cmd = "JOIN" \/ j)
        /\ P(k - 1) = (cmd = "PART" \/ p)
        /\ R(k - 1) = (r \/ (cmd = "JOIN" /\ ~p))
    <3> HIDE DEF J, P, R
    <3> QED BY <1>3, <2>4
  <2>7. /\ j \in BOOLEAN /\ p \in BOOLEAN /\ r \in BOOLEAN /\ (r => j) /\ (j /\ ~p => r)
        /\ Minds(u, u.lines, 0, c, early, cmd = "JOIN" \/ j, cmd = "PART" \/ p, r \/ (cmd = "JOIN" /\ ~p))
    <3> HIDE DEF J, P, R
    <3> QED BY <1>3, <2>1, <2>5, <2>6
  <2>9. x = ServerGets(u, cmd, sent[k].arg) /\ u \in ServerRecord
    BY <2>1
  <2> HIDE DEF u, x, j, p, r, cmd, Fine, Q, J, P, R
  <2>8. Minds(x, x.lines, 0, c, early, j, p, r)
    BY <2>2, <2>7, <2>9, GetsMinds
  <2> QED BY <2>2, <2>8 DEF Fine, x, j, p, r, Q
<1>6. Fine(V[n], n)
  <2> HIDE DEF Fine, n
  <2>1. n \in Q
    <3> HIDE DEF Q
    <3> QED BY <1>2, <1>4, <1>5, Climb
  <2> QED BY <2>1
<1>7. J(n) = Asks(S, 0, "JOIN") /\ P(n) = Asks(S, 0, "PART") /\ R(n) = Stays(S, 0)
  <2>1. (\A cmd : ~Asks(sent, n, cmd)) /\ ~Stays(sent, n)
    BY <1>2, AsksNone
  <2>2. Asks(S, 0, "JOIN") \in BOOLEAN /\ Asks(S, 0, "PART") \in BOOLEAN /\ Stays(S, 0) \in BOOLEAN
    BY DEF Asks, Stays
  <2> QED BY <1>3, <2>1, <2>2 DEF AsksIn, StaysIn
<1> HIDE DEF J, P, R
<1>8. Minds(V[n], V[n].lines, 0, c, early, Asks(S, 0, "JOIN"), Asks(S, 0, "PART"), Stays(S, 0))
  BY <1>6, <1>7
<1> QED BY <1>1, <1>8
-----------------------------------------------------------------------------
(* The invariant of the belief *)

\* No JOIN goes out yet, or none any more.
Early(s) == s.exiting # "no" \/ s.conn.age < waitjoin

Minding(s) ==
  Minds(s.server, s.server.lines, 0, s.chan, Early(s), Asks(s.sendq.normal, 0, "JOIN"),
        Asks(s.sendq.normal, 0, "PART"), Stays(s.sendq.normal, 0))

\* Only the normal queue asks for something, nothing waits there while a connection is
\* made, and a server that is still shaking hands has heard and said nothing.
Sure(s) ==
  /\ s.conn.status \in {"RESOLVING", "TRYING", "SSL_HANDSHAKE"} => s.sendq.normal = <<>>
  /\ s.conn.status = "SSL_HANDSHAKE" /\ s.server.link = "open" =>
       s.server.lines = <<>> /\ ~s.server.registered /\ ~s.server.on
  /\ Quiet(s.sendq)
  /\ s.chan.kicked => s.chan.stay
  /\ Connected(s) => Minding(s)

SameQueues(q, r) == r.fast = q.fast /\ r.normal = q.normal /\ r.slow = q.slow
SameChan(c, d) == d.known = c.known /\ d.on = c.on /\ d.kicked = c.kicked /\ d.stay = c.stay /\ d.lost = c.lost

\* What the invariant does not look at may change; it may become less early.
LEMMA SureAlike ==
  ASSUME NEW s, NEW t, Sure(s), t.conn.status = s.conn.status, Early(t) => Early(s),
         SameQueues(s.sendq, t.sendq), t.server = s.server, SameChan(s.chan, t.chan)
  PROVE  Sure(t)
<1>1. Quiet(t.sendq) /\ (t.chan.kicked => t.chan.stay) /\ t.sendq.normal = s.sendq.normal
  BY DEF Sure, Quiet, SameQueues, SameChan
<1>2. ASSUME Connected(t) PROVE Minding(t)
  <2>1. Minding(s)
    BY <1>2 DEF Sure, Connected
  <2> DEFINE v == s.server
             J == Asks(s.sendq.normal, 0, "JOIN")
             P == Asks(s.sendq.normal, 0, "PART")
             R == Stays(s.sendq.normal, 0)
  <2>2. Minds(v, v.lines, 0, s.chan, Early(s), J, P, R)
    BY <2>1 DEF Minding
  <2>3. t.chan.on = s.chan.on /\ (Trusted(t.chan) <=> Trusted(s.chan))
    BY DEF SameChan, Trusted
  <2> HIDE DEF v, J, P, R
  <2>4. Minds(v, v.lines, 0, t.chan, Early(t), J, P, R)
    BY <2>2, <2>3 DEF Minds, Outside
  <2> QED BY <1>1, <2>4 DEF Minding, v, J, P, R
<1> QED BY <1>1, <1>2 DEF Sure

\* Without a server there is not much to be sure of.
LEMMA SureOff ==
  ASSUME NEW s, s.conn.status \in {"NEED_TO_CONNECT", "EXIT"}, Quiet(s.sendq), s.chan.kicked => s.chan.stay
  PROVE  Sure(s)
  BY DEF Sure, Connected

\* With one there is.
LEMMA SureOn ==
  ASSUME NEW s, Connected(s), Quiet(s.sendq), s.chan.kicked => s.chan.stay, Minding(s)
  PROVE  Sure(s)
  BY DEF Sure, Connected

\* Queues in which nothing waits, or the same as before.
LEMMA QuietQueues ==
  ASSUME NEW q \in QueueOf(BOOLEAN)
  PROVE  /\ Quiet(Cleaned(q)) /\ Cleaned(q).normal = <<>>
         /\ Quiet(q) => Quiet(Aged(q))
         /\ SameQueues(q, Elapsed(q))
         /\ \A cmd : SameQueues(q, Charge(q, cmd))
         /\ \A k : SameQueues(q, [q EXCEPT !.recentsent = k])
<1>1. Quiet(Cleaned(q)) /\ Cleaned(q).normal = <<>>
  <2>1. LET r == Cleaned(q) IN r.fast = <<>> /\ r.slow = <<>> /\ r.normal = <<>>
    BY DEF Cleaned, QueueOf
  <2>2. 1..Len(<<>>) = {}
    OBVIOUS
  <2> QED BY <2>1, <2>2 DEF Quiet, Plain
<1>2. ASSUME Quiet(q) PROVE Quiet(Aged(q))
  <2> DEFINE Old(f) == [i \in DOMAIN f |-> [f[i] EXCEPT !.old = TRUE]]
  <2>1. Aged(q).fast = Old(q.fast) /\ Aged(q).slow = Old(q.slow)
    BY DEF Aged, QueueOf
  <2>2. ASSUME NEW f \in Seq(MessageOf(BOOLEAN)), Plain(f) PROVE Plain(Old(f))
    <3>1. Len(Old(f)) = Len(f) /\ \A i \in 1..Len(f) : Old(f)[i] = [f[i] EXCEPT !.old = TRUE] /\ f[i] \in MessageOf(BOOLEAN)
      <4>1. Len(f) \in Nat /\ DOMAIN f = 1..Len(f) /\ DOMAIN Old(f) = 1..Len(f)
        OBVIOUS
      <4>2. Old(f) \in Seq(MessageOf(BOOLEAN))
        <5>1. \A m \in MessageOf(BOOLEAN) : [m EXCEPT !.old = TRUE] \in MessageOf(BOOLEAN)
          BY OldType
        <5> QED BY <5>1
      <4>3. \A i \in 1..Len(f) : Old(f)[i] = [f[i] EXCEPT !.old = TRUE] /\ f[i] \in MessageOf(BOOLEAN)
        BY <4>1
      <4> HIDE DEF Old
      <4> QED BY <4>1, <4>2, <4>3
    <3>2. \A i \in 1..Len(f) : Old(f)[i].cmd = f[i].cmd
      BY <3>1 DEF MessageOf
    <3> HIDE DEF Old
    <3> QED BY <2>2, <3>1, <3>2 DEF Plain
  <2> HIDE DEF Old
  <2>3. q.fast \in Seq(MessageOf(BOOLEAN)) /\ q.slow \in Seq(MessageOf(BOOLEAN))
    BY DEF QueueOf
  <2> QED BY <1>2, <2>1, <2>2, <2>3 DEF Quiet
<1>3. SameQueues(q, Elapsed(q))
  BY DEF SameQueues, Elapsed, QueueOf
<1>4. \A cmd : SameQueues(q, Charge(q, cmd))
  BY DEF SameQueues, Charge, QueueOf
<1>5. \A k : SameQueues(q, [q EXCEPT !.recentsent = k])
  BY DEF SameQueues, QueueOf
<1> QED BY <1>1, <1>2, <1>3, <1>4, <1>5

\* A queue in which nothing waits is quiet.
LEMMA QuietNone ==
  ASSUME NEW q, q.fast = <<>>, q.slow = <<>>
  PROVE  Quiet(q)
<1>1. 1..Len(<<>>) = {}
  OBVIOUS
<1> QED BY <1>1 DEF Quiet, Plain

\* After close_server.
LEMMA CloseServerSure ==
  ASSUME NEW s \in BotState, ~s.server.gotold, Quiet(s.sendq), s.chan.kicked => s.chan.stay
  PROVE  Sure(CloseServer(s))
<1> DEFINE t == CloseServer(s)
<1>1. t.conn.status = "NEED_TO_CONNECT" /\ t.sendq = Aged(s.sendq) /\ t.chan = s.chan
  BY CloseServerType DEF Disconnected
<1>2. Quiet(Aged(s.sendq))
  BY PartsOf, QuietQueues
<1> HIDE DEF t
<1>3. Sure(t)
  BY <1>1, <1>2, SureOff
<1> QED BY <1>3 DEF t

\* After quit_server and switchserver, whatever was before.
LEMMA SwitchServerSure ==
  ASSUME NEW s, Good(s), NEW forked \in BOOLEAN, s.chan.kicked => s.chan.stay
  PROVE  Sure(SwitchServer(s, forked))
<1> DEFINE t == SwitchServer(s, forked)
<1>1. /\ t.chan = s.chan /\ t.conn.status \in {"NEED_TO_CONNECT", "RESOLVING"}
      /\ t.sendq.fast = <<>> /\ t.sendq.normal = <<>> /\ t.sendq.slow = <<>>
  BY SwitchServerGood
<1> HIDE DEF t
<1>2. Quiet(t.sendq)
  BY <1>1, QuietNone
<1>3. Sure(t)
  BY <1>1, <1>2 DEF Sure, Connected
<1> QED BY <1>3 DEF t

\* A message that is queued, or none.
Queued(q, r, type, cmd) ==
  \E m \in MessageOf(BOOLEAN) :
    m.cmd = cmd /\ r[type] = Append(q[type], m) /\ \A x \in Queue \ {type} : r[x] = q[x]

\* There is room for it or not.
LEMMA EnqueueEffect ==
  ASSUME NEW q \in QueueOf(BOOLEAN), NEW type \in Queue, NEW cmd \in Command, NEW arg \in Nick
  PROVE  LET r == Enqueue(q, type, cmd, arg)
         IN /\ r = q \/ Queued(q, r, type, cmd)
            /\ Len(q[type]) < MAXSENDQ => Queued(q, r, type, cmd)
<1> DEFINE m == Write(cmd, arg)
           r == [q EXCEPT ![type] = Append(q[type], m)]
<1>1. m \in MessageOf(BOOLEAN) /\ m.cmd = cmd
  <2>1. m \in MessageOf(BOOLEAN)
    BY WriteType DEF Ghost
  <2> QED BY <2>1 DEF Write
<1> HIDE DEF m
<1>2. r[type] = Append(q[type], m) /\ \A x \in Queue \ {type} : r[x] = q[x]
  BY DEF QueueOf, Queue
<1> HIDE DEF r
<1>3. Queued(q, r, type, cmd)
  BY <1>1, <1>2 DEF Queued
<1>4. Enqueue(q, type, cmd, arg) = IF Len(q[type]) < MAXSENDQ THEN r ELSE q
  BY DEF Enqueue, r, m
<1> QED BY <1>3, <1>4

\* It is queued only on a connection.
LEMMA SubmitEffect ==
  ASSUME NEW s \in BotState, NEW type \in Queue, NEW cmd \in Command, NEW nick \in Nick,
         NEW t, t = Submit(s, type, cmd, nick)
  PROVE  /\ t.conn = s.conn /\ t.chan = s.chan /\ t.exiting = s.exiting /\ t.server = s.server /\ t \in BotState
         /\ t = s \/ (Connected(s) /\ s.exiting = "no" /\ Queued(s.sendq, t.sendq, type, cmd))
         /\ Connected(s) /\ s.exiting = "no" /\ Len(s.sendq[type]) < MAXSENDQ => Queued(s.sendq, t.sendq, type, cmd)
<1> DEFINE q == Enqueue(s.sendq, type, cmd, nick)
<1>1. /\ q = s.sendq \/ Queued(s.sendq, q, type, cmd)
      /\ Len(s.sendq[type]) < MAXSENDQ => Queued(s.sendq, q, type, cmd)
  BY PartsOf, EnqueueEffect
<1>2. /\ t.conn = s.conn /\ t.chan = s.chan /\ t.exiting = s.exiting /\ t.server = s.server /\ t \in BotState
  BY SubmitType
<1>3. t = IF s.exiting # "no" \/ ~Connected(s) THEN s ELSE [s EXCEPT !.sendq = q]
  BY DEF Submit
<1> HIDE DEF q
<1>4. LET u == [s EXCEPT !.sendq = q] IN u.sendq = q /\ (q = s.sendq => u = s)
  BY DEF BotState
<1> QED BY <1>1, <1>2, <1>3, <1>4

\* A message more that waits in the normal queue, not one to leave; one to join, when it may.
LEMMA MindingQueued ==
  ASSUME NEW s, NEW t, Minding(s), t.server = s.server, t.chan = s.chan, Early(t) => Early(s),
         NEW T, NEW S \in Seq(T), S = s.sendq.normal, NEW m \in T, t.sendq.normal = Append(S, m),
         m.cmd # "PART", m.cmd = "JOIN" => ~Early(t)
  PROVE  Minding(t)
<1> DEFINE b == WillBelieve(s.server.lines, 0, s.chan.on)
           R == t.sendq.normal
<1>1. /\ \A cmd : Asks(R, 0, cmd) <=> Asks(S, 0, cmd) \/ m.cmd = cmd
      /\ Stays(R, 0) <=> m.cmd = "JOIN" \/ (Stays(S, 0) /\ m.cmd # "PART")
  BY AsksAppend
<1> DEFINE J == Asks(S, 0, "JOIN")
           P == Asks(S, 0, "PART")
           Y == Stays(S, 0)
           JJ == Asks(R, 0, "JOIN")
           PP == Asks(R, 0, "PART")
           YY == Stays(R, 0)
<1>2. (JJ <=> J \/ m.cmd = "JOIN") /\ (PP <=> P) /\ (YY <=> m.cmd = "JOIN" \/ Y)
  BY <1>1
<1>3. Minds(s.server, s.server.lines, 0, s.chan, Early(s), J, P, Y)
  BY DEF Minding
<1> HIDE DEF J, P, Y, JJ, PP, YY, R
<1>4. Minds(s.server, s.server.lines, 0, s.chan, Early(t), JJ, PP, YY)
  <2>1. CASE m.cmd = "JOIN"
    <3>1. Fits(b, s.server.on, J, P, Y) => Fits(b, s.server.on, JJ, PP, YY)
      BY <1>2, <2>1 DEF Fits
    <3> QED BY <1>3, <2>1, <3>1 DEF Minds
  <2>2. CASE m.cmd # "JOIN"
    <3>1. Fits(b, s.server.on, J, P, Y) => Fits(b, s.server.on, JJ, PP, YY)
      BY <1>2, <2>2 DEF Fits
    <3>2. JJ <=> J
      BY <1>2, <2>2
    <3> QED BY <1>3, <3>1, <3>2 DEF Minds
  <2> QED BY <2>1, <2>2
<1> QED BY <1>4 DEF Minding, JJ, PP, YY, R

\* A channel that is not expected to be known, and that the bot believes not to be in.
LEMMA MindingUntrusted ==
  ASSUME NEW s, NEW t, Minding(s), t.server = s.server, Early(t) => Early(s), ~Trusted(t.chan), t.chan.on = FALSE,
         Asks(t.sendq.normal, 0, "JOIN") => Asks(s.sendq.normal, 0, "JOIN")
  PROVE  Minding(t)
  BY DEF Minding, Minds, Outside

\* A message that neither joins nor leaves is queued.
LEMMA SubmitSure ==
  ASSUME NEW s \in BotState, Sure(s), NEW type \in Queue, NEW cmd \in Command \ {"JOIN", "PART"}, NEW nick \in Nick
  PROVE  Sure(Submit(s, type, cmd, nick))
<1> DEFINE t == Submit(s, type, cmd, nick)
<1>1. /\ t.conn = s.conn /\ t.chan = s.chan /\ t.exiting = s.exiting /\ t.server = s.server
      /\ t = s \/ (Connected(s) /\ s.exiting = "no" /\ Queued(s.sendq, t.sendq, type, cmd))
  BY SubmitEffect
<1> HIDE DEF t
<1>2. ASSUME Connected(s), Queued(s.sendq, t.sendq, type, cmd) PROVE Sure(t)
  <2>1. PICK m \in MessageOf(BOOLEAN) :
          /\ m.cmd = cmd /\ t.sendq[type] = Append(s.sendq[type], m)
          /\ \A x \in Queue \ {type} : t.sendq[x] = s.sendq[x]
    BY <1>2 DEF Queued
  <2>2. /\ s.sendq.fast \in Seq(MessageOf(BOOLEAN)) /\ s.sendq.normal \in Seq(MessageOf(BOOLEAN))
        /\ s.sendq.slow \in Seq(MessageOf(BOOLEAN))
    BY PartsOf DEF QueueOf
  <2>3. Quiet(s.sendq) /\ (s.chan.kicked => s.chan.stay) /\ Minding(s)
    BY <1>2 DEF Sure
  <2>4. ASSUME NEW f \in Seq(MessageOf(BOOLEAN)), Plain(f) PROVE Plain(Append(f, m))
    <3>1. /\ Len(Append(f, m)) = Len(f) + 1 /\ Len(f) \in Nat /\ Append(f, m)[Len(f) + 1] = m
          /\ \A i \in 1..Len(f) : Append(f, m)[i] = f[i]
          /\ \A i \in 1..(Len(f) + 1) : i \in 1..Len(f) \/ i = Len(f) + 1
      OBVIOUS
    <3> QED BY <2>1, <2>4, <3>1 DEF Plain
  <2>5. (Early(t) <=> Early(s)) /\ Connected(t)
    BY <1>1, <1>2 DEF Early, Connected
  <2>6. CASE type = "normal"
    <3>1. t.sendq.normal = Append(s.sendq.normal, m) /\ t.sendq.fast = s.sendq.fast /\ t.sendq.slow = s.sendq.slow
      BY <2>1, <2>6 DEF Queue
    <3>2. m.cmd # "PART" /\ m.cmd # "JOIN"
      BY <2>1
    <3>3. Minding(t)
      BY <1>1, <2>2, <2>3, <2>5, <3>1, <3>2, MindingQueued
    <3> QED BY <1>1, <2>3, <2>5, <3>1, <3>3, SureOn DEF Quiet
  <2>7. CASE type # "normal"
    <3>1. t.sendq.normal = s.sendq.normal
      BY <2>1, <2>7 DEF Queue
    <3>2. Plain(t.sendq.fast) /\ Plain(t.sendq.slow)
      <4>1. CASE type = "fast"
        <5>1. t.sendq.fast = Append(s.sendq.fast, m) /\ t.sendq.slow = s.sendq.slow
          BY <2>1, <4>1 DEF Queue
        <5> QED BY <2>2, <2>3, <2>4, <5>1 DEF Quiet
      <4>2. CASE type = "slow"
        <5>1. t.sendq.slow = Append(s.sendq.slow, m) /\ t.sendq.fast = s.sendq.fast
          BY <2>1, <4>2 DEF Queue
        <5> QED BY <2>2, <2>3, <2>4, <5>1 DEF Quiet
      <4> QED BY <2>7, <4>1, <4>2 DEF Queue
    <3>3. Minding(t)
      BY <1>1, <2>3, <2>5, <3>1 DEF Minding, Minds
    <3> QED BY <1>1, <2>3, <2>5, <3>2, <3>3, SureOn DEF Quiet
  <2> QED BY <2>6, <2>7
<1>3. Sure(t)
  BY <1>1, <1>2
<1> QED BY <1>3 DEF t

\* A JOIN is queued late enough.
LEMMA SubmitJoinSure ==
  ASSUME NEW s \in BotState, Sure(s), ~(s.conn.age < waitjoin)
  PROVE  Sure(Submit(s, "normal", "JOIN", 0))
<1> DEFINE t == Submit(s, "normal", "JOIN", 0)
<1>0. "normal" \in Queue /\ "JOIN" \in Command /\ 0 \in Nick
  BY Limits, Zeros DEF Queue
<1>1. /\ t.conn = s.conn /\ t.chan = s.chan /\ t.exiting = s.exiting /\ t.server = s.server
      /\ t = s \/ (Connected(s) /\ s.exiting = "no" /\ Queued(s.sendq, t.sendq, "normal", "JOIN"))
  BY <1>0, SubmitEffect
<1> HIDE DEF t
<1>2. ASSUME Connected(s), s.exiting = "no", Queued(s.sendq, t.sendq, "normal", "JOIN") PROVE Sure(t)
  <2>1. PICK m \in MessageOf(BOOLEAN) :
          /\ m.cmd = "JOIN" /\ t.sendq.normal = Append(s.sendq.normal, m)
          /\ \A x \in Queue \ {"normal"} : t.sendq[x] = s.sendq[x]
    BY <1>2 DEF Queued
  <2>2. s.sendq.normal \in Seq(MessageOf(BOOLEAN))
    BY PartsOf DEF QueueOf
  <2>3. Quiet(s.sendq) /\ (s.chan.kicked => s.chan.stay) /\ Minding(s)
    BY <1>2 DEF Sure
  <2>4. ~Early(t) /\ Connected(t)
    BY <1>1, <1>2 DEF Early, Connected
  <2>5. t.sendq.fast = s.sendq.fast /\ t.sendq.slow = s.sendq.slow
    BY <2>1 DEF Queue
  <2>6. m.cmd # "PART"
    BY <2>1
  <2>7. Minding(t)
    BY <1>1, <2>1, <2>2, <2>3, <2>4, <2>6, MindingQueued
  <2> QED BY <1>1, <2>3, <2>4, <2>5, <2>7, SureOn DEF Quiet
<1>3. Sure(t)
  BY <1>1, <1>2
<1> QED BY <1>3 DEF t

\* A PART is queued, or there is no room for it.
LEMMA PartEffect ==
  ASSUME NEW s \in BotState, Quiet(s.sendq), NEW t, t = Submit(s, "normal", "PART", 0)
  PROVE  /\ t.conn = s.conn /\ t.chan = s.chan /\ t.exiting = s.exiting /\ t.server = s.server /\ t \in BotState
         /\ Quiet(t.sendq) /\ t.sendq.fast = s.sendq.fast /\ t.sendq.slow = s.sendq.slow
         /\ ~Connected(s) \/ s.exiting # "no" => t = s
         /\ Asks(t.sendq.normal, 0, "JOIN") => Asks(s.sendq.normal, 0, "JOIN")
         /\ Connected(s) /\ s.exiting = "no" /\ Len(s.sendq.normal) < MAXSENDQ =>
              \E m \in MessageOf(BOOLEAN) : m.cmd = "PART" /\ t.sendq.normal = Append(s.sendq.normal, m)
<1>1. "normal" \in Queue /\ "PART" \in Command /\ 0 \in Nick
  BY Limits, Zeros DEF Queue
<1>2. /\ t.conn = s.conn /\ t.chan = s.chan /\ t.exiting = s.exiting /\ t.server = s.server /\ t \in BotState
      /\ t = s \/ (Connected(s) /\ s.exiting = "no" /\ Queued(s.sendq, t.sendq, "normal", "PART"))
      /\ Connected(s) /\ s.exiting = "no" /\ Len(s.sendq["normal"]) < MAXSENDQ => Queued(s.sendq, t.sendq, "normal", "PART")
  BY <1>1, SubmitEffect
<1>3. s.sendq.normal \in Seq(MessageOf(BOOLEAN))
  BY PartsOf DEF QueueOf
<1>4. ASSUME Queued(s.sendq, t.sendq, "normal", "PART")
      PROVE  /\ \E m \in MessageOf(BOOLEAN) : m.cmd = "PART" /\ t.sendq.normal = Append(s.sendq.normal, m)
             /\ t.sendq.fast = s.sendq.fast /\ t.sendq.slow = s.sendq.slow
             /\ Asks(t.sendq.normal, 0, "JOIN") => Asks(s.sendq.normal, 0, "JOIN")
  <2>1. PICK m \in MessageOf(BOOLEAN) :
          /\ m.cmd = "PART" /\ t.sendq.normal = Append(s.sendq.normal, m)
          /\ \A x \in Queue \ {"normal"} : t.sendq[x] = s.sendq[x]
    BY <1>4 DEF Queued
  <2>2. t.sendq.fast = s.sendq.fast /\ t.sendq.slow = s.sendq.slow
    BY <2>1 DEF Queue
  <2>3. Asks(t.sendq.normal, 0, "JOIN") => Asks(s.sendq.normal, 0, "JOIN")
    BY <1>3, <2>1, AsksAppend
  <2> QED BY <2>1, <2>2, <2>3
<1>5. t = s \/ Queued(s.sendq, t.sendq, "normal", "PART")
  BY <1>2
<1>6. t.sendq.fast = s.sendq.fast /\ t.sendq.slow = s.sendq.slow
  BY <1>4, <1>5
<1>7. Quiet(t.sendq)
  BY <1>6 DEF Quiet
<1> QED BY <1>2, <1>4, <1>5, <1>6, <1>7

\* A channel that is not in the list is left.
LEMMA UnlistedSure ==
  ASSUME NEW s \in BotState, Sure(s), ~s.chan.known
  PROVE  Sure(Submit(s, "normal", "PART", 0))
<1> DEFINE t == Submit(s, "normal", "PART", 0)
<1>1. Quiet(s.sendq) /\ (s.chan.kicked => s.chan.stay)
  BY DEF Sure
<1>2. /\ t.conn = s.conn /\ t.chan = s.chan /\ t.exiting = s.exiting /\ t.server = s.server /\ Quiet(t.sendq)
      /\ ~Connected(s) \/ s.exiting # "no" => t = s
      /\ Asks(t.sendq.normal, 0, "JOIN") => Asks(s.sendq.normal, 0, "JOIN")
  BY <1>1, PartEffect
<1> HIDE DEF t
<1>3. ASSUME ~Connected(s) PROVE Sure(t)
  BY <1>2, <1>3
<1>4. ASSUME Connected(s) PROVE Sure(t)
  <2>1. Minding(s) /\ ~Trusted(t.chan) /\ (Early(t) <=> Early(s)) /\ Connected(t)
    BY <1>2, <1>4 DEF Sure, Trusted, Early, Connected
  <2>2. Minding(t)
    BY <1>2, <2>1 DEF Minding, Minds
  <2> QED BY <1>1, <1>2, <2>1, <2>2, SureOn
<1>5. Sure(t)
  BY <1>3, <1>4
<1> QED BY <1>5 DEF t

\* joinchannel.
LEMMA JoinChannelSure ==
  ASSUME NEW s \in BotState, Sure(s)
  PROVE  Sure(JoinChannel(s))
<1> DEFINE u == Submit(s, "normal", "JOIN", 0)
           t == [u EXCEPT !.chan.members = {}]
<1>1. JoinChannel(s) = s \/ (~(s.conn.age < waitjoin) /\ JoinChannel(s) = t)
  BY DEF JoinChannel
<1>2. u \in BotState
  BY Limits, Zeros, SubmitType DEF Queue
<1>3. ASSUME ~(s.conn.age < waitjoin) PROVE Sure(t)
  <2>1. Sure(u)
    BY <1>3, SubmitJoinSure
  <2> HIDE DEF u
  <2> DEFINE c == [u.chan EXCEPT !.members = {}]
  <2>2. u.chan \in ChanRecord
    BY <1>2, PartsOf
  <2>3. c \in ChanRecord /\ SameChan(u.chan, c)
    BY <2>2 DEF ChanRecord, SameChan
  <2>4. t = [u EXCEPT !.chan = c]
    BY <1>2 DEF BotState
  <2> HIDE DEF c, t
  <2>5. t.conn = u.conn /\ t.sendq = u.sendq /\ t.exiting = u.exiting /\ t.server = u.server /\ t.chan = c
    BY <1>2, <2>3, <2>4, Setters
  <2>6. SameQueues(u.sendq, t.sendq) /\ (Early(t) => Early(u))
    BY <2>5 DEF SameQueues, Early
  <2> QED BY <2>1, <2>3, <2>5, <2>6, SureAlike
<1> HIDE DEF t, u
<1> QED BY <1>1, <1>3

\* The server gets a message at once.
LEMMA GetsSure ==
  ASSUME NEW s \in BotState, Sure(s), Connected(s), NEW cmd, cmd \notin {"JOIN", "PART"}, NEW nick \in Nick,
         NEW t, t.conn.status = s.conn.status, Early(t) => Early(s), SameQueues(s.sendq, t.sendq),
         SameChan(s.chan, t.chan), t.server = ServerGets(s.server, cmd, nick)
  PROVE  Sure(t)
<1> DEFINE J == Asks(s.sendq.normal, 0, "JOIN")
           P == Asks(s.sendq.normal, 0, "PART")
           Y == Stays(s.sendq.normal, 0)
           v == s.server
           w == t.server
           e == Early(s)
           c == s.chan
<1>1. J \in BOOLEAN /\ P \in BOOLEAN /\ Y \in BOOLEAN /\ (Y => J) /\ (J /\ ~P => Y)
  <2>1. Len(s.sendq.normal) \in Nat
    BY PartsOf DEF QueueOf
  <2>2. 0 \in 0..Len(s.sendq.normal)
    BY <2>1
  <2>3. (Y => J) /\ (J /\ ~P => Y)
    BY <2>1, <2>2, StaysAsks
  <2> QED BY <2>3 DEF Asks, Stays
<1>2. e \in BOOLEAN /\ c \in ChanRecord /\ v \in ServerRecord
  BY PartsOf DEF Early
<1>3. /\ Minds(v, v.lines, 0, c, e, J, P, Y) /\ w = ServerGets(v, cmd, nick)
      /\ Quiet(s.sendq) /\ (s.chan.kicked => s.chan.stay)
  BY DEF Sure, Minding
<1> HIDE DEF J, P, Y, v, w, e, c
<1>4. J = (cmd = "JOIN" \/ J) /\ P = (cmd = "PART" \/ P) /\ Y = (Y \/ (cmd = "JOIN" /\ ~P))
  BY <1>1
<1>5. Minds(v, v.lines, 0, c, e, cmd = "JOIN" \/ J, cmd = "PART" \/ P, Y \/ (cmd = "JOIN" /\ ~P))
  BY <1>3, <1>4
<1>6. Minds(w, w.lines, 0, c, e, J, P, Y)
  BY <1>1, <1>2, <1>3, <1>5, GetsMinds
<1>7. Minds(w, w.lines, 0, t.chan, Early(t), J, P, Y)
  <2>1. t.chan.on = c.on /\ (Trusted(t.chan) <=> Trusted(c)) /\ (Early(t) => e)
    BY DEF SameChan, Trusted, e, c
  <2> QED BY <1>6, <2>1 DEF Minds, Outside
<1>8. Minding(t) /\ Quiet(t.sendq)
  BY <1>3, <1>7 DEF SameQueues, Quiet, Minding, J, P, Y, w
<1> QED BY <1>3, <1>8, SureOn DEF SameChan, Connected

\* A message that is sent at once and neither joins nor leaves.
LEMMA SendNowSure ==
  ASSUME NEW s \in BotState, Sure(s), NEW cmd \in Command \ {"JOIN", "PART"}, NEW nick \in Nick
  PROVE  Sure(SendNow(s, cmd, nick))
<1> DEFINE q == Charge(s.sendq, cmd)
           v == ServerGets(s.server, cmd, nick)
           t == [s EXCEPT !.server = v, !.sendq = q]
<1>1. SendNow(s, cmd, nick) = IF Connected(s) THEN t ELSE s
  BY DEF SendNow
<1>2. SameQueues(s.sendq, q)
  BY PartsOf, QuietQueues
<1> HIDE DEF q, v
<1>3. t.conn = s.conn /\ t.sendq = q /\ t.server = v /\ t.chan = s.chan /\ t.exiting = s.exiting
  BY DEF BotState
<1> HIDE DEF t
<1>4. SameChan(s.chan, t.chan) /\ (Early(t) => Early(s)) /\ SameQueues(s.sendq, t.sendq)
  BY <1>2, <1>3 DEF SameChan, Early
<1>5. ASSUME Connected(s) PROVE Sure(t)
  <2>1. cmd \notin {"JOIN", "PART"} /\ t.server = ServerGets(s.server, cmd, nick) /\ t.conn.status = s.conn.status
    BY <1>3 DEF v
  <2> QED BY <1>4, <1>5, <2>1, GetsSure
<1> QED BY <1>1, <1>5

\* sendserver.
LEMMA SendServerSure ==
  ASSUME NEW s, Good(s), Sure(s)
  PROVE  Sure(SendServer(s))
<1> DEFINE r == SendQueue(s.sendq)
           u == [s EXCEPT !.sendq = r.q]
           v == Hears(s.server, r.sent)
           t == [s EXCEPT !.sendq = r.q, !.server = v]
<1>1. s \in BotState /\ Fresh(s) /\ ~s.server.gotold /\ s.server \in ServerRecord /\ s.chan \in ChanRecord
  BY PartsOf DEF Good, Sound
<1>2. CASE ~Connected(s)
  BY <1>2 DEF SendServer
<1>3. CASE Connected(s)
  <2>1. SendServer(s) \in {CloseServer(u), t}
    BY <1>3 DEF SendServer
  <2>2. Quiet(s.sendq) /\ (s.chan.kicked => s.chan.stay) /\ Minding(s)
    BY <1>3 DEF Sure
  <2>3. s.sendq \in QueueOf({FALSE}) /\ {FALSE} \in Ghost /\ s.sendq \in QueueOf(BOOLEAN) /\ BOOLEAN \in Ghost
    BY <1>1, <1>3, PartsOf DEF Fresh, Connected, Ghost
  <2>4. /\ r \in SentOf({FALSE}) /\ Quiet(r.q) /\ Like(s.sendq.normal, r.sent, r.q.normal)
    BY <2>2, <2>3, SendQueueLike
  <2>5. r \in SentOf(BOOLEAN)
    BY <2>2, <2>3, SendQueueLike
  <2> HIDE DEF r
  <2>6. /\ r.sent \in Seq(MessageOf({FALSE})) /\ r.q.normal \in Seq(MessageOf({FALSE})) /\ r.q \in QueueOf(BOOLEAN)
    BY <2>4, <2>5 DEF SentOf, QueueOf
  <2>7. Sure(CloseServer(u))
    <3>1. u \in BotState /\ u.server = s.server /\ u.sendq = r.q /\ u.chan = s.chan
      BY <1>1, <2>6 DEF BotState
    <3> HIDE DEF u
    <3> QED BY <1>1, <2>2, <2>4, <3>1, CloseServerSure
  <2>8. t.conn = s.conn /\ t.sendq = r.q /\ t.server = v /\ t.chan = s.chan /\ t.exiting = s.exiting
    BY <1>1 DEF BotState
  <2> DEFINE S == r.q.normal
             x == s.server
             e == Early(s)
             c == s.chan
  <2>9. Minds(x, x.lines, 0, c, e, AsksIn(r.sent, 0, S, "JOIN"), AsksIn(r.sent, 0, S, "PART"), StaysIn(r.sent, 0, S))
    <3>1. /\ AsksIn(r.sent, 0, S, "JOIN") = Asks(s.sendq.normal, 0, "JOIN")
          /\ AsksIn(r.sent, 0, S, "PART") = Asks(s.sendq.normal, 0, "PART")
          /\ StaysIn(r.sent, 0, S) = Stays(s.sendq.normal, 0)
      <4>1. /\ AsksIn(r.sent, 0, S, "JOIN") <=> Asks(s.sendq.normal, 0, "JOIN")
            /\ AsksIn(r.sent, 0, S, "PART") <=> Asks(s.sendq.normal, 0, "PART")
            /\ StaysIn(r.sent, 0, S) <=> Stays(s.sendq.normal, 0)
        BY <2>4 DEF Like
      <4>2. \A A, cmd : Asks(A, 0, cmd) \in BOOLEAN /\ Stays(A, 0) \in BOOLEAN
        BY DEF Asks, Stays
      <4>3. /\ AsksIn(r.sent, 0, S, "JOIN") \in BOOLEAN /\ AsksIn(r.sent, 0, S, "PART") \in BOOLEAN
            /\ StaysIn(r.sent, 0, S) \in BOOLEAN
        BY DEF AsksIn, StaysIn
      <4> QED BY <4>1, <4>2, <4>3
    <3> QED BY <2>2, <3>1 DEF Minding
  <2>10. x \in ServerRecord /\ ~x.gotold /\ c \in ChanRecord /\ e \in BOOLEAN /\ v = Hears(x, r.sent)
         /\ r.sent \in Seq(MessageOf({FALSE})) /\ S \in Seq(MessageOf({FALSE}))
    BY <1>1, <2>6 DEF Early
  <2> HIDE DEF S, x, e, c, v
  <2>11. Minds(v, v.lines, 0, c, e, Asks(S, 0, "JOIN"), Asks(S, 0, "PART"), Stays(S, 0))
    BY <2>9, <2>10, HearsMinds
  <2> HIDE DEF t
  <2>12. Minding(t)
    <3>1. Early(t) = e /\ t.chan = c /\ t.server = v /\ t.sendq.normal = S
      BY <2>8 DEF e, c, S, Early
    <3> QED BY <2>11, <3>1 DEF Minding
  <2>13. Sure(t)
    <3>1. Connected(t) /\ Quiet(t.sendq) /\ (t.chan.kicked => t.chan.stay)
      BY <1>3, <2>2, <2>4, <2>8 DEF Connected
    <3> QED BY <2>12, <3>1, SureOn
  <2> QED BY <2>1, <2>7, <2>13
<1> QED BY <1>2, <1>3

\* initirc on a connection over which nothing has gone yet.
LEMMA InitIrcSure ==
  ASSUME NEW s, Good(s), s.chan.kicked => s.chan.stay, s.sendq.normal = <<>>, Quiet(s.sendq),
         s.server.link = "open" => s.server.lines = <<>> /\ ~s.server.registered /\ ~s.server.on,
         s.conn.status \in {"CONNECTED", "SSL_HANDSHAKE"}
  PROVE  Sure(InitIrc(s))
<1> DEFINE c == [s.chan EXCEPT !.on = FALSE, !.lost = FALSE]
           q == [s.sendq EXCEPT !.recentsent = 0]
           w == [s EXCEPT !.chan = c, !.sendq = q]
           t == InitIrc(s)
           u == SendNow(s, "NICK", 0)
<1>1. s \in BotState /\ s.chan \in ChanRecord /\ s.sendq \in QueueOf(BOOLEAN) /\ s.server \in ServerRecord
  BY PartsOf DEF Good, Sound
<1>2. c \in ChanRecord /\ c.on = FALSE /\ c.lost = FALSE /\ c.kicked = s.chan.kicked /\ c.stay = s.chan.stay /\ c.known = s.chan.known
  BY <1>1 DEF ChanRecord
<1>3. q \in QueueOf(BOOLEAN) /\ SameQueues(s.sendq, q)
  <2>1. 0 \in 0..RecentPings
    BY Zeros
  <2> QED BY <1>1, <2>1 DEF QueueOf, SameQueues
<1> HIDE DEF c, q
<1>4. w \in BotState /\ w.conn = s.conn /\ w.sendq = q /\ w.server = s.server /\ w.chan = c /\ w.exiting = s.exiting
  BY <1>1, <1>2, <1>3 DEF BotState
<1> HIDE DEF w
<1>5. Sure(w)
  <2>1. ASSUME w.server.link = "open" PROVE Outside(w.server.lines, 0, c, w.server) /\ ~WillBelieve(w.server.lines, 0, c.on)
    <3>1. w.server.lines = <<>> /\ ~w.server.on
      BY <1>4, <2>1
    <3>2. (0 + 1)..Len(<<>>) = {}
      OBVIOUS
    <3>3. Unasked(w.server.lines, 0)
      BY <3>1, <3>2 DEF Unasked
    <3> QED BY <1>2, <3>1, <3>3, OutsideBelieves DEF Outside
  <2>2. ~Asks(w.sendq.normal, 0, "JOIN")
    BY <1>3, <1>4, AsksNone DEF SameQueues
  <2>3. Minding(w)
    <3>1. w.server.link = "open" => w.server.on = FALSE
      BY <1>1, <1>4 DEF ServerRecord
    <3> QED BY <1>4, <2>1, <2>2, <3>1 DEF Minding, Minds, Fits
  <2>4. Quiet(w.sendq) /\ (w.chan.kicked => w.chan.stay) /\ w.sendq.normal = <<>>
    BY <1>2, <1>3, <1>4 DEF SameQueues, Quiet
  <2> QED BY <1>4, <2>3, <2>4 DEF Sure, Connected
<1>6. t = [u EXCEPT !.chan.on = FALSE, !.chan.lost = FALSE, !.sendq.recentsent = 0]
  BY DEF InitIrc
<1>7. CASE Connected(s)
  <2>1. u = [s EXCEPT !.server = ServerGets(s.server, "NICK", 0), !.sendq = Charge(s.sendq, "NICK")]
    BY <1>7 DEF SendNow
  <2> DEFINE v == ServerGets(s.server, "NICK", 0)
             p == Charge(s.sendq, "NICK")
  <2>2. p \in QueueOf(BOOLEAN) /\ SameQueues(s.sendq, p)
    BY <1>1, Limits, ChargeType, QuietQueues DEF Ghost
  <2>3. v \in ServerRecord
    BY <1>1, Zeros, ServerGetsType
  <2>4. u = [s EXCEPT !.server = v, !.sendq = p]
    BY <2>1
  <2> HIDE DEF v, p, t, u
  <2>5. u \in BotState /\ u.conn = s.conn /\ u.sendq = p /\ u.server = v /\ u.chan = s.chan /\ u.exiting = s.exiting
    BY <1>1, <2>2, <2>3, <2>4 DEF BotState
  <2>6. /\ t.conn = s.conn /\ t.exiting = s.exiting /\ t.server = v /\ t.chan = c
        /\ t.sendq = [p EXCEPT !.recentsent = 0]
    <3>1. t = [u EXCEPT !.chan = [u.chan EXCEPT !.on = FALSE, !.lost = FALSE], !.sendq = [u.sendq EXCEPT !.recentsent = 0]]
      BY <1>6, <2>5 DEF BotState
    <3> QED BY <2>5, <3>1 DEF BotState, c
  <2>7. SameQueues(p, t.sendq)
    BY <2>2, <2>6, QuietQueues
  <2>8. t.server = ServerGets(w.server, "NICK", 0) /\ Connected(w)
    BY <1>4, <1>7, <2>6 DEF v, Connected
  <2>9. /\ SameQueues(w.sendq, t.sendq) /\ SameChan(w.chan, t.chan) /\ (Early(t) => Early(w))
        /\ t.conn.status = w.conn.status
    BY <1>3, <1>4, <2>2, <2>6, <2>7 DEF SameQueues, SameChan, Early
  <2>10. 0 \in Nick
    BY Zeros
  <2>11. Sure(t)
    BY <1>4, <1>5, <2>8, <2>9, <2>10, GetsSure
  <2> QED BY <2>11 DEF t
<1>8. CASE ~Connected(s)
  <2>1. u = s
    BY <1>8 DEF SendNow
  <2> HIDE DEF t, u
  <2>2. t = [s EXCEPT !.chan = [s.chan EXCEPT !.on = FALSE, !.lost = FALSE], !.sendq = [s.sendq EXCEPT !.recentsent = 0]]
    BY <1>1, <1>6, <2>1 DEF BotState
  <2>3. t = w
    BY <2>2 DEF w, c, q
  <2> QED BY <1>5, <2>3 DEF t
<1> QED BY <1>7, <1>8
-----------------------------------------------------------------------------
(* The belief while lines are handled *)

\* A state with other lines on the way.
View(s, R) == [s EXCEPT !.server = [s.server EXCEPT !.lines = R]]

LEMMA ViewParts ==
  ASSUME NEW s \in BotState, NEW R \in Seq(Line)
  PROVE  LET t == View(s, R)
         IN /\ t \in BotState /\ t.conn = s.conn /\ t.lookup = s.lookup /\ t.me = s.me /\ t.chan = s.chan
            /\ t.sendq = s.sendq /\ t.exiting = s.exiting
            /\ t.server = [s.server EXCEPT !.lines = R]
            /\ t.server.lines = R /\ t.server.link = s.server.link /\ t.server.on = s.server.on
            /\ t.server.registered = s.server.registered
            /\ R = s.server.lines => t = s
<1> DEFINE v == [s.server EXCEPT !.lines = R]
           t == [s EXCEPT !.server = v]
<1>1. s.server \in ServerRecord
  BY PartsOf
<1>2. /\ v \in ServerRecord /\ v.lines = R /\ v.link = s.server.link /\ v.on = s.server.on
      /\ v.registered = s.server.registered /\ (R = s.server.lines => v = s.server)
  BY <1>1 DEF ServerRecord
<1>5. v = [s.server EXCEPT !.lines = R]
  OBVIOUS
<1> HIDE DEF v
<1>3. /\ t \in BotState /\ t.conn = s.conn /\ t.lookup = s.lookup /\ t.me = s.me /\ t.chan = s.chan
      /\ t.sendq = s.sendq /\ t.exiting = s.exiting /\ t.server = v /\ (v = s.server => t = s)
  BY <1>2 DEF BotState
<1>4. t = View(s, R)
  BY DEF View, v
<1> HIDE DEF t
<1> QED BY <1>2, <1>3, <1>4, <1>5

\* The lines Q become the lines R when the line l is handled.
Handles(Q, l, R) ==
  /\ \A on \in BOOLEAN :
       WillBelieve(Q, 0, on) <=> WillBelieve(R, 0, l.cmd = "JOIN_US" \/ (on /\ l.cmd # "KICK_US"))
  /\ Unasked(Q, 0) => Unasked(R, 0) /\ l.cmd # "JOIN_US"

LEMMA HandlesLine ==
  ASSUME NEW L \in Seq(Line), NEW n \in 1..Len(L)
  PROVE  Handles(SubSeq(L, n, Len(L)), L[n], SubSeq(L, n + 1, Len(L)))
<1> DEFINE Q == SubSeq(L, n, Len(L))
           R == SubSeq(L, n + 1, Len(L))
           m == Len(L)
<1>1. /\ m \in Nat /\ n \in Nat /\ n - 1 \in 0..m /\ n \in 0..m /\ n - 1 + 1 = n /\ 0 + 1 = 1
      /\ Len(Q) = m - n + 1 /\ Len(R) = m - n /\ Q[1] = L[n] /\ 1 \in 1..Len(Q)
      /\ \A i \in 1..(m - n) : R[i] = Q[i + 1] /\ i + 1 \in 1..(m - n + 1)
  OBVIOUS
<1>2. ASSUME NEW on \in BOOLEAN
      PROVE  WillBelieve(Q, 0, on) <=> WillBelieve(R, 0, L[n].cmd = "JOIN_US" \/ (on /\ L[n].cmd # "KICK_US"))
  <2> DEFINE d == L[n].cmd = "JOIN_US" \/ (on /\ L[n].cmd # "KICK_US")
  <2>1. WillBelieve(L, n - 1, on) <=> WillBelieve(L, n, d)
    BY BelieveStep
  <2> HIDE DEF Q, R
  <2>2. d \in BOOLEAN
    OBVIOUS
  <2> HIDE DEF d
  <2>3. WillBelieve(SubSeq(L, n - 1 + 1, Len(L)), 0, on) <=> WillBelieve(L, n - 1, on)
    <3>1. n - 1 \in 0..Len(L)
      BY <1>1 DEF m
    <3> DEFINE k == n - 1
    <3> HIDE DEF k
    <3>2. k \in 0..Len(L)
      BY <3>1 DEF k
    <3>3. WillBelieve(SubSeq(L, k + 1, Len(L)), 0, on) <=> WillBelieve(L, k, on)
      BY <3>2, BelieveRest
    <3> QED BY <3>3 DEF k
  <2>4. WillBelieve(R, 0, d) <=> WillBelieve(L, n, d)
    <3>1. n \in 0..Len(L)
      BY <1>1 DEF m
    <3> QED BY <2>2, <3>1, BelieveRest DEF R
  <2> QED BY <1>1, <2>1, <2>3, <2>4 DEF Q, d
<1> HIDE DEF Q, R
<1>3. Unasked(Q, 0) => Unasked(R, 0) /\ L[n].cmd # "JOIN_US"
  BY <1>1 DEF Unasked
<1> DEFINE l == L[n]
<1> HIDE DEF l
<1>4. Handles(Q, l, R)
  BY <1>2, <1>3 DEF Handles, l
<1> QED BY <1>4 DEF Q, R, l

\* A line that says nothing of us is gone.
LEMMA ViewRest ==
  ASSUME NEW s \in BotState, NEW l, NEW Q \in Seq(Line), NEW R \in Seq(Line), Handles(Q, l, R),
         l.cmd \notin {"JOIN_US", "KICK_US"}, s.conn.status # "SSL_HANDSHAKE", Sure(View(s, Q))
  PROVE  Sure(View(s, R))
<1> DEFINE x == View(s, Q)
           y == View(s, R)
<1>1. /\ y.conn = x.conn /\ y.sendq = x.sendq /\ y.chan = x.chan /\ y.exiting = x.exiting
      /\ y.server.lines = R /\ x.server.lines = Q /\ y.server.link = x.server.link /\ y.server.on = x.server.on
      /\ y.server.registered = x.server.registered /\ x.chan \in ChanRecord /\ x.conn = s.conn
  <2>1. /\ x.conn = s.conn /\ x.sendq = s.sendq /\ x.chan = s.chan /\ x.exiting = s.exiting
        /\ x.server.lines = Q /\ x.server.link = s.server.link /\ x.server.on = s.server.on
        /\ x.server.registered = s.server.registered
    BY ViewParts
  <2>2. /\ y.conn = s.conn /\ y.sendq = s.sendq /\ y.chan = s.chan /\ y.exiting = s.exiting
        /\ y.server.lines = R /\ y.server.link = s.server.link /\ y.server.on = s.server.on
        /\ y.server.registered = s.server.registered
    BY ViewParts
  <2>3. s.chan \in ChanRecord
    BY PartsOf
  <2> HIDE DEF x, y
  <2> QED BY <2>1, <2>2, <2>3
<1> HIDE DEF x, y
<1>2. (l.cmd = "JOIN_US" \/ (x.chan.on /\ l.cmd # "KICK_US")) = x.chan.on /\ x.chan.on \in BOOLEAN
  BY <1>1 DEF ChanRecord
<1>3. WillBelieve(R, 0, x.chan.on) <=> WillBelieve(Q, 0, x.chan.on)
  BY <1>2 DEF Handles
<1>4. Unasked(Q, 0) => Unasked(R, 0)
  BY DEF Handles
<1>5. ASSUME Connected(y) PROVE Minding(y)
  <2>1. Minding(x)
    BY <1>1, <1>5 DEF Sure, Connected, x
  <2> DEFINE J == Asks(x.sendq.normal, 0, "JOIN")
             P == Asks(x.sendq.normal, 0, "PART")
             Y == Stays(x.sendq.normal, 0)
             v == x.server
             w == y.server
             c == x.chan
             e == Early(x)
  <2>2. Minds(v, Q, 0, c, e, J, P, Y)
    BY <1>1, <2>1 DEF Minding
  <2>3. /\ w.link = "open" => v.link = "open"
        /\ w.on = v.on
        /\ v.registered => w.registered
        /\ WillBelieve(R, 0, c.on) <=> WillBelieve(Q, 0, c.on)
        /\ Unasked(Q, 0) => Unasked(R, 0)
    BY <1>1, <1>3, <1>4
  <2> HIDE DEF J, P, Y, v, w, c, e
  <2>4. Minds(w, R, 0, c, e, J, P, Y)
    BY ONLY <2>2, <2>3, MindsAlike
  <2>5. Early(y) = e
    BY <1>1 DEF Early, e
  <2> QED BY <1>1, <2>4, <2>5 DEF Minding, J, P, Y, w, c
<1>6. Sure(x)
  BY DEF x
<1>7. Sure(y)
  BY <1>1, <1>5, <1>6 DEF Sure
<1> QED BY <1>7 DEF y

\* What does not look at the lines does not depend on them.
LEMMA ViewAlike ==
  ASSUME NEW s \in BotState, NEW t \in BotState, NEW R \in Seq(Line), Sure(View(s, R)),
         t.conn.status = s.conn.status, Early(t) => Early(s), SameQueues(s.sendq, t.sendq),
         t.server = s.server, SameChan(s.chan, t.chan)
  PROVE  Sure(View(t, R))
<1> DEFINE x == View(s, R)
           y == View(t, R)
<1>1. x.conn = s.conn /\ x.sendq = s.sendq /\ x.chan = s.chan /\ x.exiting = s.exiting /\ x.server = [s.server EXCEPT !.lines = R]
  BY ViewParts
<1>2. y.conn = t.conn /\ y.sendq = t.sendq /\ y.chan = t.chan /\ y.exiting = t.exiting /\ y.server = [t.server EXCEPT !.lines = R]
  BY ViewParts
<1>3. Sure(x)
  OBVIOUS
<1> HIDE DEF x, y
<1>4. /\ y.conn.status = x.conn.status /\ (Early(y) => Early(x)) /\ SameQueues(x.sendq, y.sendq)
      /\ y.server = x.server /\ SameChan(x.chan, y.chan)
  BY <1>1, <1>2 DEF Early
<1>5. Sure(y)
  BY <1>3, <1>4, SureAlike
<1> QED BY <1>5 DEF y

LEMMA ViewSubmit ==
  ASSUME NEW s \in BotState, NEW R \in Seq(Line), NEW type, NEW cmd, NEW nick
  PROVE  View(Submit(s, type, cmd, nick), R) = Submit(View(s, R), type, cmd, nick)
<1> DEFINE q == Enqueue(s.sendq, type, cmd, nick)
           v == [s.server EXCEPT !.lines = R]
           x == View(s, R)
<1>1. x.conn = s.conn /\ x.sendq = s.sendq /\ x.exiting = s.exiting
  BY ViewParts
<1>2. x = [s EXCEPT !.server = v]
  BY DEF View
<1>3. CASE s.exiting # "no" \/ ~Connected(s)
  BY <1>1, <1>3 DEF Submit, Connected
<1>4. CASE ~(s.exiting # "no" \/ ~Connected(s))
  <2> DEFINE u == [s EXCEPT !.sendq = q]
  <2>1. Submit(s, type, cmd, nick) = u
    BY <1>4 DEF Submit
  <2>2. Submit(x, type, cmd, nick) = [x EXCEPT !.sendq = q]
    <3> HIDE DEF x
    <3> QED BY <1>1, <1>4 DEF Submit, Connected
  <2>3. View(u, R) = [u EXCEPT !.server = [u.server EXCEPT !.lines = R]]
    BY DEF View
  <2>4. u.server = s.server
    BY DEF BotState
  <2>5. View(u, R) = [u EXCEPT !.server = v]
    BY <2>3, <2>4
  <2> HIDE DEF q, v, x
  <2>6. [u EXCEPT !.server = v] = [x EXCEPT !.sendq = q]
    BY <1>2 DEF BotState
  <2> QED BY <2>1, <2>2, <2>5, <2>6 DEF x
<1> QED BY <1>3, <1>4

LEMMA ViewJoinChannel ==
  ASSUME NEW s \in BotState, NEW R \in Seq(Line)
  PROVE  View(JoinChannel(s), R) = JoinChannel(View(s, R))
<1> DEFINE u == Submit(s, "normal", "JOIN", 0)
           x == View(s, R)
           y == View(u, R)
           z == Submit(x, "normal", "JOIN", 0)
<1>0. y = z
  BY ViewSubmit
<1>1. x.conn = s.conn /\ x.chan = s.chan
  BY ViewParts
<1>2. u \in BotState
  BY Limits, Zeros, SubmitType DEF Queue
<1> HIDE DEF u, x, y, z
<1>3. CASE ~s.chan.known \/ s.chan.kicked \/ s.conn.age < waitjoin
  BY <1>1, <1>3 DEF JoinChannel, x
<1>4. CASE ~(~s.chan.known \/ s.chan.kicked \/ s.conn.age < waitjoin)
  <2> DEFINE t == [u EXCEPT !.chan.members = {}]
             v == [u.server EXCEPT !.lines = R]
  <2>1. JoinChannel(s) = t
    BY <1>4 DEF JoinChannel, u
  <2>2. JoinChannel(x) = [z EXCEPT !.chan.members = {}]
    BY <1>1, <1>4 DEF JoinChannel, z
  <2>3. t.server = u.server
    BY <1>2 DEF BotState
  <2>4. View(t, R) = [t EXCEPT !.server = v]
    BY <2>3 DEF View
  <2>5. y = [u EXCEPT !.server = v]
    BY DEF View, y
  <2> HIDE DEF v
  <2>6. [t EXCEPT !.server = v] = [[u EXCEPT !.server = v] EXCEPT !.chan.members = {}]
    BY <1>2 DEF BotState
  <2> QED BY <1>0, <2>1, <2>2, <2>4, <2>5, <2>6 DEF x
<1> QED BY <1>3, <1>4

\* Our JOIN is confirmed.
LEMMA JoinedSure ==
  ASSUME NEW s \in BotState, NEW l, l.cmd = "JOIN_US", NEW Q \in Seq(Line), NEW R \in Seq(Line),
         Handles(Q, l, R), s.conn.status # "SSL_HANDSHAKE", Sure(View(s, Q)),
         NEW t \in BotState, t.conn.status = s.conn.status, Early(t) => Early(s), t.sendq = s.sendq,
         t.server = s.server, SameChan(IF s.chan.known THEN [s.chan EXCEPT !.on = TRUE] ELSE s.chan, t.chan)
  PROVE  Sure(View(t, R))
<1> DEFINE x == View(s, Q)
           y == View(t, R)
           v == x.server
           w == y.server
           J == Asks(s.sendq.normal, 0, "JOIN")
           P == Asks(s.sendq.normal, 0, "PART")
           Y == Stays(s.sendq.normal, 0)
<1>1. /\ x.conn = s.conn /\ x.sendq = s.sendq /\ x.chan = s.chan /\ x.exiting = s.exiting /\ v.lines = Q
      /\ v.link = s.server.link /\ v.on = s.server.on /\ v.registered = s.server.registered
  BY ViewParts
<1>2. /\ y.conn = t.conn /\ y.sendq = t.sendq /\ y.chan = t.chan /\ y.exiting = t.exiting /\ w.lines = R
      /\ w.link = t.server.link /\ w.on = t.server.on /\ w.registered = t.server.registered
  BY ViewParts
<1>3. s.chan \in ChanRecord
  BY PartsOf
<1>4. /\ t.chan.known = s.chan.known /\ t.chan.kicked = s.chan.kicked /\ t.chan.stay = s.chan.stay
      /\ t.chan.lost = s.chan.lost
      /\ s.chan.known => t.chan.on = TRUE
  BY <1>3 DEF SameChan, ChanRecord
<1>5. Sure(x)
  OBVIOUS
<1> HIDE DEF x, y, v, w
<1>6. ASSUME Connected(y) PROVE Minding(y)
  <2>1. Minds(v, Q, 0, s.chan, Early(x), J, P, Y)
    BY <1>1, <1>2, <1>5, <1>6 DEF Sure, Connected, Minding, v
  <2>2. ~Unasked(Q, 0)
    BY DEF Handles
  <2>3. WillBelieve(Q, 0, s.chan.on) <=> WillBelieve(R, 0, TRUE)
    <3>1. (l.cmd = "JOIN_US" \/ (s.chan.on /\ l.cmd # "KICK_US")) = TRUE
      OBVIOUS
    <3>2. s.chan.on \in BOOLEAN
      BY <1>3 DEF ChanRecord
    <3> QED BY <3>1, <3>2 DEF Handles
  <2>4. (Early(y) => Early(x)) /\ w.link = v.link /\ w.on = v.on /\ w.registered = v.registered
    BY <1>1, <1>2 DEF Early
  <2> HIDE DEF J, P, Y
  <2>5. ASSUME w.link = "open" PROVE w.registered /\ ~Early(y)
    BY <2>1, <2>2, <2>4, <2>5 DEF Minds, Outside
  <2>6. ASSUME w.link = "open", Trusted(t.chan) PROVE Fits(WillBelieve(R, 0, t.chan.on), w.on, J, P, Y)
    <3>1. Trusted(s.chan) /\ t.chan.on = TRUE
      BY <1>4, <2>6 DEF Trusted
    <3>2. Fits(WillBelieve(Q, 0, s.chan.on), v.on, J, P, Y)
      BY <2>1, <2>4, <2>6, <3>1 DEF Minds
    <3>3. WillBelieve(R, 0, t.chan.on) <=> WillBelieve(Q, 0, s.chan.on)
      BY <2>3, <3>1
    <3> QED BY <2>4, <3>2, <3>3 DEF Fits
  <2>7. Minds(w, R, 0, t.chan, Early(y), J, P, Y)
    BY <2>5, <2>6 DEF Minds
  <2> QED BY <1>1, <1>2, <2>7 DEF Minding, J, P, Y, w
<1>7. Sure(y)
  <2>1. y.sendq = x.sendq /\ y.conn.status = x.conn.status /\ (y.chan.kicked => x.chan.kicked) /\ y.chan.stay = x.chan.stay
    BY <1>1, <1>2, <1>4
  <2>2. y.conn.status # "SSL_HANDSHAKE"
    BY <1>2
  <2> QED BY <1>5, <1>6, <2>1, <2>2 DEF Sure
<1> QED BY <1>7 DEF y

\* We are kicked: the bot knows, unless it stays out.
LEMMA KickLineSure ==
  ASSUME NEW s \in BotState, NEW l, l.cmd = "KICK_US", NEW Q \in Seq(Line), NEW R \in Seq(Line),
         Handles(Q, l, R), s.conn.status # "SSL_HANDSHAKE", Sure(View(s, Q)),
         NEW c \in ChanRecord, c.lost = s.chan.lost, c.known = s.chan.known,
         c.kicked => c.stay, c.on => s.chan.on, c.on => ~c.known \/ c.kicked,
         Trusted(c) => Trusted(s.chan),
         NEW t \in BotState, t.conn = s.conn, t.sendq = s.sendq, t.exiting = s.exiting,
         t.server = s.server, t.chan = c
  PROVE  Sure(View(t, R))
<1> DEFINE x == View(s, Q)
           y == View(t, R)
           v == x.server
           w == y.server
           J == Asks(s.sendq.normal, 0, "JOIN")
           P == Asks(s.sendq.normal, 0, "PART")
           Y == Stays(s.sendq.normal, 0)
<1>1. /\ x.conn = s.conn /\ x.sendq = s.sendq /\ x.chan = s.chan /\ x.exiting = s.exiting /\ v.lines = Q
      /\ v.link = s.server.link /\ v.on = s.server.on /\ v.registered = s.server.registered
  BY ViewParts
<1>2. /\ y.conn = t.conn /\ y.sendq = t.sendq /\ y.chan = t.chan /\ y.exiting = t.exiting /\ w.lines = R
      /\ w.link = t.server.link /\ w.on = t.server.on /\ w.registered = t.server.registered
  BY ViewParts
<1>3. s.chan.on \in BOOLEAN /\ c.on \in BOOLEAN
  BY PartsOf DEF ChanRecord
<1>5. Sure(x)
  OBVIOUS
<1> HIDE DEF x, y, v, w
<1>6. ASSUME Connected(y) PROVE Minding(y)
  <2>1. Minds(v, Q, 0, s.chan, Early(x), J, P, Y)
    BY <1>1, <1>2, <1>5, <1>6 DEF Sure, Connected, Minding, v
  <2>2. Unasked(Q, 0) => Unasked(R, 0)
    BY DEF Handles
  <2>3. WillBelieve(Q, 0, s.chan.on) <=> WillBelieve(R, 0, FALSE)
    <3>1. (l.cmd = "JOIN_US" \/ (s.chan.on /\ l.cmd # "KICK_US")) = FALSE
      OBVIOUS
    <3> QED BY <1>3, <3>1 DEF Handles
  <2>4. (Early(y) => Early(x)) /\ w.link = v.link /\ w.on = v.on /\ w.registered = v.registered
    BY <1>1, <1>2 DEF Early
  <2> HIDE DEF J, P, Y
  <2>5. Outside(Q, 0, s.chan, v) => Outside(R, 0, c, w)
    BY <2>2, <2>4 DEF Outside
  <2>6. ASSUME w.link = "open", Trusted(c) PROVE Fits(WillBelieve(R, 0, c.on), w.on, J, P, Y)
    <3>1. Trusted(s.chan) /\ c.on = FALSE
      BY <1>3, <2>6 DEF Trusted
    <3>2. Fits(WillBelieve(Q, 0, s.chan.on), v.on, J, P, Y)
      BY <2>1, <2>4, <2>6, <3>1 DEF Minds
    <3>3. WillBelieve(R, 0, c.on) <=> WillBelieve(Q, 0, s.chan.on)
      BY <2>3, <3>1
    <3> QED BY <2>4, <3>2, <3>3 DEF Fits
  <2>7. Minds(w, R, 0, c, Early(y), J, P, Y)
    BY <2>1, <2>4, <2>5, <2>6 DEF Minds
  <2> QED BY <1>1, <1>2, <2>7 DEF Minding, J, P, Y, w
<1>7. Sure(y)
  <2>1. y.sendq = x.sendq /\ y.conn.status = x.conn.status /\ y.chan = c
    BY <1>1, <1>2
  <2>2. y.conn.status # "SSL_HANDSHAKE"
    BY <1>2
  <2> QED BY <1>5, <1>6, <2>1, <2>2 DEF Sure
<1> QED BY <1>7 DEF y

\* A line is handled.
Reading == {"CONNECTED", "NEED_TO_CONNECT", "EXIT"}

LEMMA HandleSure ==
  ASSUME NEW s, Sound(s), NEW l \in Line, NEW Q \in Seq(Line), NEW R \in Seq(Line), Handles(Q, l, R),
         s.conn.status \in Reading, Sure(View(s, Q)), NEW h, h = Handle(s, l)
  PROVE  h.conn.status \in Reading /\ Sure(View(h, R))
<1>1. s \in BotState /\ ~s.server.gotold /\ s.chan \in ChanRecord /\ s.sendq \in QueueOf(BOOLEAN)
  BY PartsOf DEF Sound
<1>2. l.cmd \in LineCmd /\ l.who \in SUBSET Person /\ l.new \in SUBSET Person /\ l.nick \in Nick
  BY DEF Line, LineCmd
<1>3. s.conn.status # "SSL_HANDSHAKE" /\ Quiet(s.sendq) /\ (s.chan.kicked => s.chan.stay)
  <2> DEFINE x == View(s, Q)
  <2>1. x.sendq = s.sendq /\ x.chan = s.chan
    BY <1>1, ViewParts
  <2>2. Sure(x)
    OBVIOUS
  <2> HIDE DEF x
  <2> QED BY <2>1, <2>2 DEF Sure, Reading
<1>4. ASSUME l.cmd \notin {"JOIN_US", "KICK_US"} PROVE Sure(View(s, R))
  BY <1>1, <1>3, <1>4, ViewRest
<1>5. ASSUME NEW t \in BotState, t.conn = s.conn, t.exiting = s.exiting, SameQueues(s.sendq, t.sendq),
             t.server = s.server, SameChan(s.chan, t.chan), h = t, l.cmd \notin {"JOIN_US", "KICK_US"}
      PROVE  h.conn.status \in Reading /\ Sure(View(h, R))
  <2>1. t.conn.status = s.conn.status /\ (Early(t) => Early(s))
    BY <1>5 DEF Early
  <2> QED BY <1>1, <1>4, <1>5, <2>1, ViewAlike
<1>6. SameChan(s.chan, s.chan) /\ SameQueues(s.sendq, s.sendq)
  BY DEF SameChan, SameQueues
<1>7. CASE l.cmd \in {"001", "NICK_US"}
  <2> DEFINE m == [nick |-> l.nick, number |-> 0]
             t == [s EXCEPT !.me = m]
  <2>1. h = t
    BY <1>7 DEF Handle, Welcomed, Renamed
  <2>2. m \in MeRecord
    BY <1>2, Zeros DEF MeRecord
  <2> HIDE DEF m
  <2>3. /\ t \in BotState /\ t.conn = s.conn /\ t.chan = s.chan /\ t.sendq = s.sendq
        /\ t.exiting = s.exiting /\ t.server = s.server
    BY <1>1, <2>2 DEF BotState
  <2> HIDE DEF t
  <2> QED BY <1>5, <1>6, <1>7, <2>1, <2>3
<1>8. CASE l.cmd = "433"
  <2> DEFINE k == s.me.number + 1
             u == Submit(s, "normal", "NICK", k)
             m == [u.me EXCEPT !.number = Min2(u.me.number + 1, MaxNick)]
             t == [u EXCEPT !.me = m]
  <2>1. h = t
    BY <1>8 DEF Handle, NickInUse
  <2>2. s.me.number \in 0..MaxNick /\ k \in Nick /\ s.me.nick \in Nick
    BY <1>1, Limits, PartsOf DEF MeRecord, Nick
  <2> HIDE DEF k
  <2>3. /\ u \in BotState /\ u.conn = s.conn /\ u.me = s.me /\ u.server = s.server
        /\ u.chan = s.chan /\ u.exiting = s.exiting
    <3>1. "normal" \in Queue /\ "NICK" \in Command
      BY Limits DEF Queue
    <3> QED BY <1>1, <2>2, <3>1, SubmitType
  <2>8. View(u, R) = Submit(View(s, R), "normal", "NICK", k)
    BY <1>1, ViewSubmit
  <2> HIDE DEF u
  <2>4. m \in MeRecord
    <3>1. Min2(u.me.number + 1, MaxNick) \in 0..MaxNick
      BY <2>2, <2>3, Limits DEF Min2
    <3>2. u.me \in MeRecord
      BY <2>3, PartsOf
    <3> QED BY <3>1, <3>2 DEF MeRecord
  <2> HIDE DEF m
  <2>5. /\ t \in BotState /\ t.conn = u.conn /\ t.sendq = u.sendq /\ t.server = u.server
        /\ t.chan = u.chan /\ t.exiting = u.exiting
    BY <2>3, <2>4 DEF BotState
  <2> HIDE DEF t
  <2>6. Sure(View(u, R))
    <3> DEFINE x == View(s, R)
    <3>1. x \in BotState /\ Sure(x)
      BY <1>1, <1>4, <1>8, ViewParts
    <3> HIDE DEF x
    <3>2. "normal" \in Queue /\ "NICK" \in Command \ {"JOIN", "PART"}
      BY Limits DEF Queue
    <3>3. Sure(Submit(x, "normal", "NICK", k))
      BY <2>2, <3>1, <3>2, SubmitSure
    <3> QED BY <2>8, <3>3 DEF x
  <2>7. (Early(t) => Early(u)) /\ SameQueues(u.sendq, t.sendq) /\ SameChan(u.chan, t.chan) /\ t.conn.status = u.conn.status
    BY <2>5 DEF Early, SameQueues, SameChan
  <2>9. Sure(View(t, R))
    BY <2>3, <2>5, <2>6, <2>7, ViewAlike
  <2> QED BY <2>1, <2>3, <2>5, <2>9
<1>9. CASE l.cmd \in {"353", "JOIN", "LEAVE", "NICK"} /\ (l.cmd = "353" => s.chan.known)
  <2> DEFINE c == [s.chan EXCEPT !.members = s.chan.members \cup l.who]
             d == [s.chan EXCEPT !.members = s.chan.members \ l.who]
             e == [s.chan EXCEPT !.members = (s.chan.members \ l.who) \cup l.new]
  <2>1. h \in {s, [s EXCEPT !.chan = c], [s EXCEPT !.chan = d], [s EXCEPT !.chan = e]}
    <3>1. CASE l.cmd \in {"353", "JOIN"}
      BY <1>9, <3>1 DEF Handle, NamesGot, Remember
    <3>2. CASE l.cmd = "LEAVE"
      BY <3>2 DEF Handle, Forget
    <3>3. CASE l.cmd = "NICK" /\ l.who \subseteq s.chan.members
      BY <1>1, <3>3 DEF Handle, Forget, Remember, BotState, ChanRecord
    <3>4. CASE l.cmd = "NICK" /\ ~(l.who \subseteq s.chan.members)
      BY <3>4 DEF Handle
    <3> QED BY <1>9, <3>1, <3>2, <3>3, <3>4
  <2>2. /\ c \in ChanRecord /\ d \in ChanRecord /\ e \in ChanRecord
        /\ SameChan(s.chan, c) /\ SameChan(s.chan, d) /\ SameChan(s.chan, e)
    BY <1>1, <1>2 DEF ChanRecord, SameChan
  <2> HIDE DEF c, d, e
  <2>3. ASSUME NEW b \in ChanRecord, SameChan(s.chan, b), h = [s EXCEPT !.chan = b]
        PROVE  h.conn.status \in Reading /\ Sure(View(h, R))
    <3> DEFINE t == [s EXCEPT !.chan = b]
    <3>1. /\ t \in BotState /\ t.conn = s.conn /\ t.chan = b /\ t.sendq = s.sendq
          /\ t.exiting = s.exiting /\ t.server = s.server /\ h = t
      BY <1>1, <2>3 DEF BotState
    <3> HIDE DEF t
    <3> QED BY <1>5, <1>6, <1>9, <2>3, <3>1
  <2>4. CASE h = s
    BY <1>1, <1>5, <1>6, <1>9, <2>4
  <2> QED BY <2>1, <2>2, <2>3, <2>4
<1>10. CASE l.cmd = "JOIN_US"
  <2> DEFINE b == [s.conn EXCEPT !.backoff = 0]
             c == [s.chan EXCEPT !.on = TRUE]
             t == [s EXCEPT !.conn = b, !.chan = c]
             u == [s EXCEPT !.conn = b]
  <2>1. IF s.chan.known THEN h = t ELSE h = u
    BY <1>10 DEF Handle, Joined
  <2>2. c \in ChanRecord /\ b \in ConnRecord /\ b.status = s.conn.status /\ b.age = s.conn.age
    <3>1. 0 \in 0..MaxBackoff /\ s.conn \in ConnRecord
      BY <1>1, PartsOf, Zeros
    <3> QED BY <1>1, <3>1 DEF ChanRecord, ConnRecord
  <2>5. c = [s.chan EXCEPT !.on = TRUE]
    OBVIOUS
  <2> HIDE DEF b, c
  <2>3. /\ t \in BotState /\ t.conn = b /\ t.sendq = s.sendq /\ t.server = s.server /\ t.chan = c
        /\ t.exiting = s.exiting
    BY <1>1, <2>2 DEF BotState
  <2>4. /\ u \in BotState /\ u.conn = b /\ u.sendq = s.sendq /\ u.server = s.server /\ u.chan = s.chan
        /\ u.exiting = s.exiting
    BY <1>1, <2>2 DEF BotState
  <2> HIDE DEF t, u
  <2>6. /\ h \in BotState /\ h.conn.status = s.conn.status /\ (Early(h) => Early(s)) /\ h.sendq = s.sendq
        /\ h.server = s.server
        /\ SameChan(IF s.chan.known THEN [s.chan EXCEPT !.on = TRUE] ELSE s.chan, h.chan)
    BY <2>1, <2>2, <2>3, <2>4, <2>5 DEF Early, SameChan
  <2>7. Sure(View(h, R))
    BY <1>1, <1>3, <1>10, <2>6, JoinedSure
  <2> QED BY <2>6, <2>7
<1>11. CASE l.cmd = "KICK_US"
  <2> DEFINE c == [s.chan EXCEPT !.kicked = TRUE, !.members = {}]
             d == [s.chan EXCEPT !.on = FALSE]
             u == [s EXCEPT !.chan = d]
  <2>1. h = IF ~s.chan.known THEN s ELSE IF s.chan.stay THEN [s EXCEPT !.chan = c] ELSE JoinChannel(u)
    BY <1>11 DEF Handle, Kicked
  <2>2. /\ c \in ChanRecord /\ c.lost = s.chan.lost /\ c.known = s.chan.known /\ c.kicked = TRUE
        /\ c.stay = s.chan.stay /\ c.on = s.chan.on
    BY <1>1 DEF ChanRecord
  <2>3. /\ d \in ChanRecord /\ d.lost = s.chan.lost /\ d.known = s.chan.known /\ d.kicked = s.chan.kicked
        /\ d.stay = s.chan.stay /\ d.on = FALSE
    BY <1>1 DEF ChanRecord
  <2> HIDE DEF c, d
  <2>4. ASSUME NEW b \in ChanRecord, b.lost = s.chan.lost, b.known = s.chan.known,
               b.kicked => b.stay, b.on => s.chan.on, b.on => ~b.known \/ b.kicked, Trusted(b) => Trusted(s.chan),
               NEW t, t = [s EXCEPT !.chan = b]
        PROVE  t \in BotState /\ t.conn = s.conn /\ t.chan = b /\ Sure(View(t, R))
    <3>1. /\ t \in BotState /\ t.conn = s.conn /\ t.chan = b /\ t.sendq = s.sendq
          /\ t.exiting = s.exiting /\ t.server = s.server
      BY <1>1, <2>4 DEF BotState
    <3> QED BY <1>1, <1>3, <1>11, <2>4, <3>1, KickLineSure
  <2>5. CASE ~s.chan.known
    <3>1. h = [s EXCEPT !.chan = s.chan]
      BY <1>1, <2>1, <2>5 DEF BotState
    <3> QED BY <1>1, <1>3, <2>4, <2>5, <3>1
  <2>6. CASE s.chan.known /\ s.chan.stay
    <3>1. Trusted(c) => Trusted(s.chan)
      BY <2>2 DEF Trusted
    <3>2. h = [s EXCEPT !.chan = c]
      BY <2>1, <2>6
    <3> QED BY <2>2, <2>4, <2>6, <3>1, <3>2
  <2>7. CASE s.chan.known /\ ~s.chan.stay
    <3>1. Trusted(d) => Trusted(s.chan)
      BY <1>3, <2>3, <2>7 DEF Trusted
    <3>2. u \in BotState /\ u.conn = s.conn /\ Sure(View(u, R))
      BY <1>3, <2>3, <2>4, <2>7, <3>1
    <3> HIDE DEF u
    <3>3. Sure(JoinChannel(View(u, R))) /\ View(JoinChannel(u), R) = JoinChannel(View(u, R))
      <4> DEFINE x == View(u, R)
      <4>1. x \in BotState /\ Sure(x)
        BY <3>2, ViewParts
      <4> HIDE DEF x
      <4>2. Sure(JoinChannel(x))
        BY <4>1, JoinChannelSure
      <4> QED BY <3>2, <4>2, ViewJoinChannel DEF x
    <3>4. h = JoinChannel(u) /\ JoinChannel(u).conn = s.conn
      BY <2>1, <2>7, <3>2, JoinChannelType
    <3> QED BY <3>3, <3>4
  <2> QED BY <2>5, <2>6, <2>7
<1>12. CASE l.cmd \in {"QUIT_US", "ERROR"}
  <2> DEFINE t == CloseServer(s)
             x == To(t, "EXIT")
             q == Cleaned(x.sendq)
             y == [x EXCEPT !.sendq = q]
             p == [s.sendq EXCEPT !.recentsent = 0]
             z == [s EXCEPT !.sendq = p]
  <2>1. h \in {y, z, t}
    <3>1. CASE l.cmd = "QUIT_US"
      BY <3>1 DEF Handle, ForcedQuit
    <3>2. CASE l.cmd = "ERROR"
      BY <3>2 DEF Handle, ClosingLink
    <3> QED BY <1>12, <3>1, <3>2
  <2>2. t \in BotState /\ t.conn.status = "NEED_TO_CONNECT" /\ t.sendq = Aged(s.sendq) /\ t.chan = s.chan
    BY <1>1, CloseServerType DEF Disconnected, Good, Sound
  <2>3. Quiet(t.sendq)
    BY <1>1, <1>3, <2>2, QuietQueues
  <2> HIDE DEF t
  <2>4. /\ x \in BotState /\ x.conn.status = "EXIT" /\ x.chan = s.chan
    <3>1. "EXIT" \in Status
      BY DEF Status
    <3> QED BY <2>2, <3>1, ToType
  <2> HIDE DEF x
  <2>5. q \in QueueOf(BOOLEAN) /\ Quiet(q)
    <3>1. x.sendq \in QueueOf(BOOLEAN) /\ BOOLEAN \in Ghost
      BY <2>4, PartsOf DEF Ghost
    <3> QED BY <3>1, CleanedType, QuietQueues
  <2> HIDE DEF q
  <2>6. y \in BotState /\ y.conn = x.conn /\ y.chan = x.chan /\ y.sendq = q
    BY <2>4, <2>5 DEF BotState
  <2> HIDE DEF y
  <2>7. ASSUME NEW r \in BotState, r.conn.status \in {"NEED_TO_CONNECT", "EXIT"}, Quiet(r.sendq), r.chan = s.chan
        PROVE  r.conn.status \in Reading /\ Sure(View(r, R))
    <3> DEFINE g == View(r, R)
    <3>1. g.conn = r.conn /\ g.sendq = r.sendq /\ g.chan = r.chan
      BY ViewParts
    <3> HIDE DEF g
    <3>2. Sure(g)
      BY <1>3, <2>7, <3>1, SureOff
    <3> QED BY <2>7, <3>2 DEF g, Reading
  <2>8. CASE h = y
    BY <2>4, <2>5, <2>6, <2>7, <2>8
  <2>9. CASE h = t
    BY <2>2, <2>3, <2>7, <2>9
  <2>10. CASE h = z
    <3>1. p \in QueueOf(BOOLEAN) /\ SameQueues(s.sendq, p)
      <4>1. 0 \in 0..RecentPings
        BY Zeros
      <4> QED BY <1>1, <4>1 DEF QueueOf, SameQueues
    <3> HIDE DEF p
    <3>2. /\ z \in BotState /\ z.conn = s.conn /\ z.server = s.server /\ z.sendq = p /\ z.chan = s.chan
          /\ z.exiting = s.exiting
      BY <1>1, <3>1 DEF BotState
    <3> HIDE DEF z
    <3> QED BY <1>5, <1>6, <1>12, <2>10, <3>1, <3>2
  <2> QED BY <2>1, <2>8, <2>9, <2>10
<1>13. CASE l.cmd \in {"PART_US", "PONG"}
  <2>1. h = s
    BY <1>13 DEF Handle
  <2> QED BY <1>1, <1>5, <1>6, <1>13, <2>1
<1>14. CASE l.cmd = "353" /\ ~s.chan.known
  <2> DEFINE u == Submit(s, "normal", "PART", 0)
             x == View(s, R)
  <2>1. h = u
    BY <1>14 DEF Handle, NamesGot
  <2>2. u.conn = s.conn
    BY <1>1, <1>3, PartEffect
  <2>3. View(u, R) = Submit(x, "normal", "PART", 0)
    BY <1>1, ViewSubmit
  <2>4. x \in BotState /\ Sure(x) /\ ~x.chan.known
    BY <1>1, <1>4, <1>14, ViewParts
  <2> HIDE DEF u, x
  <2>5. Sure(View(u, R))
    BY <2>3, <2>4, UnlistedSure
  <2> QED BY <2>1, <2>2, <2>5
<1> QED BY <1>2, <1>7, <1>8, <1>9, <1>10, <1>11, <1>12, <1>13, <1>14 DEF LineCmd

\* Some lines are read.
LEMMA LinesReadSure ==
  ASSUME NEW s, Good(s), Sure(s), Connected(s), NEW n \in DOMAIN s.server.lines
  PROVE  Sure(LinesRead(s, n))
<1> DEFINE L == s.server.lines
           rest == SubSeq(L, n + 1, Len(L))
           u == View(s, rest)
           t == Heard(u)
           Rest(k) == SubSeq(L, k + 1, Len(L))
<1>1. /\ s \in BotState /\ s.server \in ServerRecord /\ L \in Seq(Line) /\ n \in 1..Len(L)
      /\ Linked(s) /\ Fresh(s) /\ ~s.server.gotold
  BY PartsOf DEF Good, Sound, ServerRecord
<1>2. LinesRead(s, n) = HandleAll(t, SubSeq(L, 1, n))
  BY DEF LinesRead, View
<1>3. /\ n \in Nat /\ n \in 0..n /\ 0 \in 0..n /\ n \in 0..Len(L) /\ Rest(0) = L
      /\ \A k \in 1..n : k \in 0..n /\ k - 1 \in 0..n /\ k \in 1..Len(L) /\ k - 1 + 1 = k /\ L[k] \in Line
      /\ \A k \in 0..n : k \in 0..Len(L)
  <2> HIDE DEF L
  <2> QED BY <1>1
<1>4. \A k \in 0..n : Rest(k) \in Seq(Line)
  <2> HIDE DEF L
  <2> QED BY <1>1, <1>3, PartsType
<1>5. rest \in Seq(Line) /\ rest = Rest(n)
  BY <1>3, <1>4
<1> HIDE DEF rest
<1>6. /\ u \in BotState /\ u.conn = s.conn /\ u.sendq = s.sendq /\ u.chan = s.chan /\ u.exiting = s.exiting
      /\ u.server = [s.server EXCEPT !.lines = rest]
      /\ u.server.lines = rest
  BY <1>1, <1>5, ViewParts
<1>7. Sound(u)
  <2>1. s.server.link # "none"
    BY <1>1 DEF Linked, Connected
  <2>2. u.server.link = s.server.link /\ u.server.gotold = s.server.gotold
    BY <1>1, <1>6 DEF ServerRecord
  <2> HIDE DEF u
  <2> QED BY <1>1, <1>6, <2>1, <2>2 DEF Sound, Linked, Fresh
<1> HIDE DEF u, L
<1>8. /\ t \in BotState /\ Sound(t) /\ t.conn.status = s.conn.status /\ t.conn.age = s.conn.age
      /\ t.sendq = s.sendq /\ t.server = u.server /\ t.exiting = s.exiting /\ t.chan = s.chan
  BY <1>6, <1>7, HeardGood
<1> HIDE DEF t
<1>9. PICK V : Through(t, L, n, V)
  BY <1>1, <1>8, HandleAllSteps
<1>10. /\ V \in [0..n -> BotState] /\ V[0] = t /\ HandleAll(t, SubSeq(L, 1, n)) = V[n]
       /\ \A k \in 0..n : Sound(V[k])
       /\ \A k \in 1..n : V[k] = Handle(V[k - 1], L[k])
  BY <1>9 DEF Through
<1> DEFINE Fine(x, k) == /\ x.conn.status \in Reading /\ Sure(View(x, Rest(k)))
                         /\ x.server = u.server \/ x.server.link = "none"
           P == {k \in 0..n : Fine(V[k], k)}
<1>11. 0 \in P
  <2>1. Sure(View(t, L))
    <3> DEFINE x == View(t, L)
    <3>1. x.conn = t.conn /\ x.sendq = t.sendq /\ x.chan = t.chan /\ x.exiting = t.exiting /\ x.server = [t.server EXCEPT !.lines = L]
      BY <1>1, <1>8, ViewParts
    <3>2. [t.server EXCEPT !.lines = L] = s.server
      <4>1. t.server = [s.server EXCEPT !.lines = rest]
        BY <1>6, <1>8
      <4>2. s.server.lines = L
        BY DEF L
      <4> QED BY <1>1, <4>1, <4>2 DEF ServerRecord
    <3> HIDE DEF x
    <3>3. /\ x.conn.status = s.conn.status /\ (Early(x) => Early(s)) /\ SameQueues(s.sendq, x.sendq)
          /\ x.server = s.server /\ SameChan(s.chan, x.chan)
      BY <1>8, <3>1, <3>2 DEF Early, SameQueues, SameChan
    <3>4. Sure(x)
      BY <3>3, SureAlike
    <3> QED BY <3>4 DEF x
  <2>2. t.conn.status \in Reading
    BY <1>8 DEF Connected, Reading
  <2>3. Rest(0) = L
    BY <1>3
  <2> HIDE DEF Rest
  <2>4. Fine(V[0], 0)
    BY <1>8, <1>10, <2>1, <2>2, <2>3
  <2> HIDE DEF Fine
  <2> QED BY <1>3, <2>4
<1>12. ASSUME NEW k \in 1..n, k - 1 \in P PROVE k \in P
  <2> DEFINE w == V[k - 1]
             x == V[k]
             l == L[k]
             Q == Rest(k - 1)
             R == Rest(k)
  <2>1. Fine(w, k - 1) /\ Sound(w) /\ x = Handle(w, l) /\ l \in Line
    BY <1>3, <1>10, <1>12
  <2>2. Handles(Q, l, R) /\ Q \in Seq(Line) /\ R \in Seq(Line)
    <3>1. Q = SubSeq(L, k, Len(L)) /\ k \in 1..Len(L)
      BY <1>3
    <3>2. Q \in Seq(Line) /\ R \in Seq(Line)
      <4> HIDE DEF Rest
      <4> QED BY <1>3, <1>4
    <3>3. Handles(SubSeq(L, k, Len(L)), L[k], SubSeq(L, k + 1, Len(L)))
      BY <1>1, <3>1, HandlesLine
    <3> QED BY <3>1, <3>2, <3>3
  <2>3. w.conn.status \in Reading /\ Sure(View(w, Q)) /\ (w.server = u.server \/ w.server.link = "none")
    BY <2>1
  <2> HIDE DEF w, x, l, Q, R, Fine
  <2>4. x.conn.status \in Reading /\ Sure(View(x, R))
    BY <2>1, <2>2, <2>3, HandleSure
  <2>5. x.server = w.server \/ x.server.link = "none"
    BY <2>1, HandleType
  <2>6. Fine(x, k)
    BY <2>3, <2>4, <2>5 DEF Fine, R
  <2> QED BY <1>3, <2>6 DEF x
<1>13. n \in P
  <2> HIDE DEF P
  <2> QED BY <1>3, <1>11, <1>12, Climb
<1> DEFINE z == V[n]
<1>14. z \in BotState /\ z.conn.status \in Reading /\ Sure(View(z, rest)) /\ (z.server = u.server \/ z.server.link = "none")
  <2> HIDE DEF Rest
  <2> QED BY <1>3, <1>5, <1>10, <1>13
<1> HIDE DEF z
<1>15. Sure(z)
  <2>1. CASE z.server = u.server
    <3>1. z.server.lines = rest
      BY <1>6, <2>1
    <3>2. View(z, rest) = z
      BY <1>5, <1>14, <3>1, ViewParts
    <3> QED BY <1>14, <3>2
  <2>2. CASE z.server.link = "none"
    <3> DEFINE y == View(z, rest)
    <3>1. y.sendq = z.sendq /\ y.chan = z.chan
      BY <1>5, <1>14, ViewParts
    <3>2. Sure(y)
      BY <1>14
    <3> HIDE DEF y
    <3>3. Quiet(z.sendq) /\ (z.chan.kicked => z.chan.stay)
      BY <3>1, <3>2 DEF Sure
    <3>4. Minding(z)
      BY <2>2 DEF Minding, Minds
    <3> QED BY <1>14, <3>3, <3>4, SureOn, SureOff DEF Reading, Connected
  <2> QED BY <1>14, <2>1, <2>2
<1> QED BY <1>2, <1>10, <1>15 DEF z
-----------------------------------------------------------------------------
(* The belief in a pass of the main loop *)

\* What any state in which the invariant holds has.
LEMMA SureParts ==
  ASSUME NEW s, Good(s), Sure(s)
  PROVE  /\ s \in BotState /\ ~s.server.gotold /\ s.sendq \in QueueOf(BOOLEAN) /\ s.chan \in ChanRecord
         /\ s.conn \in ConnRecord /\ s.server \in ServerRecord
         /\ Quiet(s.sendq) /\ (s.chan.kicked => s.chan.stay)
         /\ SameChan(s.chan, s.chan) /\ SameQueues(s.sendq, s.sendq)
  BY PartsOf DEF Good, Sound, Sure, SameChan, SameQueues

\* handshake_ssl.
LEMMA HandshakeSslSure ==
  ASSUME NEW s, Good(s), s.chan.kicked => s.chan.stay, s.sendq.normal = <<>>, Quiet(s.sendq),
         s.server.link = "open" => s.server.lines = <<>> /\ ~s.server.registered /\ ~s.server.on,
         s.conn.status \in {"CONNECTED", "SSL_HANDSHAKE"}, NEW result
  PROVE  Sure(HandshakeSsl(s, result))
<1>1. s \in BotState /\ ~s.server.gotold
  BY DEF Good, Sound
<1>2. ASSUME NEW status \in {"CONNECTED", "SSL_HANDSHAKE"}, NEW t, t = To(s, status)
      PROVE  /\ t \in BotState /\ t.conn.status = status /\ t.me = s.me /\ t.sendq = s.sendq
             /\ t.server = s.server /\ t.chan = s.chan /\ Good(t)
  <2>1. /\ t \in BotState /\ t.conn.status = status /\ t.me = s.me /\ t.sendq = s.sendq /\ t.server = s.server
        /\ t.chan = s.chan
    <3>1. status \in Status
      BY DEF Status
    <3> QED BY <1>1, <1>2, <3>1, ToType
  <2>2. Good(t)
    BY <2>1 DEF Good, Sound, Linked, Fresh
  <2> QED BY <2>1, <2>2
<1>3. HandshakeSsl(s, result) \in {InitIrc(s), InitIrc(To(s, "CONNECTED")), To(s, "SSL_HANDSHAKE"), CloseServer(s)}
  BY DEF HandshakeSsl
<1>4. Sure(InitIrc(s))
  BY InitIrcSure
<1>5. Sure(InitIrc(To(s, "CONNECTED")))
  <2> DEFINE t == To(s, "CONNECTED")
  <2>1. /\ t \in BotState /\ t.conn.status = "CONNECTED" /\ t.sendq = s.sendq
        /\ t.server = s.server /\ t.chan = s.chan /\ Good(t)
    BY <1>2
  <2> HIDE DEF t
  <2>2. Sure(InitIrc(t))
    BY <2>1, InitIrcSure
  <2> QED BY <2>2 DEF t
<1>6. Sure(To(s, "SSL_HANDSHAKE"))
  <2> DEFINE t == To(s, "SSL_HANDSHAKE")
  <2>1. /\ t.conn.status = "SSL_HANDSHAKE" /\ t.sendq = s.sendq /\ t.server = s.server /\ t.chan = s.chan
    BY <1>2
  <2> HIDE DEF t
  <2>2. Sure(t)
    BY <2>1 DEF Sure, Connected
  <2> QED BY <2>2 DEF t
<1>7. Sure(CloseServer(s))
  BY <1>1, CloseServerSure
<1> QED BY <1>3, <1>4, <1>5, <1>6, <1>7

\* A second passes.
LEMMA TickSure ==
  ASSUME NEW s, Good(s), Sure(s)
  PROVE  Sure(Tick(s))
<1> DEFINE t == Tick(s)
<1>1. /\ t.conn.status = s.conn.status /\ t.chan = s.chan /\ t.exiting = s.exiting /\ t.server = s.server
      /\ t.sendq = Elapsed(s.sendq)
      /\ t.conn.age < waitjoin => s.conn.age < waitjoin
  BY TickType
<1> HIDE DEF t
<1>2. SameQueues(s.sendq, t.sendq) /\ SameChan(s.chan, t.chan) /\ (Early(t) => Early(s))
  BY <1>1, SureParts, QuietQueues DEF Early
<1>3. Sure(t)
  BY <1>1, <1>2, SureAlike
<1> QED BY <1>3 DEF t

\* irc_perform every second.
LEMMA EverySecondSure ==
  ASSUME NEW s, Good(s), Sure(s), NEW status, NEW forked \in BOOLEAN,
         status = "RESOLVING" => s.server.link = "none"
  PROVE  Sure(EverySecond(s, status, forked))
<1> DEFINE t == CASE status \in {"TRYING", "SSL_HANDSHAKE"} /\ TimedOut(s) -> CloseServer(s)
                  [] status = "RESOLVING" /\ TimedOut(s) -> To(s, "NEED_TO_CONNECT")
                  [] status = "NEED_TO_CONNECT" /\ ~s.conn.offline /\ TimedOut(s) -> SwitchServer(s, forked)
                  [] OTHER -> s
<1>1. s \in BotState /\ ~s.server.gotold /\ Quiet(s.sendq) /\ (s.chan.kicked => s.chan.stay)
  BY SureParts
<1>2. EverySecond(s, status, forked) = SendServer(t)
  BY DEF EverySecond
<1>3. t \in {CloseServer(s), SwitchServer(s, forked), s} \/ (status = "RESOLVING" /\ t = To(s, "NEED_TO_CONNECT"))
  OBVIOUS
<1> HIDE DEF t
<1>4. ASSUME status = "RESOLVING" PROVE Good(To(s, "NEED_TO_CONNECT")) /\ Sure(To(s, "NEED_TO_CONNECT"))
  <2> DEFINE u == To(s, "NEED_TO_CONNECT")
  <2>0. "NEED_TO_CONNECT" \in Status
    BY DEF Status
  <2>1. Good(u)
    BY <1>4, <2>0, StatusGood
  <2>2. u.conn.status = "NEED_TO_CONNECT" /\ u.sendq = s.sendq /\ u.chan = s.chan
    BY <1>1, <2>0, ToType
  <2> HIDE DEF u
  <2>3. Sure(u)
    BY <1>1, <2>2, SureOff
  <2> QED BY <2>1, <2>3 DEF u
<1>5. Good(t)
  BY <1>1, <1>3, <1>4, CloseServerType, SwitchServerGood
<1>6. Sure(t)
  BY <1>1, <1>3, <1>4, CloseServerSure, SwitchServerSure
<1> QED BY <1>2, <1>5, <1>6, SendServerSure

\* The resolver's answer; the connection is there; the server has said something.
LEMMA AnsweredSure ==
  ASSUME NEW s, Good(s), Sure(s), s.conn.status = "RESOLVING"
  PROVE  Sure(Answered(s))
<1> DEFINE t == Answered(s)
<1>1. t.sendq = s.sendq /\ t.chan = s.chan /\ t.conn.status = "TRYING"
  BY AnsweredGood
<1> HIDE DEF t
<1>2. Sure(t)
  BY <1>1 DEF Sure, Connected
<1> QED BY <1>2 DEF t

LEMMA EstablishedSure ==
  ASSUME NEW s, Good(s), Sure(s), s.conn.status = "TRYING", NEW result
  PROVE  Sure(HandshakeSsl(Established(s), result))
<1> DEFINE t == Established(s)
<1>1. /\ Good(t) /\ t.conn.status = "CONNECTED" /\ t.sendq = s.sendq /\ t.chan = s.chan
      /\ t.server.lines = <<>> /\ ~t.server.registered /\ ~t.server.on
  BY EstablishedGood
<1> HIDE DEF t
<1>2. s.sendq.normal = <<>> /\ Quiet(s.sendq) /\ (s.chan.kicked => s.chan.stay)
  BY DEF Sure
<1>3. Sure(HandshakeSsl(t, result))
  BY <1>1, <1>2, HandshakeSslSure
<1> QED BY <1>3 DEF t

LEMMA HeardSure ==
  ASSUME NEW s, Good(s), Sure(s)
  PROVE  Good(Heard(s)) /\ Sure(Heard(s))
<1> DEFINE t == Heard(s)
<1>1. s \in BotState /\ SameChan(s.chan, s.chan) /\ SameQueues(s.sendq, s.sendq)
  BY SureParts
<1>2. /\ Good(t) /\ t.conn.status = s.conn.status /\ t.sendq = s.sendq
      /\ t.server = s.server /\ t.exiting = s.exiting /\ t.chan = s.chan /\ t.conn.age = s.conn.age
  BY <1>1, HeardGood
<1> HIDE DEF t
<1>3. Sure(t)
  BY <1>1, <1>2, SureAlike DEF Early
<1> QED BY <1>2, <1>3 DEF t

\* The end of the stream.
LEMMA EndedSure ==
  ASSUME NEW s, Good(s), Sure(s), NEW errno
  PROVE  Sure(Ended(s, errno))
<1> DEFINE t == Heard(s)
           u == [t EXCEPT !.sendq.recentsent = 0]
<1>1. Good(t) /\ Sure(t)
  BY HeardSure
<1>2. Ended(s, errno) \in {t, CloseServer(t), CloseServer(u)}
  BY DEF Ended
<1> HIDE DEF t
<1>3. t \in BotState /\ ~t.server.gotold /\ Quiet(t.sendq) /\ (t.chan.kicked => t.chan.stay) /\ t.sendq \in QueueOf(BOOLEAN)
  BY <1>1, SureParts
<1>4. u \in BotState /\ u.server = t.server /\ u.chan = t.chan /\ u.sendq = [t.sendq EXCEPT !.recentsent = 0]
  BY <1>1, OwedGood, Zeros
<1> HIDE DEF u
<1>5. Quiet(u.sendq)
  BY <1>3, <1>4, QuietQueues DEF SameQueues, Quiet
<1> QED BY <1>1, <1>2, <1>3, <1>4, <1>5, CloseServerSure

\* A ping sent straight to the server, and one more counted.
LEMMA ProbeSure ==
  ASSUME NEW s, Good(s), Sure(s)
  PROVE  Sure(Probe(s))
<1> DEFINE v == ServerGets(s.server, "PING", 0)
           c == [s.conn EXCEPT !.servertime = s.conn.servertime + 1]
           t == [s EXCEPT !.server = v, !.conn = c]
           u == CloseServer(s)
           d == [u.conn EXCEPT !.servertime = 0]
           w == [u EXCEPT !.conn = d]
<1>1. /\ s \in BotState /\ s.conn \in ConnRecord /\ s.server \in ServerRecord /\ ~s.server.gotold
      /\ Quiet(s.sendq) /\ (s.chan.kicked => s.chan.stay)
      /\ SameChan(s.chan, s.chan) /\ SameQueues(s.sendq, s.sendq)
  BY SureParts
<1>2. Probe(s) \in {s, w} \/ (Connected(s) /\ Probe(s) = t)
  BY DEF Probe, Silent
<1>3. v = ServerGets(s.server, "PING", 0)
  OBVIOUS
<1> HIDE DEF v
<1>4. ASSUME Connected(s) PROVE Sure(t)
  <2>1. c.status = s.conn.status /\ c.age = s.conn.age
    BY <1>1 DEF ConnRecord
  <2> HIDE DEF c
  <2>2. t.conn = c /\ t.sendq = s.sendq /\ t.server = v /\ t.chan = s.chan /\ t.exiting = s.exiting
    BY <1>1 DEF BotState
  <2> HIDE DEF t
  <2>3. /\ t.conn.status = s.conn.status /\ (Early(t) => Early(s)) /\ SameQueues(s.sendq, t.sendq)
        /\ SameChan(s.chan, t.chan) /\ t.server = ServerGets(s.server, "PING", 0)
    BY <1>1, <1>3, <2>1, <2>2 DEF Early
  <2>4. 0 \in Nick /\ "PING" \notin {"JOIN", "PART"}
    BY Zeros
  <2> QED BY <1>1, <1>4, <2>3, <2>4, GetsSure
<1>5. Sure(w)
  <2>1. u \in BotState /\ u.conn.status = "NEED_TO_CONNECT" /\ u.sendq = Aged(s.sendq) /\ u.chan = s.chan
    BY <1>1, CloseServerType DEF Disconnected, Good, Sound
  <2>2. Quiet(u.sendq)
    BY <2>1, SureParts, QuietQueues
  <2> HIDE DEF u
  <2>3. d.status = "NEED_TO_CONNECT"
    BY <2>1, PartsOf DEF ConnRecord
  <2> HIDE DEF d
  <2>4. w.conn = d /\ w.sendq = u.sendq /\ w.chan = u.chan
    BY <2>1 DEF BotState
  <2> HIDE DEF w
  <2> QED BY <1>1, <2>1, <2>2, <2>3, <2>4, SureOff
<1> HIDE DEF t, w
<1> QED BY <1>2, <1>4, <1>5

\* The ping that keeps the bucket's server talking.
LEMMA PingServerSure ==
  ASSUME NEW s, Good(s), Sure(s)
  PROVE  Sure(PingServer(s))
<1> DEFINE u == SendNow(s, "PING", 0)
           q == [u.sendq EXCEPT !.recentsent = u.sendq.recentsent - 1]
           t == [u EXCEPT !.sendq = q]
<1>1. s \in BotState
  BY SureParts
<1>2. PingServer(s) \in {s, t}
  BY DEF PingServer
<1>3. u \in BotState /\ Sure(u)
  <2>1. "PING" \in Command \ {"JOIN", "PART"} /\ 0 \in Nick
    BY Limits, Zeros
  <2>2. Sure(u)
    BY <1>1, <2>1, SendNowSure
  <2> QED BY <1>1, <2>1, <2>2, SendNowType
<1> HIDE DEF u
<1>4. SameQueues(u.sendq, q)
  BY <1>3, PartsOf, QuietQueues
<1> HIDE DEF q
<1>5. t.conn = u.conn /\ t.sendq = q /\ t.server = u.server /\ t.chan = u.chan /\ t.exiting = u.exiting
  BY <1>3 DEF BotState
<1> HIDE DEF t
<1>6. Sure(t)
  BY <1>3, <1>4, <1>5, SureAlike DEF SameChan, Early
<1> QED BY <1>2, <1>6
-----------------------------------------------------------------------------
(* The belief and the owner *)

\* The bot believes to be outside and is not expected to know.
LEMMA LeftSure ==
  ASSUME NEW s, NEW t, Sure(s), t.conn = s.conn, t.exiting = s.exiting, t.server = s.server, Quiet(t.sendq),
         ~t.chan.kicked, t.chan.on = FALSE, ~Trusted(t.chan),
         ~Connected(s) => t.sendq.normal = s.sendq.normal,
         Asks(t.sendq.normal, 0, "JOIN") => Asks(s.sendq.normal, 0, "JOIN")
  PROVE  Sure(t)
<1>1. ASSUME Connected(t) PROVE Minding(t)
  <2>1. Minding(s)
    BY <1>1 DEF Sure, Connected
  <2>2. Early(t) => Early(s)
    BY DEF Early
  <2> QED BY <2>1, <2>2, MindingUntrusted
<1> QED BY <1>1 DEF Sure, Connected

\* A field that is set.
LEMMA ChanSet ==
  ASSUME NEW s \in BotState, NEW c \in ChanRecord, NEW t, t = [s EXCEPT !.chan = c]
  PROVE  /\ t \in BotState /\ t.conn = s.conn /\ t.sendq = s.sendq /\ t.exiting = s.exiting
         /\ t.server = s.server /\ t.chan = c
  BY DEF BotState

\* The channel is not in the list any more.
LEMMA DroppedSure ==
  ASSUME NEW s \in BotState, NEW u \in BotState, Sure(s), u.conn = s.conn, u.exiting = s.exiting, u.server = s.server,
         Quiet(u.sendq), ~Connected(s) => u.sendq = s.sendq,
         Asks(u.sendq.normal, 0, "JOIN") => Asks(s.sendq.normal, 0, "JOIN")
  PROVE  Sure([u EXCEPT !.chan = Dropped(u.chan)])
<1> DEFINE c == Dropped(u.chan)
           t == [u EXCEPT !.chan = c]
<1>1. c \in ChanRecord /\ c.known = FALSE /\ c.on = FALSE /\ c.kicked = FALSE
  <2>1. u.chan \in ChanRecord
    BY PartsOf
  <2> QED BY <2>1 DEF Dropped, ChanRecord
<1> HIDE DEF c
<1>2. t.conn = u.conn /\ t.sendq = u.sendq /\ t.exiting = u.exiting /\ t.server = u.server /\ t.chan = c
  BY <1>1, ChanSet
<1> HIDE DEF t
<1>3. ~Trusted(t.chan)
  BY <1>1, <1>2 DEF Trusted
<1>4. Sure(t)
  BY <1>1, <1>2, <1>3, LeftSure
<1> QED BY <1>4 DEF t, c

\* PART, by its owner or because it is not in the file any more.
LEMMA PartSure ==
  ASSUME NEW s \in BotState, Sure(s)
  PROVE  LET u == Submit(s, "normal", "PART", 0)
         IN Sure([u EXCEPT !.chan = Dropped(u.chan)])
<1> DEFINE u == Submit(s, "normal", "PART", 0)
<1>1. Quiet(s.sendq)
  BY DEF Sure
<1>2. /\ u.conn = s.conn /\ u.exiting = s.exiting /\ u.server = s.server /\ u \in BotState
      /\ Quiet(u.sendq) /\ (~Connected(s) => u = s)
      /\ Asks(u.sendq.normal, 0, "JOIN") => Asks(s.sendq.normal, 0, "JOIN")
  BY <1>1, PartEffect
<1> HIDE DEF u
<1>3. ~Connected(s) => u.sendq = s.sendq
  BY <1>2
<1>4. Sure([u EXCEPT !.chan = Dropped(u.chan)])
  BY <1>2, <1>3, DroppedSure
<1> QED BY <1>4 DEF u

\* REHASH takes note that a channel is to be joined again after a kick.
LEMMA ForgivenSure ==
  ASSUME NEW s \in BotState, Sure(s)
  PROVE  Sure([s EXCEPT !.chan = Forgiven(s.chan)])
<1> DEFINE b == s.chan.lost \/ (s.chan.kicked /\ s.chan.on)
           c == [s.chan EXCEPT !.kicked = FALSE, !.lost = b]
           t == [s EXCEPT !.chan = c]
<1>1. s.chan \in ChanRecord /\ b \in BOOLEAN
  BY PartsOf
<1>2. Forgiven(s.chan) = c
  BY DEF Forgiven
<1>3. b <=> s.chan.lost \/ (s.chan.kicked /\ s.chan.on)
  OBVIOUS
<1> HIDE DEF b
<1>4. c \in ChanRecord /\ c.known = s.chan.known /\ c.on = s.chan.on /\ c.kicked = FALSE /\ c.lost = b
  BY <1>1 DEF ChanRecord
<1> HIDE DEF c
<1>5. t.conn = s.conn /\ t.sendq = s.sendq /\ t.exiting = s.exiting /\ t.server = s.server /\ t.chan = c
  BY <1>4, ChanSet
<1> HIDE DEF t
<1>6. (Trusted(t.chan) <=> Trusted(s.chan)) /\ (Early(t) <=> Early(s)) /\ t.chan.on = s.chan.on
  BY <1>3, <1>4, <1>5 DEF Trusted, Early
<1>7. ASSUME Minding(s) PROVE Minding(t)
  <2> DEFINE J == Asks(s.sendq.normal, 0, "JOIN")
             P == Asks(s.sendq.normal, 0, "PART")
             Y == Stays(s.sendq.normal, 0)
             L == s.server.lines
  <2>1. Minds(s.server, L, 0, s.chan, Early(s), J, P, Y)
    BY <1>7 DEF Minding
  <2> HIDE DEF J, P, Y, L
  <2>2. Minds(s.server, L, 0, t.chan, Early(t), J, P, Y)
    BY <1>6, <2>1 DEF Minds, Outside
  <2> QED BY <1>5, <2>2 DEF Minding, J, P, Y, L
<1>8. Sure(t)
  BY <1>4, <1>5, <1>7 DEF Sure, Connected
<1> QED BY <1>2, <1>8 DEF t

\* A channel that is taken into the list: it is not joined yet, unless an earlier JOIN
\* misleads.
LEMMA AddedSure ==
  ASSUME NEW s \in BotState, Sure(s)
  PROVE  Sure(Added(s)) /\ Added(s) \in BotState
<1> DEFINE b == Held(s)
           c == [s.chan EXCEPT !.known = TRUE, !.on = FALSE, !.kicked = FALSE, !.members = {}, !.lost = b]
           t == [s EXCEPT !.chan = c]
<1>1. s.chan \in ChanRecord /\ s.server \in ServerRecord /\ b \in BOOLEAN
  BY PartsOf DEF Held, ServerRecord
<1>2. Added(s) = t
  BY DEF Added
<1> HIDE DEF b
<1>3. c \in ChanRecord /\ c.on = FALSE /\ c.kicked = FALSE /\ c.lost = b
  BY <1>1 DEF ChanRecord
<1> HIDE DEF c
<1>4. t \in BotState /\ t.conn = s.conn /\ t.sendq = s.sendq /\ t.exiting = s.exiting /\ t.server = s.server /\ t.chan = c
  BY <1>3, ChanSet
<1> HIDE DEF t
<1>5. Quiet(t.sendq)
  BY <1>4 DEF Sure
<1>6. CASE b
  <2>1. ~Trusted(t.chan)
    BY <1>3, <1>4, <1>6 DEF Trusted
  <2>2. Sure(t)
    BY <1>3, <1>4, <1>5, <2>1, LeftSure
  <2> QED BY <1>2, <1>4, <2>2
<1>7. CASE ~b
  <2> DEFINE L == s.server.lines
             S == s.sendq.normal
  <2>1. L \in Seq(Line) /\ S \in Seq(MessageOf(BOOLEAN))
    BY <1>1, PartsOf DEF ServerRecord, QueueOf
  <2>2. ~s.server.on /\ (\A i \in 1..Len(L) : L[i].cmd # "JOIN_US") /\ \A i \in 1..Len(S) : S[i].cmd # "JOIN"
    <3>1. DOMAIN L = 1..Len(L) /\ DOMAIN S = 1..Len(S)
      BY <2>1
    <3> QED BY <1>7, <3>1 DEF b, Held
  <2> HIDE DEF L, S
  <2>3. 0 + 1 = 1
    OBVIOUS
  <2>4. Unasked(L, 0) /\ ~Asks(S, 0, "JOIN")
    BY <2>2, <2>3 DEF Unasked, Asks
  <2>5. Outside(L, 0, c, s.server) /\ ~WillBelieve(L, 0, c.on)
    BY <1>3, <2>2, <2>4, OutsideBelieves DEF Outside
  <2>6. Minds(s.server, L, 0, c, Early(t), Asks(S, 0, "JOIN"), Asks(S, 0, "PART"), Stays(S, 0))
    BY <2>2, <2>4, <2>5 DEF Minds, Fits
  <2>7. Minding(t)
    BY <1>4, <2>6 DEF Minding, L, S
  <2>8. Sure(t)
    BY <1>3, <1>4, <2>7 DEF Sure, Connected
  <2> QED BY <1>2, <1>4, <2>8
<1> QED BY <1>6, <1>7

\* a_rehash_channels.
LEMMA RehashChannelsSure ==
  ASSUME NEW s \in BotState, Sure(s), NEW wanted, NEW jump
  PROVE  Sure(RehashChannels(s, wanted, jump))
<1> DEFINE u == Submit(s, "normal", "PART", 0)
<1>1. CASE s.chan.known /\ wanted
  BY <1>1, ForgivenSure DEF RehashChannels
<1>2. CASE s.chan.known /\ ~wanted
  <2>1. RehashChannels(s, wanted, jump) \in {[s EXCEPT !.chan = Dropped(s.chan)], [u EXCEPT !.chan = Dropped(u.chan)]}
    BY <1>2 DEF RehashChannels
  <2>2. Sure([u EXCEPT !.chan = Dropped(u.chan)])
    BY PartSure
  <2>3. Sure([s EXCEPT !.chan = Dropped(s.chan)])
    <3>1. Quiet(s.sendq)
      BY DEF Sure
    <3> QED BY <3>1, DroppedSure
  <2> HIDE DEF u
  <2> QED BY <2>1, <2>2, <2>3
<1>3. CASE ~s.chan.known /\ wanted
  <2>1. RehashChannels(s, wanted, jump) \in {Added(s), JoinChannel(Added(s))}
    BY <1>3 DEF RehashChannels
  <2> QED BY <2>1, AddedSure, JoinChannelSure
<1>4. CASE ~s.chan.known /\ ~wanted
  BY <1>4 DEF RehashChannels
<1> QED BY <1>1, <1>2, <1>3, <1>4

\* A PART is queued and the bot does not believe to be there any more: it may still, if a
\* JOIN went out since, and what then is done about it is for the JOIN that follows.
LEMMA HoppedSure ==
  ASSUME NEW s \in BotState, Sure(s), NEW u \in BotState, NEW c \in ChanRecord, NEW m \in MessageOf(BOOLEAN),
         u.conn = s.conn, u.exiting = s.exiting, u.server = s.server, Quiet(u.sendq), Connected(s),
         m.cmd = "PART", u.sendq.normal = Append(s.sendq.normal, m), s.conn.age < waitjoin,
         c.known = s.chan.known, c.lost = s.chan.lost, ~c.on, ~c.kicked,
         NEW t, t = [u EXCEPT !.chan = c]
  PROVE  Sure(t)
<1>1. t.conn = s.conn /\ t.sendq = u.sendq /\ t.exiting = s.exiting /\ t.server = s.server /\ t.chan = c
  BY ChanSet
<1> DEFINE L == s.server.lines
           S == s.sendq.normal
           R == u.sendq.normal
<1>2. Minds(s.server, L, 0, s.chan, Early(s), Asks(S, 0, "JOIN"), Asks(S, 0, "PART"), Stays(S, 0))
  BY DEF Sure, Minding
<1>3. /\ Asks(R, 0, "JOIN") <=> Asks(S, 0, "JOIN")
      /\ Asks(R, 0, "PART")
  <2>1. S \in Seq(MessageOf(BOOLEAN))
    BY PartsOf DEF QueueOf
  <2> QED BY <2>1, AsksAppend
<1>4. Early(s) /\ c.on \in BOOLEAN
  BY DEF Early, ChanRecord
<1> HIDE DEF L, S, R
<1>5. Minds(s.server, L, 0, c, Early(t), Asks(R, 0, "JOIN"), Asks(R, 0, "PART"), Stays(R, 0))
  <2> SUFFICES ASSUME s.server.link = "open"
               PROVE  /\ Outside(L, 0, c, s.server) /\ ~Asks(R, 0, "JOIN")
                      /\ ~WillBelieve(L, 0, c.on)
    BY DEF Minds, Fits, Outside
  <2>1. Outside(L, 0, s.chan, s.server) /\ ~Asks(S, 0, "JOIN")
    BY <1>2, <1>4 DEF Minds
  <2> QED BY <1>3, <1>4, <2>1, OutsideBelieves DEF Outside
<1>6. Minding(t)
  BY <1>1, <1>5 DEF Minding, L, R
<1> QED BY <1>1, <1>6 DEF Sure, Connected

\* CYCLE: the PART and the JOIN that follows it both fit into the queue.
LEMMA HopSure ==
  ASSUME MaxWaiting < MAXSENDQ, NEW s \in BotState, Sure(s), s.chan.known, Waiting(s.sendq) < MaxWaiting
  PROVE  Sure(JoinChannel([Submit(s, "normal", "PART", 0) EXCEPT
                             !.chan = [@ EXCEPT !.members = {}, !.on = FALSE, !.kicked = FALSE]]))
<1> DEFINE u == Submit(s, "normal", "PART", 0)
           c == [u.chan EXCEPT !.members = {}, !.on = FALSE, !.kicked = FALSE]
           t == [u EXCEPT !.chan = c]
           S == s.sendq.normal
<1>1. Quiet(s.sendq) /\ S \in Seq(MessageOf(BOOLEAN)) /\ s.chan \in ChanRecord
  BY PartsOf DEF Sure, QueueOf
<1>2. Len(S) \in Nat /\ Len(S) + 1 < MAXSENDQ
  <2>1. Len(s.sendq.fast) \in Nat /\ Len(s.sendq.slow) \in Nat /\ Len(S) \in Nat
    BY PartsOf DEF QueueOf
  <2>2. MaxWaiting \in Nat /\ MAXSENDQ \in Nat
    BY NetworkAssumption, Limits
  <2>3. Len(s.sendq.fast) + Len(S) + Len(s.sendq.slow) < MaxWaiting
    BY DEF Waiting
  <2> DEFINE a == Len(s.sendq.fast)
             b == Len(s.sendq.slow)
             l == Len(S)
  <2> HIDE DEF a, b, l
  <2>4. a \in Nat /\ b \in Nat /\ l \in Nat /\ a + l + b < MaxWaiting
    BY <2>1, <2>3 DEF a, b, l
  <2>5. l \in Nat /\ l + 1 < MAXSENDQ
    BY <2>2, <2>4
  <2> QED BY <2>5 DEF l
<1>3. /\ u.conn = s.conn /\ u.chan = s.chan /\ u.exiting = s.exiting /\ u.server = s.server /\ u \in BotState
      /\ Quiet(u.sendq)
      /\ ~Connected(s) \/ s.exiting # "no" => u = s
      /\ Connected(s) /\ s.exiting = "no" =>
           \E m \in MessageOf(BOOLEAN) : m.cmd = "PART" /\ u.sendq.normal = Append(S, m)
  <2>1. Len(s.sendq.normal) < MAXSENDQ
    BY <1>2, Limits
  <2> QED BY <1>1, <2>1, PartEffect
<1> HIDE DEF u
<1>4. /\ c \in ChanRecord /\ c.known = TRUE /\ c.on = FALSE /\ c.kicked = FALSE /\ c.lost = s.chan.lost
      /\ c.stay = s.chan.stay
  BY <1>1, <1>3 DEF ChanRecord
<1> HIDE DEF c
<1>5. /\ t \in BotState /\ t.conn = s.conn /\ t.sendq = u.sendq /\ t.exiting = s.exiting /\ t.server = s.server
      /\ t.chan = c
  BY <1>3, <1>4, ChanSet
<1>6. CASE ~Connected(s)
  <2>1. Sure(t)
    BY <1>3, <1>4, <1>5, <1>6 DEF Sure, Connected
  <2> HIDE DEF t
  <2>2. Sure(JoinChannel(t))
    BY <1>5, <2>1, JoinChannelSure
  <2> QED BY <2>2 DEF t, c, u
<1>7. CASE Connected(s) /\ s.exiting # "no"
  <2> DEFINE L == s.server.lines
  <2>1. Minds(s.server, L, 0, s.chan, Early(s), Asks(S, 0, "JOIN"), Asks(S, 0, "PART"), Stays(S, 0))
    BY <1>7 DEF Sure, Minding
  <2>2. Early(s) /\ t.sendq.normal = S
    BY <1>3, <1>5, <1>7 DEF Early
  <2>3. Minding(t)
    <3> HIDE DEF S, L, t
    <3>1. ASSUME s.server.link = "open"
          PROVE  /\ Outside(L, 0, c, s.server) /\ ~Asks(S, 0, "JOIN")
                 /\ Trusted(c) => Fits(WillBelieve(L, 0, c.on), s.server.on, Asks(S, 0, "JOIN"), Asks(S, 0, "PART"), Stays(S, 0))
      <4>1. Outside(L, 0, s.chan, s.server) /\ ~Asks(S, 0, "JOIN")
        BY <2>1, <2>2, <3>1 DEF Minds
      <4>2. s.chan.on = c.on
        BY <1>1, <1>4, <4>1 DEF Outside, ChanRecord
      <4>3. Trusted(c) => Trusted(s.chan)
        BY <1>4, <4>2 DEF Trusted
      <4> QED BY <2>1, <3>1, <4>1, <4>2, <4>3 DEF Minds, Outside
    <3>2. Minds(s.server, L, 0, c, Early(t), Asks(S, 0, "JOIN"), Asks(S, 0, "PART"), Stays(S, 0))
      BY <3>1 DEF Minds
    <3> QED BY <1>5, <2>2, <3>2 DEF Minding, L
  <2>4. Sure(t)
    BY <1>3, <1>4, <1>5, <1>7, <2>3 DEF Sure, Connected
  <2> HIDE DEF t
  <2>5. Sure(JoinChannel(t))
    BY <1>5, <2>4, JoinChannelSure
  <2> QED BY <2>5 DEF t, c, u
<1>8. CASE Connected(s) /\ s.exiting = "no" /\ s.conn.age < waitjoin
  <2>1. PICK m \in MessageOf(BOOLEAN) : m.cmd = "PART" /\ u.sendq.normal = Append(S, m)
    BY <1>3, <1>8
  <2>2. t = [u EXCEPT !.chan = c] /\ c.known = s.chan.known /\ ~c.on /\ ~c.kicked
    BY <1>4
  <2>3. Sure(t)
    BY <1>3, <1>4, <1>8, <2>1, <2>2, HoppedSure
  <2> HIDE DEF t
  <2>4. Sure(JoinChannel(t))
    BY <1>5, <2>3, JoinChannelSure
  <2> QED BY <2>4 DEF t, c, u
<1>9. CASE Connected(s) /\ s.exiting = "no" /\ ~(s.conn.age < waitjoin)
  <2>1. PICK m \in MessageOf(BOOLEAN) : m.cmd = "PART" /\ u.sendq.normal = Append(S, m)
    BY <1>3, <1>9
  <2> DEFINE x == Submit(t, "normal", "JOIN", 0)
             d == [x.chan EXCEPT !.members = {}]
             y == [x EXCEPT !.chan = d]
             R == u.sendq.normal
             T == x.sendq.normal
  <2>2. JoinChannel(t) = y
    BY <1>4, <1>5, <1>9 DEF JoinChannel
  <2>3. R \in Seq(MessageOf(BOOLEAN)) /\ Len(R) = Len(S) + 1
    BY <1>1, <2>1
  <2>4. "normal" \in Queue /\ "JOIN" \in Command /\ 0 \in Nick
    BY Limits, Zeros DEF Queue
  <2> HIDE DEF t
  <2>5. /\ x.conn = t.conn /\ x.chan = t.chan /\ x.exiting = t.exiting /\ x.server = t.server /\ x \in BotState
        /\ Queued(t.sendq, x.sendq, "normal", "JOIN")
    <3>1. Connected(t) /\ t.exiting = "no" /\ Len(t.sendq["normal"]) < MAXSENDQ
      BY <1>2, <1>5, <1>9, <2>3 DEF Connected
    <3> QED BY <1>5, <2>4, <3>1, SubmitEffect
  <2> HIDE DEF x
  <2>6. PICK n \in MessageOf(BOOLEAN) :
          /\ n.cmd = "JOIN" /\ x.sendq["normal"] = Append(t.sendq["normal"], n)
          /\ \A z \in Queue \ {"normal"} : x.sendq[z] = t.sendq[z]
    BY <2>5 DEF Queued
  <2>7. /\ d \in ChanRecord /\ d.known = TRUE /\ d.on = FALSE /\ d.kicked = FALSE /\ d.lost = s.chan.lost
    BY <1>4, <1>5, <2>5 DEF ChanRecord
  <2> HIDE DEF d
  <2>8. /\ y.conn = s.conn /\ y.sendq = x.sendq /\ y.exiting = s.exiting /\ y.server = s.server /\ y.chan = d
    BY <1>5, <2>5, <2>7, ChanSet
  <2> HIDE DEF y
  <2>9. Asks(T, 0, "JOIN") /\ Asks(T, 0, "PART") /\ Stays(T, 0)
    <3>1. Asks(R, 0, "PART")
      BY <1>1, <2>1, AsksAppend
    <3>2. T = Append(R, n)
      BY <1>5, <2>6
    <3> HIDE DEF R, T
    <3> QED BY <2>3, <2>6, <3>1, <3>2, AsksAppend
  <2>10. Quiet(y.sendq)
    <3>1. x.sendq.fast = u.sendq.fast /\ x.sendq.slow = u.sendq.slow
      BY <1>5, <2>6 DEF Queue
    <3> QED BY <1>3, <2>8, <3>1 DEF Quiet
  <2> DEFINE L == s.server.lines
  <2>11. Minds(s.server, L, 0, s.chan, Early(s), Asks(S, 0, "JOIN"), Asks(S, 0, "PART"), Stays(S, 0))
    BY <1>9 DEF Sure, Minding
  <2> HIDE DEF S, T, L
  <2>12. Minds(s.server, L, 0, d, Early(y), Asks(T, 0, "JOIN"), Asks(T, 0, "PART"), Stays(T, 0))
    <3>1. ~Early(y)
      BY <1>9, <2>8 DEF Early
    <3> QED BY <2>7, <2>9, <2>11, <3>1 DEF Minds, Outside, Fits
  <2>13. Minding(y)
    BY <2>8, <2>12 DEF Minding, L, T
  <2>14. Sure(y)
    BY <1>9, <2>7, <2>8, <2>10, <2>13 DEF Sure, Connected
  <2> QED BY <2>2, <2>14 DEF t, c, u
<1> QED BY <1>6, <1>7, <1>8, <1>9
-----------------------------------------------------------------------------
(* The belief and the actions *)

\* The invariant looks at these variables only.
LEMMA VariablesSure ==
  ASSUME NEW t, Sure(t), conn' = t.conn, chan' = t.chan, sendq' = t.sendq, exiting' = t.exiting, server' = t.server
  PROVE  Sure(Now')
<1>1. /\ Now'.conn = t.conn /\ Now'.chan = t.chan /\ Now'.sendq = t.sendq /\ Now'.exiting = t.exiting
      /\ Now'.server = t.server
  BY DEF Now
<1>2. /\ SameQueues(t.sendq, Now'.sendq) /\ SameChan(t.chan, Now'.chan) /\ (Early(Now') => Early(t))
      /\ Now'.conn.status = t.conn.status
  BY <1>1 DEF SameQueues, SameChan, Early
<1> DEFINE n == Now'
<1>3. n.server = t.server
  BY <1>1
<1> QED BY <1>2, <1>3, SureAlike

LEMMA BecomesSure ==
  ASSUME NEW t, Sure(t), Becomes(t)
  PROVE  Sure(Now')
  BY VariablesSure DEF Becomes

LEMMA PassSure ==
  ASSUME NEW e, Sure(e), NEW f, Good(f), Sure(f), conn.status = "RESOLVING" => f.server.link = "none",
         Becomes(e) \/ Becomes(EverySecond(f, conn.status, TRUE))
  PROVE  Sure(Now')
<1>1. Sure(EverySecond(f, conn.status, TRUE))
  BY EverySecondSure
<1> QED BY <1>1, BecomesSure

\* The periodic work.
LEMMA PeriodsSure ==
  ASSUME Good(Now), Sure(Now), Periods
  PROVE  Sure(Now')
<1>1. CASE FiveSeconds
  <2>1. Good(Probe(Now)) /\ Sure(Probe(Now))
    BY ProbeGood, ProbeSure
  <2>2. Sure(FiveWork)
    BY <2>1, PingServerSure DEF FiveWork
  <2>3. Becomes(FiveWork)
    BY <1>1 DEF FiveSeconds
  <2> QED BY <2>2, <2>3, BecomesSure
<1>2. CASE TwentySeconds
  <2> DEFINE t == IF Connected(Now) /\ ~chan.on THEN JoinChannel(Now) ELSE Now
  <2>1. t \in BotState /\ Sure(t)
    BY NowParts, JoinChannelType, JoinChannelSure
  <2>2. TwentyWork = Regain(t)
    BY DEF TwentyWork
  <2> HIDE DEF t
  <2>3. Regain(t) \in {t, Submit(t, "normal", "NICK", 0)}
    BY DEF Regain
  <2>4. Sure(Submit(t, "normal", "NICK", 0))
    <3>1. "normal" \in Queue /\ "NICK" \in Command \ {"JOIN", "PART"} /\ 0 \in Nick
      BY Limits, Zeros DEF Queue
    <3> QED BY <2>1, <3>1, SubmitSure
  <2>5. Becomes(TwentyWork)
    BY <1>2 DEF TwentySeconds
  <2> QED BY <2>1, <2>2, <2>3, <2>4, <2>5, BecomesSure
<1>3. ASSUME NEW forked \in BOOLEAN, Second(forked) PROVE Sure(Now')
  <2> DEFINE t == Tick(Now)
  <2>1. Good(t) /\ Sure(t) /\ (conn.status = "RESOLVING" => t.server.link = "none")
    BY TickType, TickSure, NowParts DEF Linked
  <2>2. Becomes(EverySecond(t, conn.status, forked))
    BY <1>3 DEF Second, SecondWork
  <2> HIDE DEF t
  <2>3. Sure(EverySecond(t, conn.status, forked))
    BY <2>1, EverySecondSure
  <2> QED BY <2>2, <2>3, BecomesSure
<1> QED BY <1>1, <1>2, <1>3 DEF Periods

\* The resolver.
LEMMA ResolverSure ==
  ASSUME Good(Now), Sure(Now), ChildAnswers \/ ChildEnds \/ Reap \/ ReadAnswerFails
  PROVE  Sure(Now')
<1>1. /\ Now.conn = conn /\ Now.chan = chan /\ Now.sendq = sendq /\ Now.exiting = exiting /\ Now.server = server
      /\ Now \in BotState /\ Quiet(sendq) /\ (chan.kicked => chan.stay)
  BY NowParts DEF Sure
<1>2. CASE ChildAnswers \/ ChildEnds
  <2>1. UNCHANGED <<conn, chan, sendq, exiting, server>>
    BY <1>2 DEF ChildAnswers, ChildEnds
  <2> QED BY <1>1, <2>1, VariablesSure
<1>3. ASSUME NEW status \in {conn.status, "NEED_TO_CONNECT"}, NEW l, conn.status = "RESOLVING" \/ status = conn.status,
             Becomes([To(Now, status) EXCEPT !.lookup = l])
      PROVE  Sure(Now')
  <2> DEFINE t == To(Now, status)
             u == [t EXCEPT !.lookup = l]
  <2>1. status \in Status
    BY <1>1, PartsOf DEF Status, ConnRecord
  <2>2. /\ t \in BotState /\ t.conn.status = status /\ t.chan = chan /\ t.sendq = sendq /\ t.exiting = exiting
        /\ t.server = server /\ t.conn.age = conn.age
    <3>1. /\ t \in BotState /\ t.conn.status = status /\ t.chan = chan /\ t.sendq = sendq /\ t.exiting = exiting
          /\ t.server = server
      BY <1>1, <2>1, ToType
    <3>2. t.conn = [conn EXCEPT !.status = status] /\ conn \in ConnRecord
      BY <1>1, PartsOf DEF To, BotState
    <3>3. t.conn.age = conn.age
      BY <3>2 DEF ConnRecord
    <3> QED BY <3>1, <3>3
  <2> HIDE DEF t
  <2>3. Sure(t)
    <3>1. CASE status = conn.status
      <4>1. SameQueues(Now.sendq, t.sendq) /\ SameChan(Now.chan, t.chan) /\ (Early(t) => Early(Now))
        BY <1>1, <2>2 DEF SameQueues, SameChan, Early
      <4> QED BY <1>1, <2>2, <3>1, <4>1, SureAlike
    <3>2. CASE status = "NEED_TO_CONNECT"
      BY <1>1, <2>2, <3>2, SureOff
    <3> QED BY <3>1, <3>2
  <2>4. /\ u.conn = t.conn /\ u.chan = t.chan /\ u.sendq = t.sendq /\ u.exiting = t.exiting /\ u.server = t.server
    BY <2>2 DEF BotState
  <2>5. Becomes(u)
    BY <1>3 DEF t
  <2> HIDE DEF u
  <2> QED BY <2>3, <2>4, <2>5, VariablesSure DEF Becomes
<1>4. CASE Reap
  <2> DEFINE status == IF conn.status = "RESOLVING" THEN "NEED_TO_CONNECT" ELSE conn.status
             t == To(Now, status)
             l == [t.lookup EXCEPT !.child = "none", !.answer = 0, !.reset = FALSE]
  <2>1. Becomes([t EXCEPT !.lookup = l])
    BY <1>4 DEF Reap
  <2>2. status \in {conn.status, "NEED_TO_CONNECT"} /\ (conn.status = "RESOLVING" \/ status = conn.status)
    OBVIOUS
  <2> HIDE DEF l, status
  <2> QED BY <1>3, <2>1, <2>2
<1>5. CASE ReadAnswerFails
  <2> DEFINE t == To(Now, "NEED_TO_CONNECT")
             l == [t.lookup EXCEPT !.next = IF lookup.reset THEN 0 ELSE lookup.next, !.answer = 0, !.reset = FALSE]
  <2>1. conn.status = "RESOLVING" /\ Becomes([t EXCEPT !.lookup = l])
    BY <1>5 DEF ReadAnswerFails
  <2> HIDE DEF l
  <2> QED BY <1>3, <2>1
<1> QED BY <1>2, <1>4, <1>5

\* What happens on the network's socket.
LEMMA SocketSure ==
  ASSUME Good(Now), Sure(Now),
         \/ ReadAnswer \/ ConnectFails
         \/ \E errno \in {"other", "EAGAIN"} : ReadEnd(errno)
         \/ \E r \in Result : ConnectDone(r) \/ HandshakeStep(r)
         \/ \E n \in Nat : Read(n)
  PROVE  Sure(Now')
<1> DEFINE t == Tick(Now)
<1>1. /\ Now.conn = conn /\ Now.server = server /\ Now \in BotState
      /\ conn.status = "RESOLVING" => Now.server.link = "none"
  BY NowParts DEF Linked
<1>2. Good(t) /\ Sure(t) /\ t.conn.status = conn.status /\ t.server = server
  <2>1. Good(t) /\ t.conn.status = conn.status /\ t.server = server
    BY <1>1, TickType
  <2> QED BY <2>1, TickSure
<1> HIDE DEF t
<1>3. CASE ReadAnswer
  <2>1. /\ conn.status = "RESOLVING"
        /\ Becomes(Answered(Now)) \/ Becomes(EverySecond(Answered(t), conn.status, TRUE))
    BY <1>3 DEF ReadAnswer, Pass, t
  <2>2. Good(Answered(t)) /\ Answered(t).server = server
    BY <1>1, <1>2, <2>1, AnsweredGood
  <2>3. Sure(Answered(Now)) /\ Sure(Answered(t))
    BY <1>1, <1>2, <2>1, AnsweredSure
  <2>4. Answered(t).server.link = "none"
    BY <1>1, <2>1, <2>2
  <2> DEFINE e == Answered(Now)
             f == Answered(t)
  <2> HIDE DEF e, f
  <2>5. /\ Sure(e) /\ Good(f) /\ Sure(f) /\ f.server.link = "none"
        /\ Becomes(e) \/ Becomes(EverySecond(f, conn.status, TRUE))
    BY <2>1, <2>2, <2>3, <2>4 DEF e, f
  <2> QED BY <2>5, PassSure
<1>4. CASE ConnectFails
  <2> DEFINE e == CloseServer([Now EXCEPT !.lookup.addr = 0])
             f == CloseServer([t EXCEPT !.lookup.addr = 0])
  <2>1. /\ conn.status = "TRYING"
        /\ Becomes(e) \/ Becomes(EverySecond(f, conn.status, TRUE))
    BY <1>4 DEF ConnectFails, Pass, t
  <2>2. ASSUME NEW s, Good(s), Sure(s)
        PROVE  Good(CloseServer([s EXCEPT !.lookup.addr = 0])) /\ Sure(CloseServer([s EXCEPT !.lookup.addr = 0]))
    <3> DEFINE l == [s.lookup EXCEPT !.addr = 0]
               u == [s EXCEPT !.lookup = l]
    <3>1. s \in BotState /\ ~s.server.gotold /\ Quiet(s.sendq) /\ (s.chan.kicked => s.chan.stay)
      BY <2>2, SureParts
    <3>2. l \in LookupRecord
      <4>1. s.lookup \in LookupRecord /\ 0 \in 0..Addresses
        BY <3>1, PartsOf, Zeros
      <4> QED BY <4>1 DEF LookupRecord
    <3> HIDE DEF l
    <3>3. u \in BotState /\ u.sendq = s.sendq /\ u.chan = s.chan /\ u.server = s.server
      BY <3>1, <3>2 DEF BotState
    <3> HIDE DEF u
    <3>4. Good(CloseServer(u)) /\ Sure(CloseServer(u))
      BY <3>1, <3>3, CloseServerType, CloseServerSure
    <3> QED BY <3>4 DEF u, l
  <2>3. Sure(e) /\ Good(f) /\ Sure(f)
    BY <1>2, <2>2
  <2> HIDE DEF e, f
  <2> QED BY <2>1, <2>3, PassSure
<1>5. ASSUME NEW errno, ReadEnd(errno) PROVE Sure(Now')
  <2> DEFINE e == Ended(Now, errno)
             f == Ended(t, errno)
  <2>1. /\ conn.status = "CONNECTED"
        /\ Becomes(e) \/ Becomes(EverySecond(f, conn.status, TRUE))
    BY <1>5 DEF ReadEnd, Pass, t
  <2>2. Good(f) /\ Sure(e) /\ Sure(f)
    BY <1>2, EndedGood, EndedSure
  <2> HIDE DEF e, f
  <2> QED BY <2>1, <2>2, PassSure
<1>6. ASSUME NEW r, ConnectDone(r) PROVE Sure(Now')
  <2> DEFINE e == HandshakeSsl(Established(Now), r)
             f == HandshakeSsl(Established(t), r)
  <2>1. /\ conn.status = "TRYING"
        /\ Becomes(e) \/ Becomes(EverySecond(f, conn.status, TRUE))
    BY <1>6 DEF ConnectDone, Pass, t
  <2>2. Good(f) /\ Sure(e) /\ Sure(f)
    BY <1>1, <1>2, <2>1, EstablishedGood, EstablishedSure
  <2> HIDE DEF e, f
  <2> QED BY <2>1, <2>2, PassSure
<1>7. ASSUME NEW r, HandshakeStep(r) PROVE Sure(Now')
  <2> DEFINE e == HandshakeSsl(Now, r)
             f == HandshakeSsl(t, r)
  <2>1. /\ conn.status = "SSL_HANDSHAKE"
        /\ Becomes(e) \/ Becomes(EverySecond(f, conn.status, TRUE))
    BY <1>7 DEF HandshakeStep, Pass, t
  <2>2. ASSUME NEW s, Good(s), Sure(s), s.conn.status = "SSL_HANDSHAKE" PROVE Sure(HandshakeSsl(s, r))
    BY <2>2, HandshakeSslSure DEF Sure
  <2>3. Good(f) /\ Sure(e) /\ Sure(f)
    BY <1>1, <1>2, <2>1, <2>2, HandshakeSslGood
  <2> HIDE DEF e, f
  <2> QED BY <2>1, <2>3, PassSure
<1>8. ASSUME NEW n, Read(n) PROVE Sure(Now')
  <2> DEFINE e == LinesRead(Now, n)
             f == LinesRead(t, n)
  <2>1. /\ conn.status = "CONNECTED" /\ n \in DOMAIN server.lines
        /\ Becomes(e) \/ Becomes(EverySecond(f, conn.status, TRUE))
    BY <1>8 DEF Read, Pass, t
  <2>2. Connected(Now) /\ Connected(t)
    BY <1>1, <1>2, <2>1 DEF Connected
  <2>3. Good(f) /\ Sure(e) /\ Sure(f)
    BY <1>1, <1>2, <2>1, <2>2, LinesReadGood, LinesReadSure
  <2> HIDE DEF e, f
  <2> QED BY <2>1, <2>3, PassSure
<1> QED BY <1>3, <1>4, <1>5, <1>6, <1>7, <1>8

\* The bot ends.
LEMMA ExitSure ==
  ASSUME Good(Now), Sure(Now), Exit
  PROVE  Sure(Now')
<1>1. conn' = Now.conn /\ chan' = Now.chan /\ sendq' = Now.sendq /\ server' = Now.server /\ conn.status # "CONNECTED"
  BY NowParts DEF Exit
<1> DEFINE t == [Now EXCEPT !.exiting = "exited"]
<1>2. /\ t.conn = Now.conn /\ t.chan = Now.chan /\ t.sendq = Now.sendq /\ t.server = Now.server /\ t.exiting = "exited"
      /\ exiting' = "exited"
  BY NowParts DEF BotState, Exit
<1> HIDE DEF t
<1>3. t.conn.status # "CONNECTED"
  BY <1>1, <1>2, NowParts
<1>4. Sure(t)
  BY <1>2, <1>3 DEF Sure, Connected
<1> QED BY <1>1, <1>2, <1>4, VariablesSure

\* SHUTDOWN: at once without a connection; with one the server hangs up after the QUIT.
LEMMA ShutdownSure ==
  ASSUME Good(Now), Sure(Now), NEW left \in BOOLEAN, Shutdown(left)
  PROVE  Sure(Now')
<1>1. /\ Now.conn = conn /\ Now.chan = chan /\ Now.server = server /\ Now.sendq = sendq /\ Now.exiting = exiting
      /\ Now \in BotState /\ sendq \in QueueOf(BOOLEAN) /\ server \in ServerRecord
      /\ Quiet(sendq) /\ (chan.kicked => chan.stay)
  BY NowParts, PartsOf DEF Sure
<1> DEFINE d == [Now EXCEPT !.exiting = "exited"]
           q == Cleaned(sendq)
           s == [Now EXCEPT !.sendq = q]
           t == IF left THEN Submit(s, "normal", "PRIVMSG", 0) ELSE s
           v == ServerGets(t.server, "QUIT", 0)
           x == [t EXCEPT !.server = v, !.exiting = "yes"]
<1>2. IF exiting = "yes" \/ ~Connected(Now) THEN Becomes(d) ELSE Becomes(x)
  <2>1. s = [Now EXCEPT !.sendq = Cleaned(Now.sendq)]
    BY <1>1
  <2>2. x = [t EXCEPT !.server = ServerGets(t.server, "QUIT", 0), !.exiting = "yes"]
    OBVIOUS
  <2> HIDE DEF x
  <2> QED BY <2>1, <2>2 DEF Shutdown
<1>3. CASE exiting = "yes" \/ ~Connected(Now)
  <2>1. /\ d.conn = conn /\ d.chan = chan /\ d.server = server /\ d.sendq = sendq
    BY <1>1 DEF BotState
  <2>2. Becomes(d)
    BY <1>2, <1>3
  <2> HIDE DEF d, x
  <2>3. Sure(d)
    <3>1. CASE exiting = "yes"
      <4>1. SameQueues(Now.sendq, d.sendq) /\ SameChan(Now.chan, d.chan) /\ Early(Now)
        BY <1>1, <2>1, <3>1 DEF SameQueues, SameChan, Early
      <4> QED BY <1>1, <2>1, <4>1, SureAlike
    <3>2. CASE ~Connected(Now)
      BY <1>1, <2>1, <3>2 DEF Sure, Connected
    <3> QED BY <1>3, <3>1, <3>2
  <2> QED BY <2>2, <2>3, BecomesSure
<1>4. CASE ~(exiting = "yes" \/ ~Connected(Now))
  <2>1. q \in QueueOf(BOOLEAN) /\ Quiet(q)
    <3>1. BOOLEAN \in Ghost
      BY DEF Ghost
    <3> QED BY <1>1, <3>1, CleanedType, QuietQueues
  <2> HIDE DEF q
  <2>2. /\ s \in BotState /\ s.conn = conn /\ s.chan = chan /\ s.server = server /\ s.sendq = q
    BY <1>1, <2>1 DEF BotState
  <2> HIDE DEF s
  <2>3. /\ t \in BotState /\ t.conn = conn /\ t.chan = chan /\ t.server = server /\ Quiet(t.sendq)
    <3> DEFINE u == Submit(s, "normal", "PRIVMSG", 0)
    <3>1. "normal" \in Queue /\ "PRIVMSG" \in Command /\ 0 \in Nick
      BY Limits, Zeros DEF Queue
    <3>2. /\ u \in BotState /\ u.conn = conn /\ u.chan = chan /\ u.server = server
          /\ u = s \/ Queued(s.sendq, u.sendq, "normal", "PRIVMSG")
      BY <2>2, <3>1, SubmitEffect
    <3> HIDE DEF u
    <3>3. u.sendq.fast = s.sendq.fast /\ u.sendq.slow = s.sendq.slow
      BY <3>2 DEF Queued, Queue
    <3>4. Quiet(u.sendq) /\ Quiet(s.sendq)
      BY <2>1, <2>2, <3>3 DEF Quiet
    <3>5. t = IF left THEN u ELSE s
      BY DEF u
    <3> QED BY <2>2, <3>2, <3>4, <3>5
  <2> HIDE DEF t
  <2>4. v \in ServerRecord /\ v.link # "open"
    <3> DEFINE w == Says(server, "ERROR", {}, 0)
    <3>1. v = IF server.link # "open" THEN server ELSE HangsUp(w)
      BY <2>3 DEF ServerGets
    <3>2. w \in ServerRecord
      <4>1. "ERROR" \in LineCmd /\ {} \in SUBSET Person /\ 0 \in Nick
        BY Zeros DEF LineCmd
      <4> QED BY <1>1, <4>1, SaysLine DEF Adds
    <3> HIDE DEF w
    <3>3. HangsUp(w).link = "closed" /\ HangsUp(w) \in ServerRecord
      BY <3>2 DEF HangsUp, ServerRecord
    <3> HIDE DEF v
    <3> QED BY <1>1, <3>1, <3>3
  <2> HIDE DEF v
  <2>5. x.conn = conn /\ x.chan = chan /\ x.server = v /\ x.sendq = t.sendq
    BY <2>3 DEF BotState
  <2>6. Becomes(x)
    BY <1>2, <1>4
  <2> HIDE DEF d, x
  <2>7. Minding(x)
    BY <2>4, <2>5 DEF Minding, Minds
  <2>8. Connected(x) /\ Quiet(x.sendq) /\ (x.chan.kicked => x.chan.stay)
    BY <1>1, <1>4, <2>3, <2>5 DEF Connected
  <2>9. Sure(x)
    BY <2>7, <2>8, SureOn
  <2> QED BY <2>6, <2>9, BecomesSure
<1> QED BY <1>3, <1>4

\* What the owner and the rest of the bot do.
LEMMA OwnerSure ==
  ASSUME MaxWaiting < MAXSENDQ, Good(Now), Sure(Now), Owner
  PROVE  Sure(Now')
<1>1. /\ Now.conn = conn /\ Now.chan = chan /\ Now.server = server /\ Now.sendq = sendq /\ Now.exiting = exiting
      /\ Now \in BotState /\ conn \in ConnRecord /\ chan \in ChanRecord /\ sendq \in QueueOf(BOOLEAN)
      /\ (chan.kicked => chan.stay)
  BY NowParts, PartsOf DEF Sure
<1>2. ASSUME NEW t, t \in BotState, t.conn.status = conn.status, t.conn.age = conn.age, t.chan = chan,
             t.sendq = sendq, t.exiting = exiting, t.server = server
      PROVE  Sure(t)
  <2>1. SameQueues(Now.sendq, t.sendq) /\ SameChan(Now.chan, t.chan) /\ (Early(t) => Early(Now))
    BY <1>1, <1>2 DEF SameQueues, SameChan, Early
  <2> QED BY <1>1, <1>2, <2>1, SureAlike
<1>3. ASSUME NEW s \in BotState, NEW c \in ConnRecord, NEW t, t = [s EXCEPT !.conn = c]
      PROVE  /\ t \in BotState /\ t.conn = c /\ t.chan = s.chan /\ t.sendq = s.sendq /\ t.exiting = s.exiting
             /\ t.server = s.server
  BY <1>3 DEF BotState
<1>4. ASSUME NEW type \in Queue, Say(type) PROVE Sure(Now')
  <2>1. "PRIVMSG" \in Command \ {"JOIN", "PART"} /\ 0 \in Nick
    BY Limits, Zeros
  <2>2. Sure(Submit(Now, type, "PRIVMSG", 0))
    BY <1>1, <2>1, SubmitSure
  <2>3. Becomes(Submit(Now, type, "PRIVMSG", 0))
    BY <1>4 DEF Say
  <2> QED BY <2>2, <2>3, BecomesSure
<1>5. ASSUME NEW wait \in 0..1, Announce(wait) PROVE Sure(Now')
  <2> DEFINE f == Append(sendq.announce, [wait |-> wait, old |-> FALSE])
             q == [sendq EXCEPT !.announce = f]
             n == Now'
  <2>1. sendq' = q /\ UNCHANGED <<conn, lookup, me, chan, exiting, server>>
    BY <1>5 DEF Announce
  <2>2. SameQueues(sendq, q)
    BY <1>1 DEF QueueOf, SameQueues
  <2> HIDE DEF q
  <2>3. n.conn = conn /\ n.chan = chan /\ n.sendq = q /\ n.exiting = exiting /\ n.server = server
    BY <2>1 DEF Now
  <2> HIDE DEF n
  <2>4. SameQueues(Now.sendq, n.sendq) /\ SameChan(Now.chan, n.chan) /\ (Early(n) => Early(Now))
    BY <1>1, <2>2, <2>3 DEF SameChan, Early
  <2>5. Sure(n)
    BY <1>1, <2>3, <2>4, SureAlike
  <2> QED BY <2>5 DEF n
<1>6. CASE Hop
  <2> DEFINE t == JoinChannel([Submit(Now, "normal", "PART", 0) EXCEPT
                                 !.chan = [@ EXCEPT !.members = {}, !.on = FALSE, !.kicked = FALSE]])
  <2>1. Becomes(t) /\ Now.chan.known /\ Waiting(Now.sendq) < MaxWaiting
    BY <1>1, <1>6 DEF Hop
  <2>2. Sure(t)
    BY <1>1, <2>1, HopSure
  <2> HIDE DEF t
  <2> QED BY <2>1, <2>2, BecomesSure
<1>7. CASE Part
  <2> DEFINE u == Submit(Now, "normal", "PART", 0)
             t == [u EXCEPT !.chan = Dropped(u.chan)]
  <2>1. Becomes(t)
    BY <1>7 DEF Part
  <2>2. Sure(t)
    BY <1>1, PartSure
  <2> HIDE DEF t
  <2> QED BY <2>1, <2>2, BecomesSure
<1>8. CASE Join
  <2>1. Becomes(Added(Now))
    BY <1>8 DEF Join
  <2> QED BY <1>1, <2>1, AddedSure, BecomesSure
<1>9. CASE Offline
  <2> DEFINE u == QuitServer(Now)
             c == Dropped(u.chan)
             m == [u.me EXCEPT !.nick = 0]
             d == [u.conn EXCEPT !.offline = TRUE]
             t == [u EXCEPT !.chan = c, !.me = m, !.conn = d]
  <2>1. Becomes(t)
    BY <1>9 DEF Offline
  <2>2. Good(u) /\ Disconnected(u) /\ u.sendq.fast = <<>> /\ u.sendq.slow = <<>>
    BY QuitServerType
  <2> HIDE DEF u
  <2>3. u \in BotState /\ u.conn \in ConnRecord /\ u.chan \in ChanRecord
    BY <2>2, PartsOf DEF Good, Sound
  <2>4. c.kicked = FALSE
    BY <2>3 DEF Dropped, ChanRecord
  <2>5. d.status = u.conn.status
    BY <2>3 DEF ConnRecord
  <2> HIDE DEF c, m, d
  <2>6. t.chan = c /\ t.conn = d /\ t.sendq = u.sendq
    BY <2>3 DEF BotState
  <2> HIDE DEF t
  <2>7. Sure(t)
    <3>1. Quiet(t.sendq)
      BY <2>2, <2>6, QuietNone
    <3> QED BY <2>2, <2>4, <2>5, <2>6, <3>1, SureOff DEF Disconnected
  <2> QED BY <2>1, <2>7, BecomesSure
<1>10. CASE Online
  <2> DEFINE c == [conn EXCEPT !.offline = FALSE]
             t == [Now EXCEPT !.conn = c]
  <2>1. conn' = c /\ chan' = chan /\ sendq' = sendq /\ exiting' = exiting /\ server' = server
    BY <1>10 DEF Online
  <2>2. c \in ConnRecord /\ c.status = conn.status /\ c.age = conn.age
    BY <1>1 DEF ConnRecord
  <2> HIDE DEF c
  <2>3. /\ t \in BotState /\ t.conn = c /\ t.chan = chan /\ t.sendq = sendq /\ t.exiting = exiting
        /\ t.server = server
    BY <1>1, <1>3, <2>2
  <2> HIDE DEF t
  <2>4. Sure(t)
    BY <1>2, <2>2, <2>3
  <2> QED BY <2>1, <2>3, <2>4, VariablesSure
<1>11. ASSUME NEW s, Good(s), s.chan.kicked => s.chan.stay
       PROVE  LET x == [s EXCEPT !.conn.backoff = 0]
              IN \A forked \in BOOLEAN : Sure(SwitchServer(x, forked)) /\ Sure(SwitchServer(s, forked))
  <2> DEFINE d == [s.conn EXCEPT !.backoff = 0]
             x == [s EXCEPT !.conn.backoff = 0]
  <2>1. Good(x)
    BY <1>11, ResetGood
  <2>2. s \in BotState
    BY <1>11 DEF Good, Sound
  <2>3. x.chan = s.chan
    BY <2>2 DEF BotState
  <2> HIDE DEF x
  <2>4. \A forked \in BOOLEAN : Sure(SwitchServer(x, forked)) /\ Sure(SwitchServer(s, forked))
    BY <1>11, <2>1, <2>3, SwitchServerSure
  <2> QED BY <2>4 DEF x
<1>12. ASSUME NEW wanted \in BOOLEAN, NEW jump \in BOOLEAN, Rehash(wanted, jump) PROVE Sure(Now')
  <2> DEFINE u == [Now EXCEPT !.conn.offline = FALSE]
             s == RehashChannels(u, wanted, jump)
             x == [s EXCEPT !.conn.backoff = 0]
             t == IF jump THEN SwitchServer(x, TRUE) ELSE s
  <2>1. Becomes(t)
    BY <1>12 DEF Rehash
  <2>2. Good(u) /\ u \in BotState /\ Sure(u)
    <3> DEFINE c == [conn EXCEPT !.offline = FALSE]
    <3>1. Good(u) /\ u = [Now EXCEPT !.conn = c]
      BY <1>1, ResetGood
    <3>2. c \in ConnRecord /\ c.status = conn.status /\ c.age = conn.age
      BY <1>1 DEF ConnRecord
    <3> HIDE DEF c, u
    <3>3. /\ u \in BotState /\ u.conn = c /\ u.chan = chan /\ u.sendq = sendq /\ u.exiting = exiting
          /\ u.server = server
      BY <1>1, <1>3, <3>1, <3>2
    <3>4. Sure(u)
      BY <1>2, <3>2, <3>3
    <3> QED BY <3>1, <3>3, <3>4
  <2> HIDE DEF u
  <2>3. Good(s) /\ Sure(s)
    BY <2>2, RehashChannelsGood, RehashChannelsSure
  <2> HIDE DEF s
  <2>4. s.chan.kicked => s.chan.stay
    BY <2>3 DEF Sure
  <2>5. Sure(SwitchServer(x, TRUE))
    BY <1>11, <2>3, <2>4
  <2> HIDE DEF x
  <2>6. Sure(t)
    BY <2>3, <2>5
  <2> HIDE DEF t
  <2> QED BY <2>1, <2>6, BecomesSure
<1>13. ASSUME NEW forked \in BOOLEAN, Jump(forked) \/ Switch(forked) PROVE Sure(Now')
  <2> DEFINE x == [Now EXCEPT !.conn.backoff = 0]
  <2>1. Becomes(SwitchServer(x, forked)) \/ Becomes(SwitchServer(Now, forked))
    BY <1>13 DEF Jump, Switch
  <2>2. Now.chan.kicked => Now.chan.stay
    BY <1>1
  <2>3. Sure(SwitchServer(x, forked)) /\ Sure(SwitchServer(Now, forked))
    BY <1>11, <2>2
  <2> HIDE DEF x
  <2> QED BY <2>1, <2>3, BecomesSure
<1>14. ASSUME NEW left \in BOOLEAN, Shutdown(left) PROVE Sure(Now')
  BY <1>14, ShutdownSure
<1> QED BY <1>4, <1>5, <1>6, <1>7, <1>8, <1>9, <1>10, <1>12, <1>13, <1>14 DEF Owner

\* The server does something by itself.
LEMMA ServerSure ==
  ASSUME Good(Now), Sure(Now), NEW v, Changes(v),
         conn.status = "SSL_HANDSHAKE" /\ v.link = "open" =>
           server.link = "open" /\ v.lines = server.lines /\ v.registered = server.registered /\ v.on = server.on,
         \A join, leave, stay \in BOOLEAN :
           Minds(server, server.lines, 0, chan, Early(Now), join, leave, stay) =>
             Minds(v, v.lines, 0, chan, Early(Now), join, leave, stay)
  PROVE  Sure(Now')
<1> DEFINE n == Now'
<1>1. /\ Now.conn = conn /\ Now.chan = chan /\ Now.server = server /\ Now.sendq = sendq /\ Now.exiting = exiting
  BY NowParts
<1>2. n.conn = conn /\ n.chan = chan /\ n.server = v /\ n.sendq = sendq /\ n.exiting = exiting
  BY DEF Changes, Now
<1> HIDE DEF n
<1>3. ASSUME Connected(n) PROVE Minding(n)
  <2> DEFINE J == Asks(sendq.normal, 0, "JOIN")
             P == Asks(sendq.normal, 0, "PART")
             Y == Stays(sendq.normal, 0)
             e == Early(Now)
  <2>1. Minds(server, server.lines, 0, chan, e, J, P, Y)
    BY <1>1, <1>2, <1>3 DEF Sure, Connected, Minding
  <2>2. J \in BOOLEAN /\ P \in BOOLEAN /\ Y \in BOOLEAN
    BY DEF Asks, Stays
  <2>3. Early(n) = e
    BY <1>1, <1>2 DEF Early
  <2> HIDE DEF J, P, Y
  <2>4. Minds(v, v.lines, 0, chan, e, J, P, Y)
    BY <2>1, <2>2
  <2> HIDE DEF e
  <2> QED BY <1>2, <2>3, <2>4 DEF Minding, J, P, Y
<1>4. Sure(n)
  BY <1>1, <1>2, <1>3 DEF Sure, Connected
<1> QED BY <1>4 DEF n

\* What the server and its other users do.
LEMMA WorldSure ==
  ASSUME Good(Now), Sure(Now), World
  PROVE  Sure(Now')
<1>1. /\ Now.server = server /\ server \in ServerRecord /\ chan \in ChanRecord /\ server.lines \in Seq(Line)
      /\ Now.conn = conn
      /\ conn.status = "SSL_HANDSHAKE" /\ server.link = "open" =>
           server.lines = <<>> /\ ~server.registered /\ ~server.on
  BY NowParts, PartsOf DEF Sure, ServerRecord
<1>2. ASSUME NEW v, v.link = server.link, v.lines = server.lines, v.registered = server.registered, v.on = server.on,
             Changes(v)
      PROVE  Sure(Now')
  <2>1. ASSUME NEW join \in BOOLEAN, NEW leave \in BOOLEAN, NEW stay \in BOOLEAN,
               Minds(server, server.lines, 0, chan, Early(Now), join, leave, stay)
        PROVE  Minds(v, v.lines, 0, chan, Early(Now), join, leave, stay)
    BY <1>2, <2>1 DEF Minds, Outside
  <2> QED BY <1>2, <2>1, ServerSure
<1>3. ASSUME NEW v, v.link # "open", Changes(v)
      PROVE  Sure(Now')
  <2>1. \A join, leave, stay \in BOOLEAN : Minds(v, v.lines, 0, chan, Early(Now), join, leave, stay)
    BY <1>3 DEF Minds
  <2> QED BY <1>3, <2>1, ServerSure
<1>4. ASSUME NEW v, v.link = server.link, v.registered = server.registered, v.on = server.on, server.on,
             NEW l \in Line, l.cmd \notin {"JOIN_US", "KICK_US"}, v.lines = Append(server.lines, l), Changes(v)
      PROVE  Sure(Now')
  <2> DEFINE e == Early(Now)
  <2>1. ASSUME NEW join \in BOOLEAN, NEW leave \in BOOLEAN, NEW stay \in BOOLEAN,
               Minds(server, server.lines, 0, chan, e, join, leave, stay)
        PROVE  Minds(v, v.lines, 0, chan, e, join, leave, stay)
    <3> HIDE DEF e
    <3>1. v.registered = server.registered /\ v.on = server.on /\ v.lines = Append(server.lines, l)
      BY <1>4
    <3>2. (v.link = "open" => server.link = "open") /\ (server.registered => v.registered) /\ l.cmd \notin {"JOIN_US", "KICK_US"}
      BY <1>4
    <3> QED BY ONLY <1>1, <2>1, <3>1, <3>2, MindsLine
  <2>2. ~(conn.status = "SSL_HANDSHAKE" /\ v.link = "open")
    BY <1>1, <1>4
  <2> HIDE DEF e
  <2> QED BY <1>4, <2>1, <2>2, ServerSure DEF e
<1>5. ASSUME NEW U, NEW u, u = [server EXCEPT !.users = U]
      PROVE  /\ u.link = server.link /\ u.lines = server.lines /\ u.registered = server.registered
             /\ u.on = server.on
             /\ \A f : LET w == [u EXCEPT !.lines = f]
                       IN w.link = server.link /\ w.registered = server.registered /\ w.on = server.on /\ w.lines = f
  BY <1>1, <1>5 DEF ServerRecord
<1>6. ASSUME NEW p \in Person, PersonJoins(p) \/ PersonLeaves(p) PROVE Sure(Now')
  <2>1. ASSUME NEW U, NEW cmd \in {"JOIN", "LEAVE"}, Changes(Tell([server EXCEPT !.users = U], cmd, {p}))
        PROVE  Sure(Now')
    <3> DEFINE u == [server EXCEPT !.users = U]
               l == [cmd |-> cmd, who |-> {p}, new |-> {}, nick |-> 0]
               f == Append(u.lines, l)
               w == [u EXCEPT !.lines = f]
    <3>1. l \in Line /\ l.cmd \notin {"JOIN_US", "KICK_US"}
      BY Zeros DEF Line
    <3>2. Tell(u, cmd, {p}) = IF u.on THEN w ELSE u
      BY DEF Tell, Says
    <3>3. Changes(Tell(u, cmd, {p}))
      BY <2>1
    <3> HIDE DEF u, l
    <3>4. /\ u.link = server.link /\ u.lines = server.lines /\ u.registered = server.registered /\ u.on = server.on
          /\ w.link = server.link /\ w.registered = server.registered /\ w.on = server.on /\ w.lines = f
      BY <1>5 DEF u
    <3> HIDE DEF w
    <3>5. CASE u.on
      BY <1>4, <3>1, <3>2, <3>3, <3>4, <3>5
    <3>6. CASE ~u.on
      BY <1>2, <3>2, <3>3, <3>4, <3>6
    <3> QED BY <3>5, <3>6
  <2>2. \/ Changes(Tell([server EXCEPT !.users = server.users \cup {p}], "JOIN", {p}))
        \/ Changes(Tell([server EXCEPT !.users = server.users \ {p}], "LEAVE", {p}))
    BY <1>6 DEF PersonJoins, PersonLeaves
  <2> QED BY <2>1, <2>2
<1>7. ASSUME NEW p \in Person, NEW q \in Person, PersonRenames(p, q) PROVE Sure(Now')
  <2> DEFINE u == [server EXCEPT !.users = (server.users \ {p}) \cup {q}]
             l == [cmd |-> "NICK", who |-> {p}, new |-> {q}, nick |-> 0]
             f == Append(u.lines, l)
             w == [u EXCEPT !.lines = f]
  <2>1. l \in Line /\ l.cmd \notin {"JOIN_US", "KICK_US"}
    BY Zeros DEF Line
  <2>2. (~u.on /\ Changes(u)) \/ (u.on /\ Changes(w))
    BY <1>7 DEF PersonRenames, SaysNick
  <2> HIDE DEF u, l
  <2>3. /\ u.link = server.link /\ u.lines = server.lines /\ u.registered = server.registered /\ u.on = server.on
        /\ w.link = server.link /\ w.registered = server.registered /\ w.on = server.on /\ w.lines = f
    BY <1>5 DEF u
  <2> HIDE DEF w
  <2>4. CASE u.on
    BY <1>4, <2>1, <2>2, <2>3, <2>4
  <2>5. CASE ~u.on
    BY <1>2, <2>2, <2>3, <2>5
  <2> QED BY <2>4, <2>5
<1>8. ASSUME NEW n \in {0, 1}, TakeNick(n) \/ FreeNick(n) PROVE Sure(Now')
  <2> DEFINE u == [server EXCEPT !.taken = server.taken \cup {n}]
             w == [server EXCEPT !.taken = server.taken \ {n}]
  <2>1. Changes(u) \/ Changes(w)
    BY <1>8 DEF TakeNick, FreeNick
  <2>2. /\ u.link = server.link /\ u.lines = server.lines /\ u.registered = server.registered /\ u.on = server.on
        /\ w.link = server.link /\ w.lines = server.lines /\ w.registered = server.registered /\ w.on = server.on
    BY <1>1 DEF ServerRecord
  <2> HIDE DEF u, w
  <2> QED BY <1>2, <2>1, <2>2
<1>9. CASE KickUs
  <2> DEFINE l == [cmd |-> "KICK_US", who |-> {}, new |-> {}, nick |-> 0]
             L == server.lines
             f == Append(L, l)
             v == [server EXCEPT !.on = FALSE, !.lines = f]
             e == Early(Now)
  <2>1. Changes(v) /\ server.on
    <3>1. Changes([[server EXCEPT !.on = FALSE] EXCEPT !.lines = Append(@, l)]) /\ server.on
      BY <1>9 DEF KickUs, Says
    <3>2. [[server EXCEPT !.on = FALSE] EXCEPT !.lines = Append(@, l)] = v
      BY <1>1 DEF ServerRecord
    <3> HIDE DEF v, l
    <3> QED BY <3>1, <3>2
  <2>2. l \in Line /\ l.cmd = "KICK_US"
    BY Zeros DEF Line
  <2>3. v.link = server.link /\ v.registered = server.registered /\ v.on = FALSE /\ v.lines = f
    BY <1>1 DEF ServerRecord
  <2>4. chan.on \in BOOLEAN
    BY <1>1 DEF ChanRecord
  <2> HIDE DEF l, v
  <2>5. ~WillBelieve(f, 0, chan.on)
    BY <1>1, <2>2, <2>4, BelieveAppend
  <2>6. ~(conn.status = "SSL_HANDSHAKE" /\ v.link = "open")
    BY <1>1, <2>1, <2>3
  <2> HIDE DEF f, L, e
  <2>7. ASSUME NEW join \in BOOLEAN, NEW leave \in BOOLEAN, NEW stay \in BOOLEAN,
               Minds(server, L, 0, chan, e, join, leave, stay)
        PROVE  Minds(v, f, 0, chan, e, join, leave, stay)
    <3> SUFFICES ASSUME v.link = "open"
                 PROVE  /\ v.registered /\ ~e
                        /\ Trusted(chan) => Fits(WillBelieve(f, 0, chan.on), v.on, join, leave, stay)
      BY DEF Minds
    <3>1. v.registered /\ ~e
      BY <2>1, <2>3, <2>7 DEF Minds, Outside
    <3>2. Trusted(chan) => (join => stay)
      BY <2>3, <2>7 DEF Minds, Fits
    <3> QED BY <2>3, <2>5, <3>1, <3>2 DEF Fits
  <2>8. \A join, leave, stay \in BOOLEAN :
          Minds(server, server.lines, 0, chan, Early(Now), join, leave, stay) =>
            Minds(v, v.lines, 0, chan, Early(Now), join, leave, stay)
    BY <2>3, <2>7 DEF L, e
  <2> QED BY <2>1, <2>6, <2>8, ServerSure
<1>10. ASSUME NEW u, u \in ServerRecord PROVE HangsUp(u).link # "open"
  BY <1>10 DEF HangsUp, ServerRecord
<1>11. ASSUME NEW cmd \in {"QUIT_US", "ERROR"}, NEW u \in ServerRecord PROVE Says(u, cmd, {}, 0) \in ServerRecord
  <2>1. cmd \in LineCmd /\ {} \in SUBSET Person /\ 0 \in Nick
    BY Zeros DEF LineCmd
  <2> QED BY <2>1, SaysLine DEF Adds
<1>12. CASE KillUs
  <2> DEFINE u == [server EXCEPT !.killed = TRUE]
             x == Says(u, "QUIT_US", {}, 0)
             y == Says(x, "ERROR", {}, 0)
             z == HangsUp(y)
  <2>1. Changes(z)
    BY <1>12 DEF KillUs
  <2>2. u \in ServerRecord
    BY <1>1 DEF ServerRecord
  <2> HIDE DEF u
  <2>3. x \in ServerRecord
    BY <1>11, <2>2
  <2> HIDE DEF x
  <2>4. y \in ServerRecord
    BY <1>11, <2>3
  <2> HIDE DEF y
  <2>5. z.link # "open"
    BY <1>10, <2>4
  <2> HIDE DEF z
  <2> QED BY <1>3, <2>1, <2>5
<1>13. ASSUME NEW says \in BOOLEAN, ServerDies(says) PROVE Sure(Now')
  <2> DEFINE x == Says(server, "ERROR", {}, 0)
             y == HangsUp(x)
             z == HangsUp(server)
  <2>1. Changes(y) \/ Changes(z)
    BY <1>13 DEF ServerDies
  <2>2. x \in ServerRecord
    BY <1>1, <1>11
  <2> HIDE DEF x
  <2>3. y.link # "open" /\ z.link # "open"
    BY <1>1, <1>10, <2>2
  <2> HIDE DEF y, z
  <2> QED BY <1>3, <2>1, <2>3
<1>14. CASE GoesSilent
  <2> DEFINE u == [server EXCEPT !.link = "silent", !.lines = <<>>]
  <2>1. Changes(u) /\ u.link # "open"
    BY <1>1, <1>14 DEF GoesSilent, ServerRecord
  <2> HIDE DEF u
  <2> QED BY <1>3, <2>1
<1> QED BY <1>6, <1>7, <1>8, <1>9, <1>12, <1>13, <1>14 DEF World

\* Initially.
LEMMA InitSure == Init => Sure(Now)
<1> SUFFICES ASSUME Init PROVE Sure(Now)
  OBVIOUS
<1>1. Now.conn.status = "NEED_TO_CONNECT" /\ Quiet(Now.sendq)
  <2>1. Now.conn.status = "NEED_TO_CONNECT" /\ Now.sendq.fast = <<>> /\ Now.sendq.slow = <<>>
    BY DEF Init, Now, EmptyQueues
  <2> QED BY <2>1, QuietNone
<1>2. ~Now.chan.kicked
  BY DEF Init, Now
<1> QED BY <1>1, <1>2, SureOff

\* No step leaves the invariant.
LEMMA SureStep ==
  ASSUME MaxWaiting < MAXSENDQ, Good(Now), Sure(Now), [Next]_vars
  PROVE  Sure(Now')
<1>1. CASE Events
  <2>1. CASE Handled
    <3>1. CASE Reap
      BY <3>1, ResolverSure
    <3>2. CASE Exit
      BY <3>2, ExitSure
    <3>3. CASE ReadAnswer \/ ConnectFails \/ ReadEnd("other")
      BY <3>3, SocketSure
    <3>4. CASE \E r \in Result : ConnectDone(r) \/ HandshakeStep(r)
      BY <3>4, SocketSure
    <3>5. CASE \E n \in Nat : Read(n)
      BY <3>5, SocketSure
    <3>6. 1..(MaxLines + 2) \subseteq Nat
      OBVIOUS
    <3> QED BY <2>1, <3>1, <3>2, <3>3, <3>4, <3>5, <3>6 DEF Handled
  <2>2. CASE ChildAnswers \/ ChildEnds \/ ReadAnswerFails
    BY <2>2, ResolverSure
  <2>3. CASE ReadEnd("EAGAIN")
    BY <2>3, SocketSure
  <2>4. CASE \E r \in Result : ConnectDone(r) \/ HandshakeStep(r)
    BY <2>4, SocketSure
  <2> QED BY <1>1, <2>1, <2>2, <2>3, <2>4 DEF Events
<1>2. CASE Periods
  BY <1>2, PeriodsSure
<1>3. CASE Owner
  BY <1>3, OwnerSure
<1>4. CASE World
  BY <1>4, WorldSure
<1>5. CASE UNCHANGED vars
  <2>1. Now' = Now
    BY <1>5 DEF vars, Now
  <2> QED BY <2>1
<1> QED BY <1>1, <1>2, <1>3, <1>4, <1>5 DEF Next

\* With nothing on its way the belief is what is so.
LEMMA SureBelief == NetworkInv /\ Sure(Now) => ChannelBelief
<1> SUFFICES ASSUME NetworkInv, Sure(Now), Settled, chan.known, ~chan.kicked, ~chan.lost
             PROVE  chan.on = server.on
  BY DEF ChannelBelief
<1>1. /\ Now.conn = conn /\ Now.chan = chan /\ Now.server = server /\ Now.sendq = sendq /\ sendq \in QueueOf(BOOLEAN)
      /\ chan.on \in BOOLEAN /\ server.on \in BOOLEAN /\ conn.status = "CONNECTED" /\ server.link = "open"
      /\ server.lines = <<>> /\ Waiting(sendq) = 0
  BY NowParts, PartsOf DEF NetworkInv, Settled, ChanRecord, ServerRecord
<1>2. sendq.normal = <<>>
  <2>1. /\ Len(sendq.fast) \in Nat /\ Len(sendq.normal) \in Nat /\ Len(sendq.slow) \in Nat
        /\ sendq.normal \in Seq(MessageOf(BOOLEAN))
    BY <1>1 DEF QueueOf
  <2> DEFINE a == Len(sendq.fast)
             b == Len(sendq.slow)
             l == Len(sendq.normal)
  <2>3. a + l + b = 0 /\ a \in Nat /\ b \in Nat /\ l \in Nat
    BY <1>1, <2>1 DEF Waiting
  <2> HIDE DEF a, b, l
  <2>4. l = 0
    BY <2>3
  <2>2. Len(sendq.normal) = 0
    BY <2>4 DEF l
  <2> QED BY <2>1, <2>2
<1>3. ~Asks(<<>>, 0, "JOIN") /\ ~Asks(<<>>, 0, "PART")
  BY AsksNone
<1>4. WillBelieve(<<>>, 0, chan.on) <=> chan.on
  <2>1. (0 + 1)..Len(<<>>) = {}
    OBVIOUS
  <2> QED BY <2>1 DEF WillBelieve
<1>5. Trusted(chan)
  BY DEF Trusted
<1>6. Minds(server, <<>>, 0, chan, Early(Now), Asks(<<>>, 0, "JOIN"), Asks(<<>>, 0, "PART"), Stays(<<>>, 0))
  BY <1>1, <1>2 DEF Sure, Connected, Minding
<1>7. chan.on <=> server.on
  BY <1>1, <1>3, <1>4, <1>5, <1>6 DEF Minds, Fits
<1> QED BY <1>1, <1>7

\* ChannelBelief for every instance in which there is room in the queue for a PART and the
\* JOIN after it: with nothing on its way the bot knows whether it is in the channel.
THEOREM ChannelBeliefHolds ==
  ASSUME MaxWaiting < MAXSENDQ
  PROVE  Spec => []ChannelBelief
<1>1. Init => NetworkInv /\ Sure(Now)
  BY InitGood, InitSure
<1>2. (NetworkInv /\ Sure(Now)) /\ [Next]_vars => (NetworkInv /\ Sure(Now))'
  <2> SUFFICES ASSUME NetworkInv, Sure(Now), [Next]_vars PROVE NetworkInv' /\ Sure(Now')
    OBVIOUS
  <2>1. NetworkInv'
    BY NetworkStep
  <2>2. Good(Now)
    BY DEF NetworkInv
  <2>3. Sure(Now')
    BY <2>2, SureStep
  <2> QED BY <2>1, <2>3
<1>3. NetworkInv /\ Sure(Now) => ChannelBelief
  BY SureBelief
<1> QED BY <1>1, <1>2, <1>3, PTL DEF Spec
=============================================================================
