--------------------------- MODULE ServicesProofs ---------------------------
(***************************************************************************)
(* The parts that serve one kind of client each: passwords, HTTP, uploads  *)
(* and acknowledgements.                                                   *)
(***************************************************************************)
EXTENDS Access, Acks, Http, Incoming, QueuesTheorems

-----------------------------------------------------------------------------
(***************************************************************************)
(* Blocked for any addresses, any number of doors that are open at a time  *)
(* and lines of any number in one read.                                    *)
(*                                                                         *)
(* A wrong password is paid for with the chance to try it: the chat or     *)
(* request that counts it is one of those that could try, and can no       *)
(* longer.  What is needed besides is that a chat which can try knows      *)
(* whose it is (Known).                                                    *)
(***************************************************************************)

Try(k) == {c \in ChatRecord : MayTry(c, k)}
Ask(k) == {c \in HttpRecord : MayTry(c, k)}
Open == {"SSL_ACCEPT", "CONNECTING", "SSL_CONNECT", "AUTHENTICATING"}

Counts == [Key -> [count : Nat, age : Nat]]
Known(q) == \A c \in Elems(q) : c.status \notin {"LISTENING", "DEAF"} => c.key \in Key
ChatsKnown(q) == q \in Seq(ChatRecord) /\ Known(q)

AccessInv == bad \in Counts /\ ChatsKnown(chats) /\ https \in Seq(HttpRecord) /\ AccessTypeOK

\* What a step has to keep: the lists, and the chances of who is blocked.
Sum(b, c, h, k) == b[k].count + Count(c, Try(k)) + Count(h, Ask(k))
NoMore(b, c, h) ==
  /\ b \in Counts /\ ChatsKnown(c) /\ h \in Seq(HttpRecord)
  /\ \A k \in Key : b[k].age <= Hour + 1
  /\ \A k \in Key : is_in_badip(k) /\ bad[k].age <= Hour => Sum(b, c, h, k) <= Sum(bad, chats, https, k)

-----------------------------------------------------------------------------
(* Lists *)

\* Every count is a number.
LEMMA Numbers ==
  ASSUME AccessInv, NEW k \in Key
  PROVE  /\ bad[k].count \in Nat /\ bad[k].age \in Nat
         /\ Count(chats, Try(k)) \in Nat /\ Count(https, Ask(k)) \in Nat
  BY CountType DEF AccessInv, ChatsKnown, Counts

\* Asking whether an address is blocked counts nothing.
LEMMA AskedSame ==
  ASSUME AccessInv, NEW a \in Key
  PROVE  /\ Asked(a) \in Counts
         /\ \A k \in Key : Asked(a)[k].count = bad[k].count /\ Asked(a)[k].age <= Hour + 1
<1>1. bad \in Counts /\ \A k \in Key : bad[k].age \in 0..(Hour + 1)
  BY DEF AccessInv, AccessTypeOK
<1>2. Hour \in Nat
  BY AccessAssumption
<1> QED BY <1>1, <1>2 DEF Asked, Counts

\* A chat that is added has a chance if its status gives one.
LEMMA AddChat ==
  ASSUME NEW q, ChatsKnown(q), NEW c \in ChatRecord,
         c.status \notin {"LISTENING", "DEAF"} => c.key \in Key
  PROVE  /\ ChatsKnown(Append(q, c))
         /\ \A k \in Key : Count(Append(q, c), Try(k)) = Count(q, Try(k)) + (IF MayTry(c, k) THEN 1 ELSE 0)
<1>1. q \in Seq(ChatRecord) /\ Known(q)
  BY DEF ChatsKnown
<1>2. Append(q, c) \in Seq(ChatRecord) /\ Elems(Append(q, c)) = Elems(q) \cup {c}
  BY <1>1, AppendElems
<1>3. Known(Append(q, c))
  BY <1>1, <1>2 DEF Known
<1>4. ASSUME NEW k \in Key
      PROVE  Count(Append(q, c), Try(k)) = Count(q, Try(k)) + (IF MayTry(c, k) THEN 1 ELSE 0)
  <2>1. c \in Try(k) <=> MayTry(c, k)
    BY DEF Try
  <2> QED BY <1>1, <2>1, CountAppend
<1> QED BY <1>2, <1>3, <1>4 DEF ChatsKnown

\* A chat that is changed counts as what it is now.
LEMMA ChangeChat ==
  ASSUME NEW q, ChatsKnown(q), NEW i \in DOMAIN q, NEW c \in ChatRecord,
         c.status \notin {"LISTENING", "DEAF"} => c.key \in Key
  PROVE  /\ ChatsKnown([q EXCEPT ![i] = c])
         /\ \A k \in Key : Count([q EXCEPT ![i] = c], Try(k)) =
              Count(q, Try(k)) - (IF MayTry(q[i], k) THEN 1 ELSE 0) + (IF MayTry(c, k) THEN 1 ELSE 0)
<1> DEFINE r == [q EXCEPT ![i] = c]
<1>1. q \in Seq(ChatRecord) /\ Known(q) /\ q[i] \in ChatRecord
  BY DEF ChatsKnown
<1>2. r \in Seq(ChatRecord)
  BY <1>1
<1>3. Elems(r) \subseteq Elems(q) \cup {c}
  BY <1>1 DEF Elems
<1>4. Known(r)
  BY <1>1, <1>3 DEF Known
<1> HIDE DEF r
<1>5. ASSUME NEW k \in Key
      PROVE  Count(r, Try(k)) =
               Count(q, Try(k)) - (IF MayTry(q[i], k) THEN 1 ELSE 0) + (IF MayTry(c, k) THEN 1 ELSE 0)
  <2>1. (c \in Try(k) <=> MayTry(c, k)) /\ (q[i] \in Try(k) <=> MayTry(q[i], k))
    BY <1>1 DEF Try
  <2>2. Count(r, Try(k)) =
          Count(q, Try(k)) - (IF q[i] \in Try(k) THEN 1 ELSE 0) + (IF c \in Try(k) THEN 1 ELSE 0)
    BY <1>1, CountChanged DEF r
  <2> QED BY <2>1, <2>2
<1> QED BY <1>2, <1>4, <1>5 DEF ChatsKnown, r

\* A chat that goes counts no longer.
LEMMA DropChat ==
  ASSUME NEW q, ChatsKnown(q), NEW i \in DOMAIN q
  PROVE  /\ ChatsKnown(Drop(q, i))
         /\ \A k \in Key : Count(Drop(q, i), Try(k)) = Count(q, Try(k)) - (IF MayTry(q[i], k) THEN 1 ELSE 0)
<1>1. q \in Seq(ChatRecord) /\ Known(q) /\ q[i] \in ChatRecord
  BY DEF ChatsKnown
<1>2. Drop(q, i) \in Seq(ChatRecord) /\ Elems(Drop(q, i)) \subseteq Elems(q)
  BY <1>1, DropType
<1>3. Known(Drop(q, i))
  BY <1>1, <1>2 DEF Known
<1>4. ASSUME NEW k \in Key
      PROVE  Count(Drop(q, i), Try(k)) = Count(q, Try(k)) - (IF MayTry(q[i], k) THEN 1 ELSE 0)
  <2>1. q[i] \in Try(k) <=> MayTry(q[i], k)
    BY <1>1 DEF Try
  <2> QED BY <1>1, <2>1, CountDropped
<1> QED BY <1>2, <1>3, <1>4 DEF ChatsKnown

\* The next status of a chat, or its end.
LEMMA SetChat ==
  ASSUME NEW q, ChatsKnown(q), NEW i \in DOMAIN q, NEW x \in ChatStatus \cup {"GONE"},
         x \notin {"LISTENING", "DEAF", "GONE"} => q[i].key \in Key
  PROVE  /\ ChatsKnown(Set(q, i, x))
         /\ \A k \in Key : Count(Set(q, i, x), Try(k)) =
              Count(q, Try(k)) - (IF MayTry(q[i], k) THEN 1 ELSE 0)
                               + (IF q[i].key = k /\ x \in Open THEN 1 ELSE 0)
<1>1. q[i] \in ChatRecord
  BY DEF ChatsKnown
<1>2. CASE x = "GONE"
  <2>1. Set(q, i, x) = Drop(q, i) /\ x \notin Open
    BY <1>2 DEF Set, Open
  <2>2. \A k \in Key : Count(Drop(q, i), Try(k)) = Count(q, Try(k)) - (IF MayTry(q[i], k) THEN 1 ELSE 0)
    BY DropChat
  <2>3. \A k \in Key : Count(q, Try(k)) \in Nat
    BY CountType DEF ChatsKnown
  <2>4. ASSUME NEW k \in Key
        PROVE  Count(Set(q, i, x), Try(k)) =
                 Count(q, Try(k)) - (IF MayTry(q[i], k) THEN 1 ELSE 0)
                                  + (IF q[i].key = k /\ x \in Open THEN 1 ELSE 0)
    BY <2>1, <2>2, <2>3
  <2> QED BY <2>1, <2>4, DropChat
<1>3. CASE x # "GONE"
  <2> DEFINE c == [q[i] EXCEPT !.status = x]
  <2>1. c \in ChatRecord /\ c.status = x /\ c.key = q[i].key
    BY <1>1, <1>3 DEF ChatRecord
  <2>2. Set(q, i, x) = [q EXCEPT ![i] = c]
    BY <1>3 DEF Set
  <2> HIDE DEF c
  <2>3. ASSUME NEW k \in Key PROVE MayTry(c, k) <=> q[i].key = k /\ x \in Open
    BY <1>3, <2>1 DEF MayTry, Open, ChatStatus
  <2>4. ChatsKnown([q EXCEPT ![i] = c])
    BY <1>3, <2>1, ChangeChat
  <2>5. \A k \in Key : Count([q EXCEPT ![i] = c], Try(k)) =
          Count(q, Try(k)) - (IF MayTry(q[i], k) THEN 1 ELSE 0) + (IF MayTry(c, k) THEN 1 ELSE 0)
    BY <1>3, <2>1, ChangeChat
  <2> QED BY <2>2, <2>3, <2>4, <2>5
<1> QED BY <1>2, <1>3

\* The next status of a request, or its end.
LEMMA SetRequest ==
  ASSUME NEW q \in Seq(HttpRecord), NEW i \in DOMAIN q, NEW x \in {"GETTING", "POST", "SENDING", "GONE"}
  PROVE  /\ Set(q, i, x) \in Seq(HttpRecord)
         /\ \A k \in Key : Count(Set(q, i, x), Ask(k)) =
              Count(q, Ask(k)) - (IF MayTry(q[i], k) THEN 1 ELSE 0)
                               + (IF q[i].key = k /\ x \in {"GETTING", "POST"} THEN 1 ELSE 0)
<1>1. q[i] \in HttpRecord
  OBVIOUS
<1>2. \A k \in Key : q[i] \in Ask(k) <=> MayTry(q[i], k)
  BY <1>1 DEF Ask
<1>3. CASE x = "GONE"
  <2>1. Set(q, i, x) = Drop(q, i) /\ x \notin {"GETTING", "POST"}
    BY <1>3 DEF Set
  <2>2. ASSUME NEW k \in Key
        PROVE  Count(Drop(q, i), Ask(k)) = Count(q, Ask(k)) - (IF MayTry(q[i], k) THEN 1 ELSE 0)
    BY <1>2, CountDropped
  <2>3. \A k \in Key : Count(q, Ask(k)) \in Nat
    BY CountType
  <2>4. ASSUME NEW k \in Key
        PROVE  Count(Set(q, i, x), Ask(k)) =
                 Count(q, Ask(k)) - (IF MayTry(q[i], k) THEN 1 ELSE 0)
                                  + (IF q[i].key = k /\ x \in {"GETTING", "POST"} THEN 1 ELSE 0)
    BY <2>1, <2>2, <2>3
  <2> QED BY <2>1, <2>4, DropType
<1>4. CASE x # "GONE"
  <2> DEFINE c == [q[i] EXCEPT !.status = x]
             r == [q EXCEPT ![i] = c]
  <2>1. c \in HttpRecord /\ c.status = x /\ c.key = q[i].key
    BY <1>1, <1>4 DEF HttpRecord
  <2>2. Set(q, i, x) = r
    BY <1>4 DEF Set
  <2> HIDE DEF c
  <2>3. ASSUME NEW k \in Key PROVE c \in Ask(k) <=> q[i].key = k /\ x \in {"GETTING", "POST"}
    BY <1>4, <2>1 DEF MayTry, Ask
  <2>4. r \in Seq(HttpRecord)
    BY <2>1
  <2>5. \A k \in Key : Count(r, Ask(k)) =
          Count(q, Ask(k)) - (IF q[i] \in Ask(k) THEN 1 ELSE 0) + (IF c \in Ask(k) THEN 1 ELSE 0)
    BY <2>1, CountChanged
  <2> HIDE DEF r
  <2> QED BY <1>2, <2>2, <2>3, <2>4, <2>5
<1> QED BY <1>3, <1>4
-----------------------------------------------------------------------------
(* The lines of a read *)

\* A read goes through its lines one after another, however many there are.
LEMMA ParsedDefined ==
  ASSUME NEW status, NEW lines, Len(lines) \in Nat
  PROVE  /\ Parsed(status, lines)[0] = [status |-> status, wrong |-> 0]
         /\ \A k \in 1..Len(lines) :
              Parsed(status, lines)[k] = parsedccchat(Parsed(status, lines)[k - 1], lines[k])
<1> DEFINE n == Len(lines)
           start == [status |-> status, wrong |-> 0]
           D(k, x) == parsedccchat(x, lines[k])
           Is(f, m) == f = [k \in 0..m |-> IF k = 0 THEN start ELSE D(k, f[k - 1])]
           None == {m \in 0..n : ~\E f : Is(f, m)}
<1>1. n \in Nat
  OBVIOUS
<1>2. Parsed(status, lines) = CHOOSE f : Is(f, n)
  BY DEF Parsed
<1> HIDE DEF n, D, start
<1>3. ASSUME None # {} PROVE FALSE
  <2>1. PICK m \in None : \A k \in None : m <= k
    <3>1. None \subseteq Nat
      BY <1>1
    <3> QED BY <1>3, <3>1, LeastNat
  <2>2. m \in 0..n /\ ~\E f : Is(f, m)
    BY <2>1
  <2>3. CASE m = 0
    <3> DEFINE f == [k \in 0..0 |-> start]
    <3>1. f = [k \in 0..0 |-> IF k = 0 THEN start ELSE D(k, f[k - 1])]
      OBVIOUS
    <3>2. Is(f, 0)
      BY <3>1
    <3> QED BY <2>2, <2>3, <3>2
  <2>4. CASE m # 0
    <3>1. m - 1 \in 0..n /\ m - 1 < m /\ m \in Nat
      BY <1>1, <2>2, <2>4
    <3>2. m - 1 \notin None
      <4> HIDE DEF None
      <4> QED BY <2>1, <3>1
    <3>3. PICK f : Is(f, m - 1)
      BY <3>1, <3>2
    <3>4. /\ \A k \in 0..(m - 1) : f[k] = IF k = 0 THEN start ELSE D(k, f[k - 1])
      BY <3>3
    <3> DEFINE g == [k \in 0..m |-> IF k = m THEN D(m, f[m - 1]) ELSE f[k]]
    <3>5. ASSUME NEW k \in 0..m PROVE g[k] = IF k = 0 THEN start ELSE D(k, g[k - 1])
      <4>1. CASE k = m
        <5>1. k - 1 \in 0..m /\ k - 1 # m /\ k # 0
          BY <2>4, <3>1, <4>1
        <5>2. g[k] = D(m, f[m - 1]) /\ g[k - 1] = f[m - 1]
          BY <4>1, <5>1
        <5> HIDE DEF g
        <5> QED BY <4>1, <5>1, <5>2
      <4>2. CASE k # m /\ k = 0
        <5>1. k \in 0..(m - 1) /\ f[k] = start
          BY <3>1, <3>4, <4>2
        <5> QED BY <4>2, <5>1
      <4>3. CASE k # m /\ k # 0
        <5>1. k \in 0..(m - 1) /\ k - 1 \in 0..m /\ k - 1 # m
          BY <3>1, <4>3
        <5>2. g[k] = f[k] /\ g[k - 1] = f[k - 1]
          BY <4>3, <5>1
        <5>3. f[k] = D(k, f[k - 1])
          BY <3>4, <4>3, <5>1
        <5> HIDE DEF g
        <5> QED BY <4>3, <5>2, <5>3
      <4> QED BY <4>1, <4>2, <4>3
    <3>6. DOMAIN g = 0..m /\ g = [k \in 0..m |-> g[k]]
      OBVIOUS
    <3> HIDE DEF g
    <3>7. Is(g, m)
      BY <3>5, <3>6
    <3> QED BY <2>2, <3>7
  <2> QED BY <2>3, <2>4
<1>4. \E f : Is(f, n)
  <2>1. n \in 0..n
    BY <1>1
  <2> HIDE DEF Is
  <2> QED BY <1>3, <2>1
<1>5. Is(Parsed(status, lines), n)
  BY <1>2, <1>4
<1>6. /\ 0 \in 0..n
      /\ \A k \in 1..n : k \in 0..n /\ k # 0
  BY <1>1
<1> DEFINE V == Parsed(status, lines)
<1>7. \A k \in 0..n : V[k] = IF k = 0 THEN start ELSE D(k, V[k - 1])
  BY <1>5
<1>8. V[0] = start /\ \A k \in 1..n : V[k] = D(k, V[k - 1])
  BY <1>6, <1>7
<1> QED BY <1>8 DEF D, n, start

\* What lines can make of a chat: one that counts a wrong password was asking and is gone;
\* one that was asked no longer asks.
Outcome(status, s) ==
  \/ s = [status |-> status, wrong |-> 0]
  \/ s = [status |-> "GONE", wrong |-> 0] /\ status = "CONNECTED"
  \/ status = "AUTHENTICATING" /\ s \in [status : {"CONNECTED"}, wrong : {0}] \cup [status : {"GONE"}, wrong : {0, 1}]

\* That is so after any number of lines.
LEMMA ParsedOutcome ==
  ASSUME NEW status \in {"AUTHENTICATING", "CONNECTED"}, NEW lines, Len(lines) \in Nat
  PROVE  Outcome(status, Parsed(status, lines)[Len(lines)])
<1> DEFINE n == Len(lines)
           V == Parsed(status, lines)
           Bad == {m \in 0..n : ~Outcome(status, V[m])}
<1>1. V[0] = [status |-> status, wrong |-> 0] /\ \A k \in 1..n : V[k] = parsedccchat(V[k - 1], lines[k])
  BY ParsedDefined
<1> HIDE DEF V
<1>2. ASSUME Bad # {} PROVE FALSE
  <2>1. PICK m \in Bad : \A j \in Bad : m <= j
    <3>1. Bad \subseteq Nat
      OBVIOUS
    <3> QED BY <1>2, <3>1, LeastNat
  <2>2. m \in 0..n /\ ~Outcome(status, V[m])
    BY <2>1
  <2>3. m # 0
    BY <1>1, <2>2 DEF Outcome
  <2>4. m \in 1..n /\ m - 1 \in 0..n /\ m - 1 < m
    BY <2>2, <2>3
  <2>5. Outcome(status, V[m - 1])
    <3>1. m - 1 \notin Bad
      <4> HIDE DEF Bad
      <4> QED BY <2>1, <2>4
    <3> QED BY <2>4, <3>1
  <2>6. V[m] = parsedccchat(V[m - 1], lines[m])
    BY <1>1, <2>4
  <2>7. ASSUME NEW s, NEW line, Outcome(status, s) PROVE Outcome(status, parsedccchat(s, line))
    <3>1. CASE s = [status |-> status, wrong |-> 0]
      BY <3>1 DEF Outcome, parsedccchat, Refused
    <3>2. CASE s.status = "GONE"
      <4>1. parsedccchat(s, line) = s
        BY <3>2 DEF parsedccchat
      <4> QED BY <2>7, <4>1
    <3>3. CASE status = "AUTHENTICATING" /\ s = [status |-> "CONNECTED", wrong |-> 0]
      BY <3>3 DEF Outcome, parsedccchat
    <3> QED BY <2>7, <3>1, <3>2, <3>3 DEF Outcome
  <2> QED BY <2>2, <2>5, <2>6, <2>7
<1>3. n \in 0..n
  OBVIOUS
<1> QED BY <1>2, <1>3 DEF V
-----------------------------------------------------------------------------
(* The actions *)

\* Chances only change where the lists do.
LEMMA SameLists ==
  ASSUME AccessInv, NEW b \in Counts, \A k \in Key : b[k].age <= Hour + 1,
         \A k \in Key : is_in_badip(k) /\ bad[k].age <= Hour => b[k].count = bad[k].count
  PROVE  NoMore(b, chats, https)
<1>1. \A k \in Key : is_in_badip(k) /\ bad[k].age <= Hour => Sum(b, chats, https, k) = Sum(bad, chats, https, k)
  BY DEF Sum
<1>2. \A k \in Key : Sum(bad, chats, https, k) \in Nat
  BY Numbers DEF Sum
<1> QED BY <1>1, <1>2 DEF NoMore, AccessInv

\* A chat from an address that is not blocked.
LEMMA NewChat ==
  ASSUME AccessInv, NEW a \in Key, NEW c \in ChatRecord,
         c.status \notin {"LISTENING", "DEAF"} => c.key \in Key,
         \A k \in Key : MayTry(c, k) => ~is_in_badip(k),
         NEW b \in {bad, Asked(a)}
  PROVE  NoMore(b, Append(chats, c), https)
<1> DEFINE r == Append(chats, c)
<1>1. /\ ChatsKnown(r)
      /\ \A k \in Key : Count(r, Try(k)) = Count(chats, Try(k)) + (IF MayTry(c, k) THEN 1 ELSE 0)
  BY AddChat DEF AccessInv
<1>2. b \in Counts /\ \A k \in Key : b[k].count = bad[k].count /\ b[k].age <= Hour + 1
  <2>1. bad \in Counts /\ \A k \in Key : bad[k].age <= Hour + 1
    BY AccessAssumption DEF AccessInv, AccessTypeOK
  <2> QED BY <2>1, AskedSame
<1> HIDE DEF r
<1>3. ASSUME NEW k \in Key, is_in_badip(k)
      PROVE  Sum(b, r, https, k) <= Sum(bad, chats, https, k)
  <2>1. Count(r, Try(k)) = Count(chats, Try(k))
    BY <1>1, <1>3, Numbers
  <2> QED BY <1>2, <2>1, Numbers DEF Sum
<1> QED BY <1>1, <1>2, <1>3 DEF NoMore, AccessInv, r

\* A chat moves on without a wrong password.
LEMMA MoveChat ==
  ASSUME AccessInv, NEW i \in DOMAIN chats, NEW x \in ChatStatus \cup {"GONE"},
         chats[i].status \notin {"LISTENING", "DEAF"} \/ x \in {"LISTENING", "DEAF", "GONE"},
         x \in Open => chats[i].status \in Open
  PROVE  NoMore(bad, Set(chats, i, x), https)
<1> DEFINE r == Set(chats, i, x)
<1>1. chats[i] \in ChatRecord /\ (chats[i].status \notin {"LISTENING", "DEAF"} => chats[i].key \in Key)
  BY DEF AccessInv, ChatsKnown, Known, Elems
<1>2. /\ ChatsKnown(r)
      /\ \A k \in Key : Count(r, Try(k)) =
           Count(chats, Try(k)) - (IF MayTry(chats[i], k) THEN 1 ELSE 0)
                                + (IF chats[i].key = k /\ x \in Open THEN 1 ELSE 0)
  BY <1>1, SetChat DEF AccessInv
<1> HIDE DEF r
<1>3. ASSUME NEW k \in Key PROVE Sum(bad, r, https, k) <= Sum(bad, chats, https, k)
  <2>1. chats[i].key = k /\ x \in Open => MayTry(chats[i], k)
    BY DEF MayTry, Open
  <2>2. Count(r, Try(k)) <= Count(chats, Try(k)) /\ Count(r, Try(k)) \in Int
    BY <1>2, <2>1, Numbers
  <2> QED BY <2>2, Numbers DEF Sum
<1>4. \A k \in Key : bad[k].age <= Hour + 1
  BY AccessAssumption DEF AccessInv, AccessTypeOK
<1> QED BY <1>2, <1>3, <1>4 DEF NoMore, AccessInv, r

\* Telnet, DCC CHAT and CHATME.
LEMMA ChatBegins ==
  ASSUME AccessInv,
         \/ \E a \in Address : telnet_accept(a)
         \/ \E a \in Address, ssl \in BOOLEAN : chat_setup(a, ssl)
         \/ \E ssl \in BOOLEAN : chat_setup_out(ssl)
  PROVE  NoMore(bad', chats', https')
<1>1. ASSUME NEW a \in Address, telnet_accept(a) \/ \E ssl \in BOOLEAN : chat_setup(a, ssl)
      PROVE  NoMore(bad', chats', https')
  <2>1. a \in Key
    BY DEF Key
  <2>2. https' = https /\ bad' = Asked(a)
    BY <1>1 DEF telnet_accept, chat_setup
  <2>3. ASSUME chats' = chats PROVE NoMore(bad', chats', https')
    BY <2>1, <2>2, <2>3, AskedSame, SameLists
  <2>4. ASSUME NEW ssl \in BOOLEAN, NEW s \in {"AUTHENTICATING", "CONNECTING"}, ~is_in_badip(a),
               chats' = Append(chats, Chat(a, ssl, s))
        PROVE  NoMore(bad', chats', https')
    <3>1. Chat(a, ssl, s) \in ChatRecord /\ Chat(a, ssl, s).key = a
      BY <2>1 DEF Chat, ChatRecord, ChatStatus
    <3>2. \A k \in Key : MayTry(Chat(a, ssl, s), k) => ~is_in_badip(k)
      BY <2>4, <3>1 DEF MayTry
    <3> QED BY <2>1, <2>2, <2>4, <3>1, <3>2, NewChat
  <2> QED BY <1>1, <2>3, <2>4 DEF telnet_accept, chat_setup
<1>2. ASSUME NEW ssl \in BOOLEAN, chat_setup_out(ssl) PROVE NoMore(bad', chats', https')
  <2> DEFINE c == Chat(Unknown, ssl, "LISTENING")
  <2>1. bad' = bad /\ https' = https /\ chats' = Append(chats, c)
    BY <1>2 DEF chat_setup_out
  <2>2. c \in ChatRecord /\ c.status = "LISTENING"
    BY DEF Chat, ChatRecord, ChatStatus
  <2>3. \A k \in Key : ~MayTry(c, k)
    BY <2>2 DEF MayTry
  <2> HIDE DEF c
  <2>4. CASE Key = {}
    <3>1. ChatsKnown(chats')
      BY <2>1, <2>2, AddChat DEF AccessInv
    <3> QED BY <2>1, <2>4, <3>1 DEF NoMore, AccessInv
  <2>5. CASE Key # {}
    <3>1. PICK a \in Key : TRUE
      BY <2>5
    <3> QED BY <2>1, <2>2, <2>3, <3>1, NewChat
  <2> QED BY <2>4, <2>5
<1> QED BY <1>1, <1>2

\* Somebody connects to a chat that listens: he has a chance only if he is not blocked.
LEMMA ChatAccepts ==
  ASSUME AccessInv, NEW i \in DOMAIN chats, NEW a \in Address, chat_accept(i, a)
  PROVE  NoMore(bad', chats', https')
<1> DEFINE k == SeenAs(a, "chatme")
           c == [chats[i] EXCEPT !.key = k]
           q == [chats EXCEPT ![i] = c]
<1>1. k \in Key /\ https' = https /\ chats[i].status = "LISTENING"
  BY DEF Key, SeenAs, chat_accept
<1>2. CASE chats' = Set(chats, i, "DEAF") /\ bad' = bad
  <2>1. "DEAF" \in ChatStatus \cup {"GONE"} /\ "DEAF" \notin Open
    BY DEF ChatStatus, Open
  <2> QED BY <1>1, <1>2, <2>1, MoveChat
<1>3. CASE ~(chats' = Set(chats, i, "DEAF") /\ bad' = bad)
  <2>1. /\ bad' = Asked(k)
        /\ \E s \in IF is_in_badip(k) THEN {"GONE"} ELSE Greeted(chats[i].ssl, "SSL_ACCEPT") :
             chats' = Set([chats EXCEPT ![i].key = k], i, s)
    BY <1>3 DEF chat_accept
  <2>2. PICK s \in IF is_in_badip(k) THEN {"GONE"} ELSE Greeted(chats[i].ssl, "SSL_ACCEPT") :
          chats' = Set([chats EXCEPT ![i].key = k], i, s)
    BY <2>1
  <2>3. s \in ChatStatus \cup {"GONE"} /\ s \notin {"LISTENING", "DEAF"} /\ (is_in_badip(k) => s = "GONE")
    BY <2>2 DEF Greeted, ChatStatus
  <2>4. chats[i] \in ChatRecord /\ ChatsKnown(chats)
    BY DEF AccessInv, ChatsKnown
  <2> HIDE DEF k
  <2>5. c \in ChatRecord /\ c.status = "LISTENING" /\ c.key = k
    BY <1>1, <2>4 DEF ChatRecord
  <2>6. [chats EXCEPT ![i].key = k] = q
    OBVIOUS
  <2> HIDE DEF c
  <2>7. /\ ChatsKnown(q)
        /\ \A h \in Key : Count(q, Try(h)) =
             Count(chats, Try(h)) - (IF MayTry(chats[i], h) THEN 1 ELSE 0) + (IF MayTry(c, h) THEN 1 ELSE 0)
    BY <1>1, <2>4, <2>5, ChangeChat
  <2>8. i \in DOMAIN q /\ q[i] = c
    BY <2>4 DEF ChatsKnown
  <2> HIDE DEF q
  <2>9. \A h \in Key : ~MayTry(chats[i], h) /\ ~MayTry(c, h)
    BY <1>1, <2>5 DEF MayTry
  <2> DEFINE r == Set(q, i, s)
  <2>10. /\ ChatsKnown(r)
         /\ \A h \in Key : Count(r, Try(h)) =
              Count(q, Try(h)) - (IF MayTry(q[i], h) THEN 1 ELSE 0)
                               + (IF q[i].key = h /\ s \in Open THEN 1 ELSE 0)
    BY <1>1, <2>3, <2>5, <2>7, <2>8, SetChat
  <2> HIDE DEF r
  <2>11. Asked(k) \in Counts /\ \A h \in Key : Asked(k)[h].count = bad[h].count /\ Asked(k)[h].age <= Hour + 1
    BY <1>1, AskedSame
  <2>12. ASSUME NEW h \in Key, is_in_badip(h)
         PROVE  Sum(Asked(k), r, https, h) <= Sum(bad, chats, https, h)
    <3>1. ~(q[i].key = h /\ s \in Open)
      BY <2>3, <2>5, <2>8, <2>12 DEF Open
    <3>2. Count(r, Try(h)) = Count(chats, Try(h))
      BY <2>7, <2>8, <2>9, <2>10, <3>1, Numbers
    <3> QED BY <2>11, <3>2, Numbers DEF Sum
  <2>13. bad' = Asked(k) /\ chats' = r
    BY <2>1, <2>2, <2>6 DEF r
  <2> QED BY <1>1, <2>10, <2>11, <2>12, <2>13 DEF NoMore, AccessInv
<1> QED BY <1>2, <1>3

\* Connecting, the handshake and the end of a chat.
LEMMA ChatMoves ==
  ASSUME AccessInv, NEW i \in DOMAIN chats,
         chat_connected(i) \/ Handshake(i) \/ chat_shutdown(i)
  PROVE  NoMore(bad', chats', https')
<1>1. bad' = bad /\ https' = https
  BY DEF chat_connected, Handshake, chat_shutdown
<1>2. PICK x \in {"SSL_CONNECT", "AUTHENTICATING", "GONE"} :
        /\ chats' = Set(chats, i, x)
        /\ x # "GONE" => chats[i].status \in {"CONNECTING", "SSL_ACCEPT", "SSL_CONNECT"}
  BY DEF chat_connected, Handshake, chat_shutdown, Greeted
<1>3. x \in ChatStatus \cup {"GONE"}
  BY DEF ChatStatus
<1>4. chats[i].status \notin {"LISTENING", "DEAF"} \/ x \in {"LISTENING", "DEAF", "GONE"}
  BY <1>2
<1>5. x \in Open => chats[i].status \in Open
  BY <1>2 DEF Open
<1> QED BY <1>1, <1>2, <1>3, <1>4, <1>5, MoveChat

\* A wrong password takes the chat with it.
LEMMA ChatReads ==
  ASSUME AccessInv, NEW i \in DOMAIN chats, NEW lines, Len(lines) \in Nat, chat_read(i, lines)
  PROVE  NoMore(bad', chats', https')
<1> DEFINE c == chats[i]
           s == Parsed(c.status, lines)[Len(lines)]
           r == Set(chats, i, s.status)
<1>1. /\ c.status \in {"AUTHENTICATING", "CONNECTED"} /\ count_badip(c.key, s.wrong)
      /\ chats' = r /\ https' = https
  BY DEF chat_read
<1>2. Outcome(c.status, s)
  BY <1>1, ParsedOutcome
<1> HIDE DEF s
<1>3. /\ s.status \in {"AUTHENTICATING", "CONNECTED", "GONE"} /\ s.wrong \in {0, 1}
      /\ s.status = "AUTHENTICATING" => c.status = "AUTHENTICATING" /\ s.wrong = 0
      /\ s.wrong = 1 => c.status = "AUTHENTICATING" /\ s.status = "GONE"
  BY <1>1, <1>2 DEF Outcome
<1>4. c \in ChatRecord /\ c.key \in Key
  BY <1>1 DEF AccessInv, ChatsKnown, Known, Elems
<1>5. /\ ChatsKnown(r)
      /\ \A k \in Key : Count(r, Try(k)) =
           Count(chats, Try(k)) - (IF MayTry(c, k) THEN 1 ELSE 0)
                                + (IF c.key = k /\ s.status \in Open THEN 1 ELSE 0)
  <2>1. s.status \in ChatStatus \cup {"GONE"}
    BY <1>3 DEF ChatStatus
  <2> QED BY <1>4, <2>1, SetChat DEF AccessInv
<1> HIDE DEF r
<1>6. /\ bad' \in Counts /\ \A k \in Key : bad'[k].age <= Hour + 1
      /\ \A k \in Key : bad'[k].count = bad[k].count + (IF c.key = k THEN s.wrong ELSE 0)
  <2>1. bad \in Counts /\ (\A k \in Key : bad[k].age <= Hour + 1) /\ Hour \in Nat
    BY AccessAssumption DEF AccessInv, AccessTypeOK
  <2>2. CASE s.wrong = 0
    BY <1>1, <2>1, <2>2 DEF count_badip, Counts
  <2>3. CASE s.wrong = 1
    <3>1. bad' = [bad EXCEPT ![c.key] = [count |-> @.count + 1, age |-> 0]]
      BY <1>1, <2>3 DEF count_badip
    <3> HIDE DEF c
    <3> QED BY <1>4, <2>1, <2>3, <3>1 DEF Counts
  <2> QED BY <1>3, <2>2, <2>3
<1>7. ASSUME NEW k \in Key PROVE Sum(bad', r, https, k) <= Sum(bad, chats, https, k)
  <2>1. MayTry(c, k) <=> c.key = k /\ c.status \in Open
    BY <1>1 DEF MayTry, Open
  <2>2. s.status \in Open <=> s.status = "AUTHENTICATING"
    BY <1>3 DEF Open
  <2>3. Count(r, Try(k)) + (IF c.key = k THEN s.wrong ELSE 0) <= Count(chats, Try(k)) /\ Count(r, Try(k)) \in Int
    <3>1. "AUTHENTICATING" \in Open
      BY DEF Open
    <3>2. CASE c.key # k
      BY <1>5, <2>1, <3>2, Numbers
    <3>3. CASE c.key = k /\ s.wrong = 1
      BY <1>3, <1>5, <2>1, <2>2, <3>1, <3>3, Numbers
    <3>4. CASE c.key = k /\ s.wrong = 0
      BY <1>3, <1>5, <2>1, <2>2, <3>1, <3>4, Numbers
    <3> QED BY <1>3, <3>2, <3>3, <3>4
  <2> DEFINE w == IF c.key = k THEN s.wrong ELSE 0
             now == Count(r, Try(k))
             old == Count(chats, Try(k))
             asks == Count(https, Ask(k))
  <2>4. w \in Int /\ now \in Int /\ old \in Int /\ asks \in Int /\ bad[k].count \in Int
    BY <1>3, <2>3, Numbers
  <2>5. bad'[k].count = bad[k].count + w /\ now + w <= old
    BY <1>6, <2>3
  <2>6. Sum(bad', r, https, k) = bad'[k].count + now + asks /\ Sum(bad, chats, https, k) = bad[k].count + old + asks
    BY DEF Sum
  <2> HIDE DEF w, now, old, asks, c
  <2> QED BY <2>4, <2>5, <2>6
<1> QED BY <1>1, <1>5, <1>6, <1>7 DEF NoMore, AccessInv

\* All chats are closed: none of them has a chance.
LEMMA ChatsClose ==
  ASSUME AccessInv, closec_all
  PROVE  NoMore(bad', chats', https')
<1>1. chats' = <<>> /\ bad' = bad /\ https' = https
  BY DEF closec_all
<1>2. ChatsKnown(<<>>)
  BY DEF ChatsKnown, Known, Elems
<1>3. ASSUME NEW k \in Key PROVE Sum(bad, <<>>, https, k) <= Sum(bad, chats, https, k)
  <2>1. Count(<<>>, Try(k)) = 0
    BY CountNone
  <2> QED BY <2>1, Numbers DEF Sum
<1>4. \A k \in Key : bad[k].age <= Hour + 1
  BY AccessAssumption DEF AccessInv, AccessTypeOK
<1> QED BY <1>1, <1>2, <1>3, <1>4 DEF NoMore, AccessInv

\* A request from a blocked address is not heard.
LEMMA RequestBegins ==
  ASSUME AccessInv, NEW a \in Address, http_accept(a)
  PROVE  NoMore(bad', chats', https')
<1> DEFINE c == [key |-> a, status |-> IF a \in Denied THEN "SENDING" ELSE "GETTING"]
           r == Append(https, c)
<1>1. a \in Key /\ bad' = Asked(a) /\ chats' = chats
  BY DEF Key, http_accept
<1>2. /\ Asked(a) \in Counts
      /\ \A k \in Key : Asked(a)[k].count = bad[k].count /\ Asked(a)[k].age <= Hour + 1
  BY <1>1, AskedSame
<1>3. CASE https' = https
  BY <1>1, <1>2, <1>3, SameLists
<1>4. CASE https' = r /\ ~is_in_badip(a)
  <2>1. c \in HttpRecord /\ c.key = a /\ https \in Seq(HttpRecord)
    BY <1>1 DEF HttpRecord, AccessInv
  <2> HIDE DEF c
  <2>2. r \in Seq(HttpRecord)
    BY <2>1
  <2>3. ASSUME NEW k \in Key, is_in_badip(k) PROVE Sum(Asked(a), chats, r, k) <= Sum(bad, chats, https, k)
    <3>1. c \notin Ask(k)
      BY <1>4, <2>1, <2>3 DEF Ask, MayTry
    <3>2. Count(r, Ask(k)) = Count(https, Ask(k)) + 0
      BY <2>1, <3>1, CountAppend
    <3> HIDE DEF r
    <3>3. Count(r, Ask(k)) = Count(https, Ask(k))
      BY <3>2, Numbers
    <3> QED BY <1>2, <3>3, Numbers DEF Sum
  <2> HIDE DEF r
  <2> QED BY <1>1, <1>2, <1>4, <2>2, <2>3 DEF NoMore, AccessInv
<1> QED BY <1>3, <1>4 DEF http_accept

\* A page below /admin without the password costs the request; a body is waited for with
\* the chance the request had.
LEMMA RequestMoves ==
  ASSUME AccessInv, NEW i \in DOMAIN https,
         \/ http_closeconn(i)
         \/ \E page \in {"lost", "body", "list", "admin"} : h_request(i, page)
  PROVE  NoMore(bad', chats', https')
<1> DEFINE c == https[i]
<1>1. PICK x \in {"POST", "SENDING", "GONE"}, n \in {0, 1} :
        /\ https' = Set(https, i, x) /\ count_badip(c.key, n)
        /\ n = 1 \/ x = "POST" => c.status \in {"GETTING", "POST"}
        /\ n = 1 => x = "SENDING"
  <2>1. CASE http_closeconn(i)
    BY <2>1 DEF http_closeconn, count_badip
  <2>2. ASSUME NEW page \in {"lost", "body", "list", "admin"}, h_request(i, page)
        PROVE  /\ count_badip(c.key, IF page = "admin" THEN 1 ELSE 0)
               /\ c.status \in {"GETTING", "POST"}
               /\ https' = Set(https, i, CASE page = "lost" -> "GONE" [] page = "body" -> "POST" [] OTHER -> "SENDING")
    BY <2>2 DEF h_request
  <2>3. CASE \E page \in {"lost", "body", "list", "admin"} : h_request(i, page)
    <3>1. PICK page \in {"lost", "body", "list", "admin"} : h_request(i, page)
      BY <2>3
    <3>2. CASE page = "admin"
      BY <2>2, <3>1, <3>2
    <3>3. CASE page # "admin"
      BY <2>2, <3>1, <3>3
    <3> QED BY <3>2, <3>3
  <2> QED BY <2>1, <2>3
<1>2. c \in HttpRecord /\ c.key \in Key /\ https \in Seq(HttpRecord) /\ chats' = chats
  <2>1. https \in Seq(HttpRecord) /\ c \in HttpRecord
    BY DEF AccessInv
  <2>2. c.key \in Key
    BY <2>1 DEF HttpRecord
  <2>3. chats' = chats
    BY DEF http_closeconn, h_request
  <2> QED BY <2>1, <2>2, <2>3
<1> DEFINE r == Set(https, i, x)
<1>3. /\ r \in Seq(HttpRecord)
      /\ \A k \in Key : Count(r, Ask(k)) =
           Count(https, Ask(k)) - (IF MayTry(c, k) THEN 1 ELSE 0)
                                + (IF c.key = k /\ x \in {"GETTING", "POST"} THEN 1 ELSE 0)
  BY <1>2, SetRequest
<1> HIDE DEF r, c
<1>4. /\ bad' \in Counts /\ \A k \in Key : bad'[k].age <= Hour + 1
      /\ \A k \in Key : bad'[k].count = bad[k].count + (IF c.key = k THEN n ELSE 0)
  <2>1. bad \in Counts /\ (\A k \in Key : bad[k].age <= Hour + 1) /\ Hour \in Nat
    BY AccessAssumption DEF AccessInv, AccessTypeOK
  <2>2. CASE n = 0
    BY <1>1, <2>1, <2>2 DEF count_badip, Counts
  <2>3. CASE n = 1
    <3>1. bad' = [bad EXCEPT ![c.key] = [count |-> @.count + 1, age |-> 0]]
      BY <1>1, <2>3 DEF count_badip
    <3> QED BY <1>2, <2>1, <2>3, <3>1 DEF Counts
  <2> QED BY <2>2, <2>3
<1>5. ASSUME NEW k \in Key PROVE Sum(bad', chats, r, k) <= Sum(bad, chats, https, k)
  <2> DEFINE w == IF c.key = k THEN n ELSE 0
             now == Count(r, Ask(k))
             old == Count(https, Ask(k))
             try == Count(chats, Try(k))
  <2>1. MayTry(c, k) <=> c.key = k /\ c.status \in {"GETTING", "POST"}
    BY <1>2 DEF MayTry, HttpRecord
  <2>2. w \in Int /\ old \in Int /\ try \in Int /\ bad[k].count \in Int
    BY Numbers
  <2>3. now \in Int /\ now + w <= old
    <3>1. CASE c.key # k
      BY <1>3, <2>1, <2>2, <3>1
    <3>2. CASE c.key = k /\ n = 1
      BY <1>1, <1>3, <2>1, <2>2, <3>2
    <3>3. CASE c.key = k /\ n = 0
      BY <1>1, <1>3, <2>1, <2>2, <3>3
    <3> QED BY <3>1, <3>2, <3>3
  <2>4. bad'[k].count = bad[k].count + w
    BY <1>4
  <2>5. Sum(bad', chats, r, k) = bad'[k].count + try + now /\ Sum(bad, chats, https, k) = bad[k].count + try + old
    BY DEF Sum
  <2> HIDE DEF w, now, old, try
  <2> QED BY <2>2, <2>3, <2>4, <2>5
<1> QED BY <1>1, <1>2, <1>3, <1>4, <1>5 DEF NoMore, AccessInv, r

\* Only an address that was silent for an hour is forgiven.
LEMMA TimePasses ==
  ASSUME AccessInv, expire_badip \/ Tick
  PROVE  NoMore(bad', chats', https')
<1>1. chats' = chats /\ https' = https
  BY DEF expire_badip, Tick
<1>2. bad \in Counts /\ (\A k \in Key : bad[k].age <= Hour + 1) /\ Hour \in Nat
  BY AccessAssumption DEF AccessInv, AccessTypeOK
<1>3. /\ bad' \in Counts /\ \A k \in Key : bad'[k].age <= Hour + 1
      /\ \A k \in Key : bad[k].age <= Hour => bad'[k].count = bad[k].count
  <2>1. CASE expire_badip
    BY <1>2, <2>1 DEF expire_badip, Counts
  <2>2. CASE Tick
    BY <1>2, <2>2 DEF Tick, Counts
  <2> QED BY <2>1, <2>2
<1> QED BY <1>1, <1>3, SameLists
-----------------------------------------------------------------------------
(* The theorems *)

\* No event gives a blocked address another chance.
LEMMA EventNoMore ==
  ASSUME AccessInv, AccessEvent
  PROVE  NoMore(bad', chats', https')
<1>1. \A lines \in Lines : Len(lines) \in Nat
  BY DEF Lines
<1>2. CASE \/ \E a \in Address : telnet_accept(a)
           \/ \E a \in Address, ssl \in BOOLEAN : chat_setup(a, ssl)
           \/ \E ssl \in BOOLEAN : chat_setup_out(ssl)
  BY <1>2, ChatBegins
<1>3. CASE \E i \in DOMAIN chats, a \in Address : chat_accept(i, a)
  BY <1>3, ChatAccepts
<1>4. CASE \E i \in DOMAIN chats : chat_connected(i) \/ Handshake(i) \/ chat_shutdown(i)
  BY <1>4, ChatMoves
<1>5. CASE \E i \in DOMAIN chats, lines \in Lines : chat_read(i, lines)
  BY <1>1, <1>5, ChatReads
<1>6. CASE closec_all
  BY <1>6, ChatsClose
<1>7. CASE \E a \in Address : http_accept(a)
  BY <1>7, RequestBegins
<1>8. CASE \/ \E i \in DOMAIN https, page \in {"lost", "body", "list", "admin"} : h_request(i, page)
           \/ \E i \in DOMAIN https : http_closeconn(i)
  BY <1>8, RequestMoves
<1>9. CASE expire_badip \/ Tick
  BY <1>9, TimePasses
<1> QED BY <1>2, <1>3, <1>4, <1>5, <1>6, <1>7, <1>8, <1>9 DEF AccessEvent

\* A step keeps the invariant: the event its own part, the step's bounds the rest.
LEMMA AccessStep ==
  ASSUME AccessInv, [AccessNext]_acVars
  PROVE  AccessInv' /\ NoMore(bad', chats', https')
<1>1. CASE UNCHANGED acVars
  <2>1. bad' = bad /\ chats' = chats /\ https' = https
    BY <1>1 DEF acVars
  <2>2. AccessInv'
    BY <2>1 DEF AccessInv, AccessTypeOK
  <2>3. bad \in Counts /\ \A k \in Key : bad[k].age <= Hour + 1
    BY AccessAssumption DEF AccessInv, AccessTypeOK
  <2> QED BY <2>1, <2>2, <2>3, SameLists
<1>2. CASE AccessNext
  <2>1. NoMore(bad', chats', https') /\ Len(chats') + Len(https') <= MaxOpen /\ \A k \in Key : bad'[k].count <= MaxCount
    BY <1>2, EventNoMore DEF AccessNext
  <2>2. bad' \in Counts /\ ChatsKnown(chats') /\ https' \in Seq(HttpRecord) /\ \A k \in Key : bad'[k].age <= Hour + 1
    BY <2>1 DEF NoMore
  <2>3. \A k \in Key : bad'[k].count \in Nat /\ bad'[k].age \in Nat
    BY <2>2 DEF Counts
  <2>4. AccessTypeOK'
    BY <2>1, <2>2, <2>3, AccessAssumption DEF AccessTypeOK, ChatsKnown
  <2> QED BY <2>1, <2>2, <2>4 DEF AccessInv
<1> QED BY <1>1, <1>2

\* Doors, passwords and counts are of their types, and a chat that can try one knows whose it is.
THEOREM AccessTypes == AccessSpec => []AccessInv
<1>1. AccessInit => AccessInv
  <2> SUFFICES ASSUME AccessInit PROVE AccessInv
    OBVIOUS
  <2>1. bad \in Counts /\ chats = <<>> /\ https = <<>> /\ \A k \in Key : bad[k].count = 0 /\ bad[k].age = 0
    BY DEF AccessInit, Counts
  <2>2. ChatsKnown(<<>>)
    BY DEF ChatsKnown, Known, Elems
  <2> QED BY <2>1, <2>2, AccessAssumption DEF AccessInv, AccessTypeOK, ChatsKnown
<1>2. AccessInv /\ [AccessNext]_acVars => AccessInv'
  BY AccessStep
<1> QED BY <1>1, <1>2, PTL DEF AccessSpec

\* Blocked for every instance: an address with too many wrong passwords, as a door sees
\* it, gets no more chances than those it has open, at any door that sees the same of
\* it, until it was silent for an hour.
THEOREM BlockedHolds == AccessSpec => Blocked
<1> DEFINE A == \A a \in Address, door \in Door :
                  LET k == SeenAs(a, door)
                  IN is_in_badip(k) /\ bad[k].age <= Hour => Chances'[k] <= Chances[k]
<1>1. AccessInv /\ [AccessNext]_acVars => [A]_acVars
  <2> SUFFICES ASSUME AccessInv, [AccessNext]_acVars PROVE A
    OBVIOUS
  <2>1. NoMore(bad', chats', https')
    BY AccessStep
  <2>2. ASSUME NEW k \in Key PROVE Chances[k] = Sum(bad, chats, https, k) /\ Chances'[k] = Sum(bad', chats', https', k)
    BY DEF Chances, Sum, Try, Ask
  <2>3. \A a \in Address, door \in Door : SeenAs(a, door) \in Key
    BY DEF SeenAs, Key
  <2> QED BY <2>1, <2>2, <2>3 DEF NoMore
<1> QED BY <1>1, AccessTypes, PTL DEF AccessSpec, Blocked
-----------------------------------------------------------------------------
(***************************************************************************)
(* HttpWhole for files and pages of any size, any bandwidth and any size   *)
(* of a read.                                                              *)
(*                                                                         *)
(* What was sent ends where the answer goes on (Fits): that place moves    *)
(* only together with the body, and an answer has neither file nor page    *)
(* any more when it has reached its end.                                   *)
(***************************************************************************)

ConRecord ==
  [status : {"GETTING", "POST", "SENDING", "DONE"}, file : BOOLEAN, page : BOOLEAN,
   from : Nat, to : 0..MaxSize, pos : Nat, speed : Speeds, bucket : Int,
   quiet : 0..Patience, first : Nat, due : Int, body : Seq(Nat),
   ended : {"", "lost", "complete", "timeout"}]

\* A bucket is overdrawn by less than a page.
Filled(c) == c.bucket \in (-MaxSize)..MAXTXPERLOOP \cup 0..(BurstQuarters * c.speed)

\* Nothing has been answered.
Unanswered(c) ==
  /\ c \in ConRecord /\ c.bucket = 0 /\ c.body = <<>> /\ ~c.file /\ ~c.page
  /\ c.from = 0 /\ c.to = 0 /\ c.first = 0 /\ c.due = 0 /\ c.ended # "complete"

Placed(c) ==
  /\ c.body = [i \in 1..Len(c.body) |-> c.first + i - 1]
  /\ c.from = c.first + Len(c.body) /\ c.due \in {0, (c.to - c.first) % Word64}

\* It has all that was announced, unless it starts behind its end.
Enough(c) == c.first <= c.to => Len(c.body) >= c.due
Fits(c) ==
  /\ c \in ConRecord /\ Filled(c) /\ Placed(c)
  /\ c.status \in {"GETTING", "POST"} => Unanswered(c) /\ c.speed = 0
  /\ c.status # "DONE" => c.ended # "complete"
  /\ c.status = "DONE" => ~c.file /\ ~c.page
  /\ c.ended = "complete" \/ (c.status = "SENDING" /\ ~c.file /\ ~c.page) => Enough(c)
HttpInv == Fits(con) /\ size \in 0..MaxSize
-----------------------------------------------------------------------------
(* The answer *)

\* An answer that ends keeps nothing open; it is complete only if nothing is left.
LEMMA ClosedFits ==
  ASSUME NEW c, Fits(c), NEW how \in {"lost", "complete", "timeout"},
         how = "complete" => c.status = "SENDING" /\ ~c.file /\ ~c.page
  PROVE  Fits(h_closeconn(c, how))
<1> DEFINE d == h_closeconn(c, how)
<1>1. c \in ConRecord /\ Filled(c) /\ Placed(c) /\ (how = "complete" => Enough(c))
  BY DEF Fits
<1>2. d \in ConRecord
  <2>1. 0 \in 0..Patience
    BY HttpAssumption
  <2> QED BY <1>1, <2>1 DEF h_closeconn, ConRecord
<1>3. /\ d.status = "DONE" /\ ~d.file /\ ~d.page /\ d.ended = how
      /\ d.body = c.body /\ d.first = c.first /\ d.from = c.from /\ d.to = c.to /\ d.due = c.due
      /\ d.bucket = c.bucket /\ d.speed = c.speed
  BY <1>1 DEF h_closeconn, ConRecord
<1> HIDE DEF d
<1>4. Filled(d)
  BY <1>1, <1>3 DEF Filled
<1>5. Placed(d)
  BY <1>1, <1>3 DEF Placed
<1>6. d.status \notin {"GETTING", "POST"}
  BY <1>3
<1>7. d.ended = "complete" => Enough(d)
  BY <1>1, <1>3 DEF Enough
<1>8. d.status # "SENDING"
  BY <1>3
<1>9. Fits(d)
  BY <1>2, <1>3, <1>4, <1>5, <1>6, <1>7, <1>8 DEF Fits
<1> QED BY <1>9 DEF d

\* An error is a header and no body.
LEMMA ErrorGood ==
  ASSUME NEW c, Unanswered(c)
  PROVE  Fits(h_error(c))
<1> DEFINE d == h_error(c)
<1>1. d \in ConRecord
  BY HttpAssumption DEF Unanswered, h_error, ConRecord
<1>2. /\ d.status = "SENDING" /\ d.body = <<>> /\ d.ended = c.ended
      /\ d.first = 0 /\ d.from = 0 /\ d.to = 0 /\ d.due = 0
      /\ d.bucket = c.bucket /\ d.speed = c.speed
  BY DEF Unanswered, h_error, ConRecord
<1> HIDE DEF d
<1>3. Placed(d) /\ Len(d.body) = 0
  BY <1>2 DEF Placed
<1>4. Filled(d)
  BY <1>2, HttpAssumption DEF Filled, Unanswered
<1>5. d.status \notin {"GETTING", "POST", "DONE"} /\ d.ended # "complete"
  BY <1>2 DEF Unanswered
<1>6. Enough(d)
  BY <1>2, <1>3 DEF Enough
<1>7. Fits(d)
  BY <1>1, <1>3, <1>4, <1>5, <1>6 DEF Fits
<1> QED BY <1>7 DEF d

\* A header promises what lies between its ends, and the answer starts at the first.
LEMMA WriteStatus ==
  ASSUME NEW c, Unanswered(c), NEW length \in 0..MaxSize, NEW total \in 0..MaxSize,
         NEW range \in Ranges, NEW head \in BOOLEAN
  PROVE  LET d == h_write_status(c, length, total, range, head)
         IN /\ d \in ConRecord /\ Filled(d) /\ Placed(d)
            /\ d.status = "SENDING" /\ d.ended # "complete"
<1> DEFINE from == IF range = <<>> THEN 0 ELSE range[1]
           to == CASE range = <<>> -> length
                   [] range # <<>> /\ range[2] \in 1..(total - 1) -> range[2] + 1
                   [] OTHER -> total
           d == [c EXCEPT !.status = "SENDING", !.from = from, !.to = IF head THEN 0 ELSE to,
                          !.first = from, !.due = IF head THEN 0 ELSE (to - from) % Word64]
<1>1. h_write_status(c, length, total, range, head) = d
  BY DEF h_write_status
<1>2. MaxSize \in Nat
  BY HttpAssumption
<1>3. from \in Nat
  <2>1. CASE range = <<>>
    BY <2>1
  <2>2. CASE range # <<>>
    <3>1. range \in (0..MaxSize) \X (0..MaxSize)
      BY <2>2 DEF Ranges
    <3>2. range[1] \in 0..MaxSize
      BY <3>1
    <3> QED BY <2>2, <3>2, <1>2
  <2> QED BY <2>1, <2>2
<1>4. to \in 0..MaxSize
  <2>1. CASE range = <<>>
    BY <2>1
  <2>2. CASE range # <<>> /\ range[2] \in 1..(total - 1)
    <3>1. range[2] + 1 \in 0..MaxSize
      BY <2>2, <1>2
    <3> QED BY <2>2, <3>1
  <2>3. CASE range # <<>> /\ range[2] \notin 1..(total - 1)
    BY <2>3
  <2> QED BY <2>1, <2>2, <2>3
<1> HIDE DEF from, to
<1>5. d \in ConRecord
  <2>1. (IF head THEN 0 ELSE to) \in 0..MaxSize /\ (IF head THEN 0 ELSE (to - from) % Word64) \in Int
    BY <1>2, <1>3, <1>4, HttpAssumption
  <2> QED BY <1>3, <2>1 DEF Unanswered, ConRecord
<1>6. /\ d.status = "SENDING" /\ d.ended = c.ended /\ d.body = <<>> /\ d.from = from /\ d.first = from
      /\ d.to = (IF head THEN 0 ELSE to) /\ d.due = (IF head THEN 0 ELSE (to - from) % Word64)
      /\ d.bucket = c.bucket /\ d.speed = c.speed
  BY DEF Unanswered, ConRecord
<1> HIDE DEF d
<1>7. d.body = [i \in 1..Len(d.body) |-> d.first + i - 1] /\ Len(d.body) = 0
  BY <1>6
<1>8. Filled(d)
  BY <1>6, HttpAssumption DEF Filled, Unanswered
<1>9. Placed(d)
  BY <1>3, <1>4, <1>6, <1>7 DEF Placed
<1>10. d.ended # "complete"
  BY <1>6 DEF Unanswered
<1> QED BY <1>1, <1>5, <1>6, <1>8, <1>9, <1>10

\* A file, or a page, is sent.
LEMMA ReadGood ==
  ASSUME size \in 0..MaxSize, NEW c, Unanswered(c),
         NEW range \in Ranges, NEW head \in BOOLEAN
  PROVE  /\ Fits(h_readfile(c, range, head))
         /\ \A n \in 1..MaxSize : Fits(h_readbuffer(c, n, range, head))
<1>1. Fits(h_readfile(c, range, head))
  <2> DEFINE d == h_write_status(c, size, size, range, head)
             e == h_readfile(c, range, head)
  <2>1. d \in ConRecord /\ Filled(d) /\ Placed(d) /\ d.status = "SENDING" /\ d.ended # "complete"
    BY WriteStatus
  <2>2. e = [d EXCEPT !.file = TRUE, !.pos = 0]
    BY DEF h_readfile
  <2> HIDE DEF d, e
  <2>3. e \in ConRecord
    BY <2>1, <2>2 DEF ConRecord
  <2>4. /\ e.status = "SENDING" /\ e.file /\ e.ended = d.ended /\ e.body = d.body /\ e.from = d.from
        /\ e.first = d.first /\ e.to = d.to /\ e.due = d.due /\ e.bucket = d.bucket /\ e.speed = d.speed
    BY <2>1, <2>2 DEF ConRecord
  <2> HIDE DEF e
  <2>5. Fits(e)
    BY <2>1, <2>3, <2>4 DEF Fits, Filled, Placed
  <2> QED BY <2>5 DEF e
<1>2. ASSUME NEW n \in 1..MaxSize PROVE Fits(h_readbuffer(c, n, range, head))
  <2> DEFINE d == h_write_status(c, n, 0, range, head)
             e == h_readbuffer(c, n, range, head)
  <2>1. n \in 0..MaxSize /\ 0 \in 0..MaxSize
    BY HttpAssumption
  <2>2. d \in ConRecord /\ Filled(d) /\ Placed(d) /\ d.status = "SENDING" /\ d.ended # "complete"
    BY <2>1, WriteStatus
  <2>3. e = [d EXCEPT !.page = TRUE]
    BY DEF h_readbuffer
  <2> HIDE DEF d, e
  <2>4. e \in ConRecord
    BY <2>2, <2>3 DEF ConRecord
  <2>5. /\ e.status = "SENDING" /\ e.page /\ e.ended = d.ended /\ e.body = d.body /\ e.from = d.from
        /\ e.first = d.first /\ e.to = d.to /\ e.due = d.due /\ e.bucket = d.bucket /\ e.speed = d.speed
    BY <2>2, <2>3 DEF ConRecord
  <2>6. Fits(e)
    BY <2>2, <2>4, <2>5 DEF Fits, Filled, Placed
  <2> QED BY <2>6 DEF e
<1> QED BY <1>1, <1>2
-----------------------------------------------------------------------------
(* Sending *)

\* There is something to send and the bucket lets it.
Sending(c) == Fits(c) /\ c.status = "SENDING" /\ (c.file \/ c.page) /\ c.bucket >= 1
Rounds == {r \in [c : ConRecord, again : BOOLEAN] : Fits(r.c) /\ (r.again => Sending(r.c))}

\* The bytes after those that were sent follow them.
LEMMA BodyGrows ==
  ASSUME NEW body \in Seq(Nat), NEW first \in Nat, NEW n \in Nat,
         body = [i \in 1..Len(body) |-> first + i - 1]
  PROVE  LET more == body \o [i \in 1..n |-> first + Len(body) + i - 1]
         IN /\ more \in Seq(Nat) /\ Len(more) = Len(body) + n
            /\ more = [i \in 1..Len(more) |-> first + i - 1]
<1> DEFINE new == [i \in 1..n |-> first + Len(body) + i - 1]
           more == body \o new
<1>1. Len(body) \in Nat /\ DOMAIN body = 1..Len(body)
  OBVIOUS
<1>2. new \in Seq(Nat) /\ Len(new) = n
  BY <1>1
<1>3. \A i \in 1..n : new[i] = first + Len(body) + i - 1
  OBVIOUS
<1>4. \A i \in 1..Len(body) : body[i] = first + i - 1
  <2> DEFINE f == [i \in 1..Len(body) |-> first + i - 1]
  <2>1. \A i \in 1..Len(body) : f[i] = first + i - 1
    OBVIOUS
  <2>2. body = f
    OBVIOUS
  <2> HIDE DEF f
  <2> QED BY <2>1, <2>2
<1> HIDE DEF new
<1>5. /\ more \in Seq(Nat) /\ Len(more) = Len(body) + n
      /\ \A i \in 1..(Len(body) + n) : more[i] = IF i <= Len(body) THEN body[i] ELSE new[i - Len(body)]
  BY <1>2, ConcatProperties, Zenon
<1>6. \A i \in 1..(Len(body) + n) : more[i] = first + i - 1
  <2> SUFFICES ASSUME NEW i \in 1..(Len(body) + n) PROVE more[i] = first + i - 1
    OBVIOUS
  <2>1. CASE i <= Len(body)
    <3>1. more[i] = body[i] /\ i \in 1..Len(body)
      BY <1>1, <1>5, <2>1
    <3> QED BY <1>4, <3>1
  <2>2. CASE i > Len(body)
    <3>1. i - Len(body) \in 1..n /\ more[i] = new[i - Len(body)]
      BY <1>1, <1>5, <2>2
    <3>2. new[i - Len(body)] = first + Len(body) + (i - Len(body)) - 1
      BY <1>3, <3>1
    <3> QED BY <1>1, <3>1, <3>2
  <2>3. i <= Len(body) \/ i > Len(body)
    BY <1>1
  <2> QED BY <2>1, <2>2, <2>3, Zenon
<1>7. more = [i \in 1..Len(more) |-> first + i - 1]
  <2>1. DOMAIN more = 1..Len(more) /\ more = [i \in 1..Len(more) |-> more[i]]
    BY <1>5, LenProperties
  <2> HIDE DEF more
  <2> QED BY <1>5, <1>6, <2>1
<1> QED BY <1>5, <1>7 DEF new

\* What the bucket loses: no more than a page.
LEMMA BucketGood ==
  ASSUME NEW speed \in Speeds, NEW b \in Int, b >= 1, NEW n \in 0..MaxSize,
         b \in (-MaxSize)..MAXTXPERLOOP \cup 0..(BurstQuarters * speed)
  PROVE  b - n \in (-MaxSize)..MAXTXPERLOOP \cup 0..(BurstQuarters * speed)
<1> DEFINE most == BurstQuarters * speed
<1>1. most \in Nat /\ MaxSize \in Nat /\ MAXTXPERLOOP \in Nat
  BY HttpAssumption
<1> HIDE DEF most
<1>2. b - n \in (-MaxSize)..MAXTXPERLOOP \cup 0..most
  BY <1>1 DEF most
<1> QED BY <1>2 DEF most

\* A piece that is sent is the one behind what was sent.
LEMMA SentGood ==
  ASSUME NEW c, Sending(c), NEW read \in Nat, read <= MaxSize, NEW n \in 0..read
  PROVE  Sent(c, c.from, read, n) \in Rounds
<1> DEFINE body == c.body \o [i \in 1..n |-> c.from + i - 1]
           pos == IF c.file THEN c.pos + read ELSE c.pos
           quiet == IF n > 0 THEN 0 ELSE c.quiet
           d == [c EXCEPT !.pos = pos, !.from = c.from + n, !.bucket = c.bucket - n, !.quiet = quiet,
                          !.body = body]
<1>1. /\ c \in ConRecord /\ Filled(c) /\ Placed(c) /\ c.status = "SENDING" /\ (c.file \/ c.page)
      /\ c.bucket >= 1 /\ c.ended # "complete"
  BY DEF Sending, Fits
<1>2. /\ c.body \in Seq(Nat) /\ c.first \in Nat /\ c.from \in Nat /\ c.pos \in Nat /\ c.quiet \in 0..Patience
      /\ c.bucket \in Int /\ c.speed \in Speeds
  BY <1>1 DEF ConRecord
<1>3. c.body = [i \in 1..Len(c.body) |-> c.first + i - 1] /\ c.from = c.first + Len(c.body) /\ n \in Nat
  BY <1>1 DEF Placed
<1>4. /\ body \in Seq(Nat) /\ Len(body) = Len(c.body) + n
      /\ body = [i \in 1..Len(body) |-> c.first + i - 1]
  <2> DEFINE b == c.body
             f == c.first
  <2>1. body = b \o [i \in 1..n |-> f + Len(b) + i - 1]
    BY <1>3
  <2>2. b \in Seq(Nat) /\ f \in Nat /\ n \in Nat /\ b = [i \in 1..Len(b) |-> f + i - 1]
    BY <1>2, <1>3
  <2> HIDE DEF body, b, f
  <2>3. body \in Seq(Nat) /\ Len(body) = Len(b) + n /\ body = [i \in 1..Len(body) |-> f + i - 1]
    BY ONLY <2>1, <2>2, BodyGrows
  <2> QED BY <2>3 DEF b, f
<1> HIDE DEF body
<1>5. pos \in Nat /\ quiet \in 0..Patience /\ c.from + n \in Nat /\ c.bucket - n \in Int
  <2>1. 0 \in 0..Patience
    BY HttpAssumption
  <2> QED BY <1>2, <2>1
<1> HIDE DEF pos, quiet
<1>6. d \in ConRecord
  BY <1>1, <1>4, <1>5 DEF ConRecord
<1>7. /\ d.status = "SENDING" /\ d.file = c.file /\ d.page = c.page /\ d.ended = c.ended /\ d.body = body
      /\ d.from = c.from + n /\ d.first = c.first /\ d.to = c.to /\ d.due = c.due
      /\ d.bucket = c.bucket - n /\ d.speed = c.speed
  BY <1>1 DEF ConRecord
<1>8. Sent(c, c.from, read, n) = [c |-> d, again |-> d.bucket >= 1 /\ n > 0]
  BY DEF Sent, body, pos, quiet
<1> HIDE DEF d
<1>9. Filled(d)
  <2>1. n \in 0..MaxSize
    BY HttpAssumption
  <2> QED BY <1>1, <1>2, <1>7, <2>1, BucketGood DEF Filled
<1>10. Placed(d)
  <2>1. Len(c.body) \in Nat
    BY <1>2
  <2>2. d.body = [i \in 1..Len(d.body) |-> d.first + i - 1]
    BY <1>4, <1>7, Zenon
  <2>3. d.from = d.first + Len(d.body)
    <3>1. c.from = c.first + Len(c.body) /\ Len(body) = Len(c.body) + n
      BY <1>3, <1>4, Zenon
    <3>2. d.from = c.from + n /\ d.first = c.first /\ d.body = body
      BY <1>7, Zenon
    <3> DEFINE x == Len(c.body)
               y == Len(d.body)
               f == c.first
               r == c.from
    <3>3. r = f + x /\ y = x + n /\ d.from = r + n /\ d.first = f
      BY <3>1, <3>2, Zenon
    <3>4. x \in Nat /\ n \in Int /\ f \in Int
      BY <1>2, <2>1
    <3> HIDE DEF x, y, f, r
    <3>5. d.from = d.first + y
      BY ONLY <3>3, <3>4
    <3> QED BY <3>5 DEF y
  <2>4. d.due \in {0, (d.to - d.first) % Word64}
    BY <1>1, <1>7 DEF Placed
  <2> QED BY <2>2, <2>3, <2>4 DEF Placed
<1>11. Fits(d)
  BY <1>1, <1>6, <1>7, <1>9, <1>10 DEF Fits
<1>12. (d.bucket >= 1 /\ n > 0) => Sending(d)
  BY <1>1, <1>7, <1>11 DEF Sending
<1> DEFINE again == d.bucket >= 1 /\ n > 0
           r == [c |-> d, again |-> again]
<1>13. again \in BOOLEAN /\ (again => Sending(d))
  BY <1>12
<1> HIDE DEF again
<1>14. r \in [c : ConRecord, again : BOOLEAN] /\ Fits(r.c) /\ (r.again => Sending(r.c))
  BY <1>6, <1>11, <1>13
<1> QED BY <1>8, <1>14 DEF Rounds, again

\* A turn of the loop.
LEMMA TurnGood ==
  ASSUME size \in 0..MaxSize, NEW c, Sending(c)
  PROVE  SendTurn(c) \subseteq Rounds
<1> DEFINE at == IF c.file THEN Sought(c) ELSE c
           place == IF c.file THEN at.pos ELSE c.from
           read == IF c.file THEN Smaller(Smaller(c.bucket, BUFFERSIZE), size - place) ELSE c.to - c.from
<1>1. c \in ConRecord /\ Filled(c) /\ Placed(c) /\ Fits(c) /\ c.status = "SENDING" /\ (c.file \/ c.page)
  BY DEF Sending, Fits
<1>2. at \in {c, [c EXCEPT !.pos = c.from]}
  BY DEF Sought
<1>3. Sending(at) /\ at \in ConRecord /\ at.from = c.from /\ at.status = "SENDING"
  <2>1. CASE at = c
    BY <1>1, <2>1
  <2>2. CASE at = [c EXCEPT !.pos = c.from]
    <3> HIDE DEF at
    <3>1. at \in ConRecord
      BY <1>1, <2>2 DEF ConRecord
    <3>2. /\ at.status = c.status /\ at.file = c.file /\ at.page = c.page /\ at.ended = c.ended
          /\ at.body = c.body /\ at.from = c.from /\ at.first = c.first /\ at.to = c.to /\ at.due = c.due
          /\ at.bucket = c.bucket /\ at.speed = c.speed
      BY <1>1, <2>2 DEF ConRecord
    <3>3. Filled(at) /\ Placed(at)
      BY <1>1, <3>2 DEF Filled, Placed
    <3>4. Fits(at)
      BY <1>1, <3>1, <3>2, <3>3 DEF Fits
    <3> QED BY <1>1, <3>1, <3>2, <3>4 DEF Sending
  <2> QED BY <1>2, <2>1, <2>2
<1>4. place = c.from
  <2>1. CASE c.file
    BY <1>1, <2>1 DEF Sought, ConRecord
  <2> QED BY <2>1
<1> HIDE DEF at, place
<1>5. read \in Int /\ read <= MaxSize
  <2>1. c.bucket \in Int /\ c.from \in Nat /\ c.to \in 0..MaxSize /\ BUFFERSIZE \in Nat /\ MaxSize \in Nat
    BY <1>1, HttpAssumption DEF ConRecord
  <2> QED BY <1>4, <2>1 DEF Smaller
<1> HIDE DEF read
<1>6. SendTurn(c) = IF read <= 0 THEN {[c |-> at, again |-> FALSE]}
                ELSE {Sent(at, place, read, n) : n \in 0..read}
                     \cup {[c |-> h_closeconn(at, "lost"), again |-> FALSE]}
  BY DEF SendTurn, at, place, read
<1>7. [c |-> at, again |-> FALSE] \in Rounds
  BY <1>3 DEF Rounds, Sending
<1>8. [c |-> h_closeconn(at, "lost"), again |-> FALSE] \in Rounds
  <2>1. Fits(h_closeconn(at, "lost"))
    BY <1>3, ClosedFits DEF Sending
  <2> QED BY <2>1 DEF Rounds, Fits
<1>9. ASSUME ~(read <= 0), NEW n \in 0..read PROVE Sent(at, place, read, n) \in Rounds
  <2>1. read \in Nat
    BY <1>5, <1>9
  <2>2. Sent(at, at.from, read, n) \in Rounds
    BY <1>3, <1>5, <2>1, SentGood
  <2> QED BY <1>3, <1>4, <2>2
<1> QED BY <1>6, <1>7, <1>8, <1>9

\* However many turns the loop takes.
LEMMA TurnsGood ==
  ASSUME size \in 0..MaxSize, NEW c, Sending(c)
  PROVE  Turns(c) \subseteq Rounds
<1> DEFINE n == c.bucket
           next(X) == UNION {IF r.again THEN SendTurn(r.c) ELSE {r} : r \in X}
           Is(f) == f = [k \in 0..n |-> IF k = 0 THEN {[c |-> c, again |-> TRUE]} ELSE next(f[k - 1])]
           S == SUBSET Rounds
           x == {[c |-> c, again |-> TRUE]}
           D == [k \in 1..n |-> [X \in S |-> next(X)]]
           V == CHOOSE f : Is(f)
<1>1. n \in Nat /\ n >= 1
  <2>1. c \in ConRecord /\ c.bucket >= 1
    BY DEF Sending, Fits
  <2>2. c.bucket \in Int
    BY <2>1 DEF ConRecord
  <2> QED BY <2>1, <2>2
<1>2. x \in S
  BY DEF Rounds, Sending, Fits
<1>3. \A X \in S : next(X) \in S
  <2> SUFFICES ASSUME NEW X \in S, NEW r \in X
               PROVE  (IF r.again THEN SendTurn(r.c) ELSE {r}) \subseteq Rounds
    OBVIOUS
  <2>1. r \in Rounds /\ (r.again => Sending(r.c))
    BY DEF Rounds
  <2> QED BY <2>1, TurnGood
<1>4. Turns(c) = V[n]
  BY DEF Turns
<1> HIDE DEF n, next, S, x
<1>5. D \in StepsOf(n, S) /\ \A k \in 1..n : \A X \in S : D[k][X] = next(X)
  BY <1>3 DEF StepsOf
<1> HIDE DEF D
<1>6. Made(n, S, x, D)
  BY <1>1, <1>2, <1>5, Iterated
<1>7. \E f : Is(f)
  <2>1. PICK f \in [0..n -> S] : f[0] = x /\ \A k \in 1..n : f[k] = D[k][f[k - 1]]
    BY <1>6 DEF Made
  <2>2. \A k \in 1..n : f[k] = next(f[k - 1])
    <3> SUFFICES ASSUME NEW k \in 1..n PROVE f[k] = next(f[k - 1])
      OBVIOUS
    <3>1. f[k - 1] \in S
      BY <1>1, <2>1
    <3> QED BY <1>5, <2>1, <3>1
  <2>3. \A k \in 0..n : k # 0 => k \in 1..n
    BY <1>1
  <2>4. \A k \in 0..n : f[k] = IF k = 0 THEN {[c |-> c, again |-> TRUE]} ELSE next(f[k - 1])
    BY <2>1, <2>2, <2>3 DEF x
  <2>5. Is(f)
    BY <2>4
  <2> QED BY <2>5
<1>8. Is(V)
  <2> HIDE DEF Is
  <2> QED BY <1>7
<1> HIDE DEF V
<1>9. V[0] = x /\ \A k \in 1..n : V[k] = next(V[k - 1])
  <2>1. 0 \in 0..n /\ \A k \in 1..n : k \in 0..n /\ k # 0
    BY <1>1
  <2> QED BY <1>8, <2>1 DEF x
<1>10. V[n] \in S
  <2>1. \A k \in 1..n : V[k - 1] \in S => V[k] = D[k][V[k - 1]]
    BY <1>5, <1>9
  <2>2. \A k \in 0..n : V[k] \in S
    BY <1>6, <1>9, <2>1 DEF Made
  <2> QED BY <1>1, <2>2
<1> QED BY <1>4, <1>10 DEF S

\* The length announced for what does not start behind its end is its length.
LEMMA Announced ==
  ASSUME NEW first \in Nat, NEW to \in 0..MaxSize, first <= to
  PROVE  (to - first) % Word64 = to - first
<1>1. MaxSize \in Nat /\ Word64 \in Nat /\ MaxSize < Word64
  BY HttpAssumption
<1>2. to - first \in 0..(Word64 - 1)
  BY <1>1
<1> QED BY <1>1, <1>2

\* What was to be sent has been sent, or more is to come.
LEMMA OverGood ==
  ASSUME NEW c, Fits(c)
  PROVE  /\ Fits(Over(c))
         /\ c.status = "SENDING" /\ c.to = 0 => Fits([c EXCEPT !.file = FALSE, !.page = FALSE])
<1> DEFINE d == [c EXCEPT !.file = FALSE, !.page = FALSE]
<1>1. c \in ConRecord /\ Filled(c) /\ Placed(c)
  BY DEF Fits
<1>2. /\ c.from \in Nat /\ c.first \in Nat /\ c.to \in Nat /\ c.due \in Int /\ Len(c.body) \in Nat
      /\ c.from = c.first + Len(c.body) /\ c.due \in {0, (c.to - c.first) % Word64}
  <2>1. c.from \in Nat /\ c.first \in Nat /\ c.to \in 0..MaxSize /\ c.due \in Int /\ c.body \in Seq(Nat)
    BY <1>1 DEF ConRecord
  <2>2. c.from = c.first + Len(c.body) /\ c.due \in {0, (c.to - c.first) % Word64}
    BY <1>1, Zenon DEF Placed
  <2> QED BY <2>1, <2>2
<1>3. c.status = "SENDING" /\ c.from >= c.to => Fits(d)
  <2> SUFFICES ASSUME c.status = "SENDING", c.from >= c.to PROVE Fits(d)
    OBVIOUS
  <2>1. d \in ConRecord
    BY <1>1 DEF ConRecord
  <2>2. /\ d.status = c.status /\ ~d.file /\ ~d.page /\ d.ended = c.ended
        /\ d.body = c.body /\ d.from = c.from /\ d.first = c.first /\ d.to = c.to /\ d.due = c.due
        /\ d.bucket = c.bucket /\ d.speed = c.speed
    BY <1>1 DEF ConRecord
  <2> HIDE DEF d
  <2>3. Filled(d) /\ Placed(d)
    BY <1>1, <2>2 DEF Filled, Placed
  <2>4. Enough(d)
    <3>1. c.first <= c.to => c.due <= Len(c.body)
      <4>1. CASE c.due = 0
        BY <1>2, <4>1
      <4>2. CASE c.due = (c.to - c.first) % Word64
        <5>1. c.to \in 0..MaxSize
          BY <1>1 DEF ConRecord
        <5> QED BY <1>2, <4>2, <5>1, Announced
      <4> QED BY <1>2, <4>1, <4>2
    <3> QED BY <1>2, <2>2, <3>1 DEF Enough
  <2>5. d.status \notin {"GETTING", "POST", "DONE"} /\ d.ended # "complete"
    BY <2>2 DEF Fits
  <2> QED BY <2>1, <2>3, <2>4, <2>5 DEF Fits
<1>4. c.to = 0 => c.from >= c.to
  BY <1>2
<1> QED BY <1>3, <1>4 DEF Over

\* A bucket for those without a limit.
LEMMA FullGood ==
  ASSUME NEW c, Fits(c), c.status = "SENDING"
  PROVE  LET full == [c EXCEPT !.bucket = IF c.speed = 0 THEN MAXTXPERLOOP ELSE @]
         IN Fits(full) /\ full.status = c.status /\ full.file = c.file /\ full.page = c.page /\ full.bucket \in Int
<1> DEFINE b == IF c.speed = 0 THEN MAXTXPERLOOP ELSE c.bucket
           d == [c EXCEPT !.bucket = b]
<1>1. c \in ConRecord /\ Filled(c) /\ Placed(c)
  BY DEF Fits
<1>2. b \in Int /\ b \in (-MaxSize)..MAXTXPERLOOP \cup 0..(BurstQuarters * c.speed)
  <2>1. CASE c.speed = 0
    BY <2>1, HttpAssumption
  <2>2. CASE c.speed # 0
    BY <1>1, <2>2 DEF Filled, ConRecord
  <2> QED BY <2>1, <2>2
<1> HIDE DEF b
<1>3. d \in ConRecord
  BY <1>1, <1>2 DEF ConRecord
<1>4. /\ d.status = c.status /\ d.file = c.file /\ d.page = c.page /\ d.ended = c.ended
      /\ d.body = c.body /\ d.from = c.from /\ d.first = c.first /\ d.to = c.to /\ d.due = c.due
      /\ d.bucket = b /\ d.speed = c.speed
  BY <1>1 DEF ConRecord
<1>5. [c EXCEPT !.bucket = IF c.speed = 0 THEN MAXTXPERLOOP ELSE @] = d
  BY DEF b
<1> HIDE DEF d
<1>6. Filled(d)
  BY <1>2, <1>4 DEF Filled
<1>7. Placed(d)
  BY <1>1, <1>4 DEF Placed
<1>9. Fits(d)
  BY <1>3, <1>4, <1>6, <1>7 DEF Fits, Enough
<1> QED BY <1>2, <1>4, <1>5, <1>9

\* A call of h_send.
LEMMA SendGood ==
  ASSUME size \in 0..MaxSize, NEW c, Fits(c), c.status = "SENDING", NEW d \in h_send(c)
  PROVE  Fits(d)
<1> DEFINE full == [c EXCEPT !.bucket = IF c.speed = 0 THEN MAXTXPERLOOP ELSE @]
<1>1. /\ Fits(full) /\ full.status = "SENDING" /\ full.file = c.file /\ full.page = c.page
      /\ full.bucket \in Int
  BY FullGood
<1>2. h_send(c) = CASE ~c.file /\ ~c.page -> {h_closeconn(c, "complete")}
                    [] (c.file \/ c.page) /\ c.to = 0 -> {[c EXCEPT !.file = FALSE, !.page = FALSE]}
                    [] (c.file \/ c.page) /\ c.to # 0 /\ full.bucket < 1 -> {c}
                    [] OTHER -> {Over(r.c) : r \in Turns(full)}
  BY DEF h_send
<1> HIDE DEF full
<1>3. CASE ~c.file /\ ~c.page
  <2>1. d = h_closeconn(c, "complete")
    BY <1>2, <1>3
  <2> QED BY <1>3, <2>1, ClosedFits
<1>4. CASE (c.file \/ c.page) /\ c.to = 0
  <2>1. d = [c EXCEPT !.file = FALSE, !.page = FALSE]
    BY <1>2, <1>4
  <2> QED BY <1>4, <2>1, OverGood
<1>5. CASE (c.file \/ c.page) /\ c.to # 0 /\ full.bucket < 1
  BY <1>2, <1>5
<1>6. CASE (c.file \/ c.page) /\ c.to # 0 /\ ~(full.bucket < 1)
  <2>1. PICK r \in Turns(full) : d = Over(r.c)
    BY <1>2, <1>6
  <2>2. Sending(full)
    BY <1>1, <1>6 DEF Sending
  <2>3. r \in Rounds
    BY <2>1, <2>2, TurnsGood
  <2>4. Fits(r.c)
    BY <2>3 DEF Rounds
  <2> QED BY <2>1, <2>4, OverGood
<1> QED BY <1>3, <1>4, <1>5, <1>6
-----------------------------------------------------------------------------
(* A step *)

\* A request is answered.
LEMMA ParsedGood ==
  ASSUME size \in 0..MaxSize, NEW c, Unanswered(c), NEW d \in h_parse(c)
  PROVE  Fits(d)
<1>1. CASE d = h_error(c)
  BY <1>1, ErrorGood
<1>2. ASSUME NEW n \in 1..MaxSize, NEW r \in Ranges, NEW head \in BOOLEAN, d = h_readbuffer(c, n, r, head)
      PROVE  Fits(d)
  BY <1>2, ReadGood
<1>3. ASSUME NEW v \in Speeds, NEW r \in Ranges, NEW head \in BOOLEAN,
             d = h_readfile([c EXCEPT !.speed = v], r, head)
      PROVE  Fits(d)
  <2> DEFINE e == [c EXCEPT !.speed = v]
  <2>1. c \in ConRecord
    BY DEF Unanswered
  <2>2. e \in ConRecord
    BY <2>1 DEF ConRecord
  <2>3. /\ e.body = c.body /\ e.file = c.file /\ e.page = c.page /\ e.from = c.from /\ e.to = c.to
        /\ e.first = c.first /\ e.due = c.due /\ e.ended = c.ended /\ e.bucket = c.bucket
    BY <2>1 DEF ConRecord
  <2> HIDE DEF e
  <2>4. Unanswered(e)
    BY <2>2, <2>3 DEF Unanswered
  <2> QED BY <1>3, <2>4, ReadGood DEF e
<1>4. \/ d = h_error(c)
      \/ \E n \in 1..MaxSize, r \in Ranges, head \in BOOLEAN : d = h_readbuffer(c, n, r, head)
      \/ \E v \in Speeds, r \in Ranges, head \in BOOLEAN : d = h_readfile([c EXCEPT !.speed = v], r, head)
  <2> DEFINE P == {h_readbuffer(c, n, r, head) : n \in 1..MaxSize, r \in Ranges, head \in BOOLEAN}
             F == {h_readfile([c EXCEPT !.speed = v], r, head) : v \in Speeds, r \in Ranges, head \in BOOLEAN}
  <2>1. h_parse(c) = {h_error(c)} \cup P \cup F
    BY DEF h_parse
  <2>2. d \in P => \E n \in 1..MaxSize, r \in Ranges, head \in BOOLEAN : d = h_readbuffer(c, n, r, head)
    OBVIOUS
  <2>3. d \in F => \E v \in Speeds, r \in Ranges, head \in BOOLEAN : d = h_readfile([c EXCEPT !.speed = v], r, head)
    OBVIOUS
  <2> HIDE DEF P, F
  <2> QED BY <2>1, <2>2, <2>3
<1> QED BY <1>1, <1>2, <1>3, <1>4

\* The first record of a connection.
LEMMA GoneGood ==
  /\ Unanswered(Gone) /\ Fits(Gone)
         /\ Fits([Gone EXCEPT !.ended = "lost"]) /\ Fits([Gone EXCEPT !.status = "GETTING"])
<1>1. 0 \in 0..MaxSize /\ 0 \in 0..Patience /\ 0 \in Speeds /\ 0 \in (-MaxSize)..MAXTXPERLOOP
  BY HttpAssumption
<1>2. <<>> \in Seq(Nat) /\ Len(<<>>) = 0 /\ \A k \in Nat : <<>> = [i \in 1..0 |-> k + i - 1]
  OBVIOUS
<1>3. Gone \in ConRecord
  BY <1>1 DEF Gone, ConRecord
<1>4. Filled(Gone) /\ Placed(Gone)
  BY <1>1, <1>2 DEF Gone, Filled, Placed
<1>5. Unanswered(Gone)
  BY <1>3, <1>4 DEF Gone, Unanswered
<1>6. Fits(Gone)
  BY <1>3, <1>4 DEF Gone, Fits
<1>7. Fits([Gone EXCEPT !.ended = "lost"])
  <2> DEFINE d == [Gone EXCEPT !.ended = "lost"]
  <2>1. d \in ConRecord
    BY <1>3 DEF ConRecord
  <2>2. /\ d.status = "DONE" /\ d.file = Gone.file /\ d.page = Gone.page /\ d.ended = "lost"
        /\ d.body = Gone.body /\ d.from = Gone.from /\ d.first = Gone.first /\ d.to = Gone.to
        /\ d.due = Gone.due /\ d.bucket = Gone.bucket /\ d.speed = Gone.speed
    BY DEF Gone
  <2>3. ~Gone.file /\ ~Gone.page
    BY <1>5 DEF Unanswered
  <2> HIDE DEF d
  <2>4. Filled(d)
    BY <1>4, <2>2 DEF Filled
  <2>5. Placed(d)
    BY <1>4, <2>2 DEF Placed
  <2>6. Fits(d)
    BY <2>1, <2>2, <2>3, <2>4, <2>5 DEF Fits
  <2> QED BY <2>6 DEF d
<1>8. Fits([Gone EXCEPT !.status = "GETTING"])
  <2> DEFINE d == [Gone EXCEPT !.status = "GETTING"]
  <2>1. d \in ConRecord
    BY <1>3 DEF ConRecord
  <2>2. /\ d.status = "GETTING" /\ d.file = Gone.file /\ d.page = Gone.page /\ d.ended = Gone.ended
        /\ d.body = Gone.body /\ d.from = Gone.from /\ d.first = Gone.first /\ d.to = Gone.to
        /\ d.due = Gone.due /\ d.bucket = Gone.bucket /\ d.speed = Gone.speed
    BY DEF Gone
  <2> HIDE DEF d
  <2>3. Filled(d)
    BY <1>4, <2>2 DEF Filled
  <2>4. Placed(d)
    BY <1>4, <2>2 DEF Placed
  <2>5. Unanswered(d)
    BY <1>5, <2>1, <2>2, <2>3 DEF Unanswered
  <2>6. d.ended # "complete"
    BY <1>5, <2>2 DEF Unanswered
  <2>7. Fits(d)
    BY <2>1, <2>2, <2>3, <2>4, <2>5, <2>6 DEF Fits, Gone
  <2> QED BY <2>7 DEF d
<1> QED BY <1>5, <1>6, <1>7, <1>8

\* The clock of a connection.
LEMMA QuietGood ==
  ASSUME NEW c, Fits(c), NEW q \in 0..Patience
  PROVE  /\ Fits([c EXCEPT !.quiet = q])
         /\ c.status = "GETTING" => Fits([c EXCEPT !.quiet = q, !.status = "POST"])
         /\ c.status \in {"GETTING", "POST"} => Unanswered([c EXCEPT !.quiet = q])
<1> DEFINE d == [c EXCEPT !.quiet = q]
           e == [c EXCEPT !.quiet = q, !.status = "POST"]
<1>1. c \in ConRecord /\ Filled(c) /\ Placed(c)
  BY DEF Fits
<1>2. d \in ConRecord /\ e \in ConRecord
  BY <1>1 DEF ConRecord
<1>3. /\ d.status = c.status /\ d.file = c.file /\ d.page = c.page /\ d.ended = c.ended
      /\ d.body = c.body /\ d.from = c.from /\ d.first = c.first /\ d.to = c.to /\ d.due = c.due
      /\ d.bucket = c.bucket /\ d.speed = c.speed
  BY <1>1 DEF ConRecord
<1>4. /\ e.status = "POST" /\ e.file = c.file /\ e.page = c.page /\ e.ended = c.ended
      /\ e.body = c.body /\ e.from = c.from /\ e.first = c.first /\ e.to = c.to /\ e.due = c.due
      /\ e.bucket = c.bucket /\ e.speed = c.speed
  BY <1>1 DEF ConRecord
<1> HIDE DEF d, e
<1>5. Filled(d) /\ Filled(e)
  BY <1>1, <1>3, <1>4 DEF Filled
<1>6. Placed(d) /\ Placed(e)
  BY <1>1, <1>3, <1>4 DEF Placed
<1>7. c.status \in {"GETTING", "POST"} => Unanswered(d) /\ Unanswered(e)
  BY <1>2, <1>3, <1>4, <1>5 DEF Fits, Unanswered
<1>8. Fits(d)
  BY <1>2, <1>3, <1>5, <1>6, <1>7 DEF Fits, Enough
<1>9. c.status = "GETTING" => Fits(e)
  BY <1>2, <1>4, <1>5, <1>6, <1>7 DEF Fits, Unanswered
<1> QED BY <1>7, <1>8, <1>9 DEF d, e

\* A quarter of a second fills the bucket of an answer that is being sent.
LEMMA QuarterGood ==
  ASSUME NEW c, Fits(c), c.status # "DONE", c.speed > 0
  PROVE  Fits([c EXCEPT !.bucket = Smaller(@ + c.speed, BurstQuarters * c.speed)])
<1> DEFINE most == BurstQuarters * c.speed
           b == Smaller(c.bucket + c.speed, most)
           d == [c EXCEPT !.bucket = b]
<1>1. c \in ConRecord /\ Filled(c) /\ Placed(c)
  BY DEF Fits
<1>2. c.speed \in Nat /\ c.bucket \in Int /\ MaxSize \in Nat /\ BurstQuarters \in Nat /\ MAXTXPERLOOP \in Nat
  BY <1>1, HttpAssumption DEF ConRecord
<1>3. most \in Nat /\ c.bucket \in (-MaxSize)..MAXTXPERLOOP \cup 0..most
  BY <1>1, <1>2 DEF Filled
<1> HIDE DEF most
<1>4. b \in Int /\ b \in (-MaxSize)..MAXTXPERLOOP \cup 0..most
  BY <1>2, <1>3 DEF Smaller
<1> HIDE DEF b
<1>5. d \in ConRecord
  BY <1>1, <1>4 DEF ConRecord
<1>6. /\ d.status = c.status /\ d.file = c.file /\ d.page = c.page /\ d.ended = c.ended
      /\ d.body = c.body /\ d.from = c.from /\ d.first = c.first /\ d.to = c.to /\ d.due = c.due
      /\ d.bucket = b /\ d.speed = c.speed
  BY <1>1 DEF ConRecord
<1> HIDE DEF d
<1>7. Filled(d)
  BY <1>4, <1>6 DEF Filled, most
<1>8. Placed(d)
  BY <1>1, <1>6 DEF Placed
<1>9. c.status \notin {"GETTING", "POST"}
  BY <1>2 DEF Fits
<1>10. Fits(d)
  BY <1>5, <1>6, <1>7, <1>8, <1>9 DEF Fits, Enough
<1> QED BY <1>10 DEF d, b, most

\* Every step keeps the answer in order.
LEMMA HttpStep == HttpInv /\ [HttpNext]_httpVars => HttpInv'
<1> SUFFICES ASSUME HttpInv, [HttpNext]_httpVars PROVE HttpInv'
  OBVIOUS
<1>1. Fits(con) /\ size \in 0..MaxSize /\ 0 \in 0..Patience
  BY HttpAssumption DEF HttpInv
<1>2. ASSUME UNCHANGED size, Fits(con') PROVE HttpInv'
  BY <1>1, <1>2 DEF HttpInv
<1>3. CASE h_accept
  <2>1. /\ UNCHANGED size
        /\ con' \in {[Gone EXCEPT !.ended = "lost"], [Gone EXCEPT !.status = "GETTING"],
                     h_error(Gone), h_readfile(Gone, <<>>, FALSE)}
    BY <1>3 DEF h_accept, Becomes
  <2>2. Fits(h_error(Gone))
    BY GoneGood, ErrorGood
  <2>3. Fits(h_readfile(Gone, <<>>, FALSE))
    BY <1>1, GoneGood, ReadGood DEF Ranges
  <2> QED BY <1>2, <2>1, <2>2, <2>3, GoneGood
<1>4. CASE h_get
  <2> DEFINE c == [con EXCEPT !.quiet = 0]
  <2>1. /\ con.status = "GETTING" /\ UNCHANGED size
        /\ con' \in {h_closeconn(c, "lost"), [c EXCEPT !.status = "POST"]} \cup h_parse(c)
    BY <1>4 DEF h_get, Becomes
  <2>2. [c EXCEPT !.status = "POST"] = [con EXCEPT !.quiet = 0, !.status = "POST"]
    OBVIOUS
  <2>3. Fits(c) /\ Unanswered(c) /\ Fits([c EXCEPT !.status = "POST"])
    BY <1>1, <2>1, <2>2, QuietGood
  <2> HIDE DEF c
  <2>4. Fits(h_closeconn(c, "lost"))
    BY <2>3, ClosedFits
  <2>5. con' \in h_parse(c) => Fits(con')
    BY <1>1, <2>3, ParsedGood
  <2> QED BY <1>2, <2>1, <2>3, <2>4, <2>5
<1>5. CASE h_post
  <2> DEFINE c == [con EXCEPT !.quiet = 0]
  <2>1. con.status = "POST" /\ UNCHANGED size /\ con' \in {h_closeconn(c, "lost")} \cup h_parse(c)
    BY <1>5 DEF h_post, Becomes
  <2>2. Fits(c) /\ Unanswered(c)
    BY <1>1, <2>1, QuietGood
  <2> HIDE DEF c
  <2>3. Fits(h_closeconn(c, "lost"))
    BY <2>2, ClosedFits
  <2>4. con' \in h_parse(c) => Fits(con')
    BY <1>1, <2>2, ParsedGood
  <2> QED BY <1>2, <2>1, <2>3, <2>4
<1>6. CASE Writable
  <2>1. con.status = "SENDING" /\ UNCHANGED size /\ con' \in h_send(con)
    BY <1>6 DEF Writable, Becomes
  <2> QED BY <1>1, <1>2, <2>1, SendGood
<1>7. CASE Quarter
  <2>1. /\ con.status # "DONE" /\ con.speed > 0 /\ UNCHANGED size
        /\ con' = [con EXCEPT !.bucket = Smaller(@ + con.speed, BurstQuarters * con.speed)]
    BY <1>7 DEF Quarter, Becomes
  <2> QED BY <1>1, <1>2, <2>1, QuarterGood
<1>8. CASE h_istimeout
  <2>1. /\ UNCHANGED size
        /\ con' = IF con.quiet = Patience THEN h_closeconn(con, "timeout")
                  ELSE [con EXCEPT !.quiet = con.quiet + 1]
    BY <1>8 DEF h_istimeout, Becomes
  <2>2. CASE con.quiet = Patience
    BY <1>1, <1>2, <2>1, <2>2, ClosedFits
  <2>3. CASE con.quiet # Patience
    <3>1. con.quiet \in 0..Patience /\ Patience \in Nat
      BY <1>1, HttpAssumption DEF Fits, ConRecord
    <3>2. con.quiet + 1 \in 0..Patience
      BY <2>3, <3>1
    <3> QED BY <1>1, <1>2, <2>1, <2>3, <3>2, QuietGood
  <2> QED BY <2>2, <2>3
<1>9. CASE Resized
  BY <1>1, <1>9 DEF Resized, HttpInv
<1>10. CASE UNCHANGED httpVars
  BY <1>1, <1>2, <1>10 DEF httpVars
<1> QED BY <1>3, <1>4, <1>5, <1>6, <1>7, <1>8, <1>9, <1>10 DEF HttpNext

\* An answer's record is always in order.
THEOREM HttpInvariant == HttpSpec => []HttpInv
<1>1. HttpInit => HttpInv
  BY GoneGood DEF HttpInit, HttpInv
<1>2. HttpInv /\ [HttpNext]_httpVars => HttpInv'
  BY HttpStep
<1> QED BY <1>1, <1>2, PTL DEF HttpSpec

\* HttpWhole for every instance: the bytes from where the client asked, in order and
\* each once, as many as were announced if the answer ends as complete and does not
\* start behind its end, and nothing stays open.
THEOREM HttpWholeHolds == HttpSpec => []HttpWhole
<1>1. HttpInv => HttpWhole
  <2> SUFFICES ASSUME HttpInv PROVE HttpWhole
    OBVIOUS
  <2>1. Fits(con) /\ Placed(con)
    BY DEF HttpInv, Fits
  <2>2. con.body = [i \in 1..Len(con.body) |-> con.first + i - 1]
    BY <2>1, Zenon DEF Placed
  <2>3. con.ended = "complete" /\ con.first <= con.to => Len(con.body) >= con.due
    BY <2>1 DEF Fits, Enough
  <2>4. con.status = "DONE" => ~con.file /\ ~con.page
    BY <2>1 DEF Fits
  <2> QED BY <2>2, <2>3, <2>4 DEF HttpWhole
<1> QED BY <1>1, HttpInvariant, PTL

\* The types of the connection hold as well.
THEOREM HttpTypes == HttpSpec => []HttpTypeOK
<1>1. HttpInv => HttpTypeOK
  <2> SUFFICES ASSUME HttpInv PROVE HttpTypeOK
    OBVIOUS
  <2>1. con \in ConRecord /\ Filled(con) /\ size \in 0..MaxSize
    BY DEF HttpInv, Fits
  <2>2. /\ con.status \in {"GETTING", "POST", "SENDING", "DONE"} /\ {con.file, con.page} \subseteq BOOLEAN
        /\ con.quiet \in 0..Patience /\ con.to \in 0..MaxSize /\ con.from \in Nat /\ con.speed \in Speeds
    BY <2>1 DEF ConRecord
  <2> QED BY <2>1, <2>2 DEF HttpTypeOK, Filled
<1> QED BY <1>1, HttpInvariant, PTL
-----------------------------------------------------------------------------
(***************************************************************************)
(* Accounted for any number of nicks and files, any max_uploads and lists  *)
(* of any length.                                                          *)
(*                                                                         *)
(* GetsEnd alone is not inductive: the end of an upload closes the first   *)
(* GET of its nick, whatever that GET has come to.  It is the right one    *)
(* because the GETs that run stand before the one that is tried and that   *)
(* before those that wait (Ordered).                                       *)
(***************************************************************************)

Waits == [nick : Nick, state : {"WAITING", "TRYING", "RUNNING"}]
States == [uploads : Seq(Upload), gets : Seq(Waits), fetches : Seq(Name), later : Seq(Name),
           files : [Name -> {"none", "part", "full"}]]
Of(n) == {u \in Upload : u.nick = n}
Runs(n) == {[nick |-> n, state |-> "RUNNING"]}

Limited(s) == max_uploads # 0 => Len(s.uploads) + Len(s.fetches) <= max_uploads
Free(s) == max_uploads # 0 => Len(s.uploads) + Len(s.fetches) < max_uploads
Matched(s) == \A n \in Nick : Count(s.gets, Runs(n)) <= Count(s.uploads, Of(n))
\* The same but for one upload of n that has just gone.
AlmostMatched(s, n) ==
  \A m \in Nick : Count(s.gets, Runs(m)) <= Count(s.uploads, Of(m)) + (IF m = n THEN 1 ELSE 0)
Ordered(q) == \A j, k \in DOMAIN q : j < k /\ q[j].state # "RUNNING" => q[k].state = "WAITING"
Good(s) == s \in States /\ Limited(s) /\ Matched(s) /\ Ordered(s.gets)

IncomingInv == IncomingTypeOK /\ Accounted /\ Ordered(gets)
-----------------------------------------------------------------------------
(* Lists *)

\* Lists that agree place by place on who belongs to S count the same.
LEMMA CountAlike ==
  ASSUME NEW T, NEW q \in Seq(T), NEW r \in Seq(T), Len(q) = Len(r), NEW S,
         \A i \in DOMAIN q : q[i] \in S <=> r[i] \in S
  PROVE  Count(q, S) = Count(r, S)
<1>1. DOMAIN q = DOMAIN r
  OBVIOUS
<1>2. {i \in DOMAIN q : q[i] \in S} = {i \in DOMAIN r : r[i] \in S}
  BY <1>1
<1> QED BY <1>2 DEF Count

\* What is left after one entry is deleted stays in order.
LEMMA DropOrdered ==
  ASSUME NEW q \in Seq(Waits), NEW i \in DOMAIN q, Ordered(q)
  PROVE  Ordered(Drop(q, i))
<1> DEFINE K == DOMAIN q \ {i}
           r == Drop(q, i)
<1>1. DOMAIN q = 1..Len(q) /\ Len(q) \in Nat
  OBVIOUS
<1>2. IsFiniteSet(K) /\ Cardinality(K) \in Nat
  <2>1. K \in SUBSET (1..Len(q)) /\ IsFiniteSet(1..Len(q))
    BY <1>1, IntervalSize
  <2> QED BY <2>1, FS_Subset, FS_CardinalityType
<1>3. DOMAIN r = 1..Cardinality(K) /\ \A j \in 1..Cardinality(K) : r[j] = q[Nth(K, j)]
  BY <1>2 DEF Drop, Keep
<1>4. \A j \in 1..Cardinality(K) : Nth(K, j) \in K /\ Cardinality(K \cap (1..Nth(K, j))) = j
  BY <1>1, NthExists
<1>5. ASSUME NEW j \in 1..Cardinality(K), NEW k \in 1..Cardinality(K), j < k
      PROVE  Nth(K, j) < Nth(K, k)
  <2> DEFINE a == Nth(K, j)
             b == Nth(K, k)
  <2>1. a \in 1..Len(q) /\ b \in 1..Len(q)
    BY <1>1, <1>4
  <2>2. /\ Cardinality(K \cap (1..a)) = j
        /\ Cardinality(K \cap (1..b)) = k
    BY <1>4
  <2> HIDE DEF a, b, K
  <2>3. ASSUME b <= a PROVE FALSE
    <3>1. K \cap (1..b) \in SUBSET (K \cap (1..a))
      BY <2>1, <2>3
    <3>2. IsFiniteSet(K \cap (1..a))
      BY <1>2, FS_Subset
    <3>3. k <= j
      BY <2>2, <3>1, <3>2, FS_Subset
    <3> QED BY <1>5, <3>3
  <2>4. a < b
    BY <2>1, <2>3
  <2> QED BY <2>4 DEF a, b
<1> HIDE DEF K, r
<1>6. ASSUME NEW j \in DOMAIN r, NEW k \in DOMAIN r, j < k, r[j].state # "RUNNING"
      PROVE  r[k].state = "WAITING"
  <2> DEFINE a == Nth(K, j)
             b == Nth(K, k)
  <2>1. a \in DOMAIN q /\ b \in DOMAIN q
    BY <1>3, <1>4 DEF K
  <2>2. a < b
    BY <1>3, <1>5, <1>6
  <2>3. r[j] = q[a] /\ r[k] = q[b]
    BY <1>3
  <2> HIDE DEF a, b
  <2> QED BY <1>6, <2>1, <2>2, <2>3 DEF Ordered
<1> QED BY <1>6 DEF Ordered, r
-----------------------------------------------------------------------------
(* What the helpers do to a state *)

\* The number of GETs in a state is a number.
LEMMA InStateSize ==
  ASSUME NEW s \in States, NEW q
  PROVE  Cardinality(InState(s, q)) \in Nat
<1>1. DOMAIN s.gets = 1..Len(s.gets) /\ Len(s.gets) \in Nat
  BY DEF States
<1>2. InState(s, q) \in SUBSET (1..Len(s.gets)) /\ IsFiniteSet(1..Len(s.gets))
  BY <1>1, IntervalSize DEF InState
<1> QED BY <1>2, FS_Subset, FS_CardinalityType

\* Below the limit there is room for one more.
LEMMA Room ==
  ASSUME NEW s \in States, ~max_uploads_reached(s)
  PROVE  Free(s)
<1>1. Cardinality(InState(s, "RUNNING")) \in Nat
  BY InStateSize
<1>2. Len(s.uploads) \in Nat /\ Len(s.fetches) \in Nat
  BY DEF States
<1> DEFINE c == Cardinality(InState(s, "RUNNING"))
           u == Len(s.uploads)
           f == Len(s.fetches)
<1>3. max_uploads # 0 => ~(u + c + f >= max_uploads)
  BY DEF max_uploads_reached
<1>4. c \in Nat /\ u \in Nat /\ f \in Nat
  BY <1>1, <1>2
<1> HIDE DEF c, u, f
<1>5. max_uploads # 0 => u + f < max_uploads
  BY <1>3, <1>4, IncomingAssumption
<1> QED BY <1>5 DEF Free, u, f

\* A GET that gets on keeps its nick, and the others are as they were.
LEMMA SetState ==
  ASSUME NEW q \in Seq(Waits), NEW i \in DOMAIN q, NEW x \in {"WAITING", "TRYING", "RUNNING"}
  PROVE  LET r == [q EXCEPT ![i].state = x]
         IN /\ r \in Seq(Waits) /\ Len(r) = Len(q) /\ DOMAIN r = DOMAIN q
            /\ \A j \in DOMAIN q : j # i => r[j] = q[j]
            /\ r[i].state = x /\ r[i].nick = q[i].nick
<1> DEFINE y == [q[i] EXCEPT !.state = x]
           r == [q EXCEPT ![i] = y]
<1>1. q[i] \in Waits
  OBVIOUS
<1>2. y \in Waits /\ y.state = x /\ y.nick = q[i].nick
  BY <1>1 DEF Waits
<1> HIDE DEF y
<1>3. /\ r \in Seq(Waits) /\ Len(r) = Len(q) /\ DOMAIN r = DOMAIN q
      /\ \A j \in DOMAIN q : j # i => r[j] = q[j]
      /\ r[i] = y
  BY <1>2
<1>4. r = [q EXCEPT ![i].state = x]
  BY DEF y
<1> QED BY <1>2, <1>3, <1>4

\* Starting a fetch leaves all but the fetches and a file alone.
LEMMA FetchNowGood ==
  ASSUME NEW s, Good(s), Free(s), NEW f \in Name, NEW t \in FetchNow(s, f)
  PROVE  Good(t) /\ t.uploads = s.uploads
<1> DEFINE opened == [s EXCEPT !.files[f] = IF @ = "none" THEN "part" ELSE @]
           begun == [opened EXCEPT !.fetches = Append(@, f)]
<1>1. s \in States
  BY DEF Good
<1>2. /\ opened \in States /\ opened.uploads = s.uploads /\ opened.gets = s.gets
      /\ opened.fetches = s.fetches
  BY <1>1 DEF States
<1>3. /\ begun \in States /\ begun.uploads = s.uploads /\ begun.gets = s.gets
      /\ Len(begun.fetches) = Len(s.fetches) + 1
  <2> HIDE DEF opened
  <2>1. opened.fetches \in Seq(Name)
    BY <1>2 DEF States
  <2>2. Append(opened.fetches, f) \in Seq(Name) /\ Len(Append(opened.fetches, f)) = Len(s.fetches) + 1
    BY <1>2, <2>1
  <2> QED BY <1>2, <2>2 DEF States
<1>4. t \in {s, opened, begun}
  BY DEF FetchNow
<1> HIDE DEF opened, begun
<1>5. Good(opened)
  BY <1>2 DEF Good, Limited, Matched
<1>6. Good(begun)
  <2>1. Len(s.uploads) \in Nat /\ Len(s.fetches) \in Nat
    BY <1>1 DEF States
  <2> DEFINE u == Len(s.uploads)
             n == Len(s.fetches)
  <2>2. u \in Nat /\ n \in Nat /\ (max_uploads # 0 => u + n < max_uploads)
    BY <2>1 DEF Free
  <2>3. Len(begun.uploads) = u /\ Len(begun.fetches) = n + 1
    BY <1>3
  <2> HIDE DEF u, n
  <2>4. max_uploads # 0 => u + (n + 1) <= max_uploads
    BY <2>2, IncomingAssumption
  <2>5. Limited(begun)
    BY <2>3, <2>4 DEF Limited
  <2> QED BY <1>3, <2>5 DEF Good, Matched
<1> QED BY <1>2, <1>3, <1>4, <1>5, <1>6

\* Nobody runs behind the one that is tried next.
LEMMA NextTried ==
  ASSUME NEW s, Good(s), InState(s, "WAITING") # {},
         ~\E k \in InState(s, "TRYING") : k < First(InState(s, "WAITING"))
  PROVE  LET t == [s EXCEPT !.gets[First(InState(s, "WAITING"))].state = "TRYING"]
         IN Good(t) /\ t.uploads = s.uploads
<1> DEFINE next == First(InState(s, "WAITING"))
           t == [s EXCEPT !.gets[next].state = "TRYING"]
<1>1. s \in States /\ s.gets \in Seq(Waits) /\ DOMAIN s.gets = 1..Len(s.gets) /\ Len(s.gets) \in Nat
  BY DEF Good, States
<1>2. /\ next \in DOMAIN s.gets /\ s.gets[next].state = "WAITING"
      /\ \A j \in DOMAIN s.gets : s.gets[j].state = "WAITING" => next <= j
  <2>1. InState(s, "WAITING") \subseteq Nat
    BY <1>1 DEF InState
  <2> QED BY <2>1, FirstType DEF InState
<1>3. ~\E k \in DOMAIN s.gets : s.gets[k].state = "TRYING" /\ k < next
  BY DEF InState
<1> HIDE DEF next
<1>4. /\ t \in States /\ t.uploads = s.uploads /\ t.fetches = s.fetches
      /\ t.gets = [s.gets EXCEPT ![next].state = "TRYING"]
  <2>1. [s.gets EXCEPT ![next].state = "TRYING"] \in Seq(Waits)
    BY <1>1, <1>2, SetState
  <2>2. t = [s EXCEPT !.gets = [s.gets EXCEPT ![next].state = "TRYING"]]
    BY <1>1 DEF States
  <2> QED BY <1>1, <2>1, <2>2 DEF States
<1> DEFINE r == t.gets
<1>5. /\ r \in Seq(Waits) /\ DOMAIN r = DOMAIN s.gets /\ Len(r) = Len(s.gets)
      /\ \A i \in DOMAIN r : i # next => r[i] = s.gets[i]
      /\ r[next].state = "TRYING" /\ r[next].nick = s.gets[next].nick
  <2> DEFINE w == [s.gets EXCEPT ![next].state = "TRYING"]
  <2>1. /\ w \in Seq(Waits) /\ Len(w) = Len(s.gets) /\ DOMAIN w = DOMAIN s.gets
        /\ \A j \in DOMAIN s.gets : j # next => w[j] = s.gets[j]
        /\ w[next].state = "TRYING" /\ w[next].nick = s.gets[next].nick
    BY <1>1, <1>2, SetState
  <2>2. r = w
    BY <1>4
  <2> HIDE DEF w
  <2> QED BY <2>1, <2>2
<1> HIDE DEF r, t
<1>6. Ordered(r)
  <2> SUFFICES ASSUME NEW j \in DOMAIN r, NEW k \in DOMAIN r, j < k, r[j].state # "RUNNING"
               PROVE  r[k].state = "WAITING"
    BY DEF Ordered
  <2>1. ASSUME NEW i \in DOMAIN r PROVE s.gets[i].state \in {"WAITING", "TRYING", "RUNNING"}
    <3>1. s.gets[i] \in Waits
      BY <1>1, <1>5
    <3> QED BY <3>1 DEF Waits
  <2>2. \A a, b \in DOMAIN s.gets : a < b /\ s.gets[a].state # "RUNNING" => s.gets[b].state = "WAITING"
    BY DEF Good, Ordered
  <2>3. CASE j = next
    BY <1>1, <1>2, <1>5, <2>2, <2>3
  <2>4. CASE j # next
    <3>1. s.gets[j].state # "RUNNING" /\ s.gets[k].state = "WAITING"
      BY <1>5, <2>2, <2>4
    <3>2. next <= j
      BY <1>2, <1>3, <1>5, <2>1, <2>2, <3>1, <1>1
    <3> QED BY <1>1, <1>2, <1>5, <3>1, <3>2
  <2> QED BY <2>3, <2>4
<1>7. Matched(t)
  <2> SUFFICES ASSUME NEW n \in Nick PROVE Count(r, Runs(n)) <= Count(t.uploads, Of(n))
    BY DEF Matched, r
  <2>1. \A i \in DOMAIN r : r[i] \in Runs(n) <=> s.gets[i] \in Runs(n)
    BY <1>2, <1>5 DEF Runs
  <2>2. Count(r, Runs(n)) = Count(s.gets, Runs(n))
    BY <1>1, <1>5, <2>1, CountAlike
  <2> QED BY <1>4, <2>2 DEF Good, Matched
<1>8. Limited(t)
  BY <1>4 DEF Good, Limited
<1> QED BY <1>4, <1>6, <1>7, <1>8 DEF Good, r, t, next

\* Offering a free place keeps the lists in order and starts no upload.
LEMMA StartGood ==
  ASSUME NEW s, Good(s), NEW t \in start_qupload(s)
  PROVE  Good(t) /\ t.uploads = s.uploads
<1> DEFINE waits == InState(s, "WAITING")
           tries == waits # {} /\ ~\E k \in InState(s, "TRYING") : k < First(waits)
<1>1. CASE max_uploads_reached(s)
  BY <1>1 DEF start_qupload
<1>2. CASE ~max_uploads_reached(s) /\ tries
  <2>1. t = [s EXCEPT !.gets[First(waits)].state = "TRYING"]
    BY <1>2 DEF start_qupload
  <2> QED BY <1>2, <2>1, NextTried
<1>3. CASE ~max_uploads_reached(s) /\ ~tries /\ s.later = <<>>
  BY <1>3 DEF start_qupload
<1>4. CASE ~max_uploads_reached(s) /\ ~tries /\ s.later # <<>>
  <2> DEFINE rest == [s EXCEPT !.later = Tail(@)]
  <2>1. t \in FetchNow(rest, Head(s.later))
    BY <1>4 DEF start_qupload
  <2>2. s \in States /\ s.later \in Seq(Name)
    BY DEF Good, States
  <2>3. Head(s.later) \in Name /\ Tail(s.later) \in Seq(Name)
    BY <1>4, <2>2
  <2>4. /\ rest \in States /\ rest.uploads = s.uploads /\ rest.gets = s.gets
        /\ rest.fetches = s.fetches
    BY <2>2, <2>3 DEF States
  <2> HIDE DEF rest
  <2>5. Good(rest) /\ Free(rest)
    BY <1>4, <2>2, <2>4, Room DEF Good, Limited, Matched, Free
  <2> QED BY <2>1, <2>3, <2>4, <2>5, FetchNowGood
<1> QED BY <1>1, <1>2, <1>3, <1>4

\* The end of an upload of n, and that of the first GET of n with it, keep the balance: if
\* a GET of n runs, the first one does.
LEMMA CloseGood ==
  ASSUME NEW s \in States, Limited(s), Ordered(s.gets),
         NEW n \in Nick, AlmostMatched(s, n), NEW t \in close_qupload(s, n)
  PROVE  Good(t) /\ t.uploads = s.uploads
<1> DEFINE mine == {k \in DOMAIN s.gets : s.gets[k].nick = n}
           first == First(mine)
<1>1. s.gets \in Seq(Waits) /\ DOMAIN s.gets = 1..Len(s.gets) /\ Len(s.gets) \in Nat
  BY DEF States
<1>2. s.uploads \in Seq(Upload)
  BY DEF States
<1>3. ASSUME NEW m \in Nick
      PROVE  Count(s.uploads, Of(m)) \in Nat /\ Count(s.gets, Runs(m)) \in Nat
  BY <1>1, <1>2, CountType
<1>4. CASE mine = {}
  <2>1. t = s
    BY <1>4 DEF close_qupload
  <2>2. \A i \in DOMAIN s.gets : s.gets[i] \notin Runs(n)
    BY <1>4 DEF Runs
  <2>3. Count(s.gets, Runs(n)) = 0
    BY <2>2, CountNone
  <2>4. Matched(s)
    BY <1>3, <2>3 DEF AlmostMatched, Matched
  <2> QED BY <2>1, <2>4 DEF Good
<1>5. CASE mine # {}
  <2> DEFINE r == Drop(s.gets, first)
             rest == [s EXCEPT !.gets = r]
  <2>1. t \in start_qupload(rest)
    BY <1>5 DEF close_qupload
  <2>2. first \in mine /\ \A k \in mine : first <= k
    <3>1. mine \subseteq Nat
      BY <1>1
    <3> QED BY <1>5, <3>1, FirstType
  <2> HIDE DEF first
  <2>3. first \in DOMAIN s.gets /\ s.gets[first].nick = n /\ s.gets[first] \in Waits
    <3>1. first \in DOMAIN s.gets /\ s.gets[first].nick = n
      BY <2>2
    <3> QED BY <1>1, <3>1
  <2>4. \A k \in DOMAIN s.gets : s.gets[k].nick = n => first <= k
    BY <2>2
  <2>5. r \in Seq(Waits) /\ Ordered(r)
    BY <1>1, <2>3, DropType, DropOrdered
  <2>6. ASSUME NEW m \in Nick PROVE Count(r, Runs(m)) <= Count(s.uploads, Of(m))
    <3>1. Count(r, Runs(m)) = Count(s.gets, Runs(m)) - (IF s.gets[first] \in Runs(m) THEN 1 ELSE 0)
      BY <1>1, <2>3, CountDropped
    <3>2. Count(s.gets, Runs(m)) <= Count(s.uploads, Of(m)) + (IF m = n THEN 1 ELSE 0)
      BY DEF AlmostMatched
    <3>3. CASE m # n
      <4>1. s.gets[first] \notin Runs(m)
        BY <2>3, <3>3 DEF Runs
      <4> QED BY <1>3, <3>1, <3>2, <3>3, <4>1
    <3>4. CASE m = n /\ s.gets[first].state = "RUNNING"
      <4>1. s.gets[first] \in Runs(m)
        BY <2>3, <3>4 DEF Runs, Waits
      <4> QED BY <1>3, <3>1, <3>2, <3>4, <4>1
    <3>5. CASE m = n /\ s.gets[first].state # "RUNNING"
      <4>1. ASSUME NEW k \in DOMAIN s.gets, s.gets[k] \in Runs(n) PROVE FALSE
        <5>1. s.gets[k].nick = n /\ s.gets[k].state = "RUNNING"
          BY <4>1 DEF Runs
        <5>2. first < k
          BY <1>1, <2>3, <2>4, <3>5, <5>1
        <5> QED BY <2>3, <3>5, <5>1, <5>2 DEF Ordered
      <4>2. s.gets[first] \notin Runs(m) /\ Count(s.gets, Runs(m)) = 0
        BY <2>3, <3>5, <4>1, CountNone
      <4> QED BY <1>3, <3>1, <4>2
    <3> QED BY <3>3, <3>4, <3>5
  <2> HIDE DEF r
  <2>7. /\ rest \in States /\ rest.gets = r /\ rest.uploads = s.uploads /\ rest.fetches = s.fetches
    BY <2>5 DEF States
  <2> HIDE DEF rest
  <2>8. Good(rest)
    BY <2>5, <2>6, <2>7 DEF Good, Matched, Limited
  <2> QED BY <2>1, <2>7, <2>8, StartGood
<1> QED BY <1>4, <1>5

\* What an upload comes to does not matter to the others, as long as it stays.
LEMMA AlikeGood ==
  ASSUME NEW s, Good(s), NEW t \in States, t.gets = s.gets, t.fetches = s.fetches,
         Len(t.uploads) = Len(s.uploads),
         \A i \in DOMAIN s.uploads : t.uploads[i].nick = s.uploads[i].nick
  PROVE  Good(t)
<1>1. s.uploads \in Seq(Upload) /\ t.uploads \in Seq(Upload)
  BY DEF Good, States
<1>2. ASSUME NEW n \in Nick PROVE Count(t.uploads, Of(n)) = Count(s.uploads, Of(n))
  <2>1. DOMAIN s.uploads = DOMAIN t.uploads
    BY <1>1
  <2>2. \A i \in DOMAIN s.uploads : s.uploads[i] \in Of(n) <=> t.uploads[i] \in Of(n)
    BY <1>1, <2>1 DEF Of
  <2> QED BY <1>1, <2>2, CountAlike
<1> QED BY <1>2 DEF Good, Limited, Matched

\* The state in which upload i is u and the files are g.
With(s, i, u, g) == [s EXCEPT !.uploads = [s.uploads EXCEPT ![i] = u], !.files = g]

\* An upload whose fields change keeps its nick.
LEMMA SetUpload ==
  ASSUME NEW s, Good(s), NEW i \in DOMAIN s.uploads, NEW u \in Upload,
         u.nick = s.uploads[i].nick, NEW g \in [Name -> {"none", "part", "full"}]
  PROVE  Good(With(s, i, u, g)) /\ Len(With(s, i, u, g).uploads) = Len(s.uploads)
<1> DEFINE r == [s.uploads EXCEPT ![i] = u]
           t == [s EXCEPT !.uploads = r, !.files = g]
<1>1. s \in States /\ s.uploads \in Seq(Upload)
  BY DEF Good, States
<1>2. /\ r \in Seq(Upload) /\ Len(r) = Len(s.uploads) /\ r[i] = u
      /\ \A k \in DOMAIN s.uploads : r[k].nick = s.uploads[k].nick
  BY <1>1
<1> HIDE DEF r
<1>3. t \in States /\ t.uploads = r /\ t.gets = s.gets /\ t.fetches = s.fetches
  BY <1>1, <1>2 DEF States
<1> HIDE DEF t
<1>4. Good(t)
  BY <1>2, <1>3, AlikeGood
<1>5. With(s, i, u, g) = t
  BY DEF With, t, r
<1> QED BY <1>2, <1>3, <1>4, <1>5

\* An upload that is closed stays until the list is gone through.
LEMMA ClosedGood ==
  ASSUME NEW s, Good(s), NEW i \in DOMAIN s.uploads
  PROVE  Good(Closed(s, i)) /\ Len(Closed(s, i).uploads) = Len(s.uploads)
<1> DEFINE u == [s.uploads[i] EXCEPT !.status = "DONE"]
           t == With(s, i, u, s.files)
<1>1. s \in States /\ s.uploads[i] \in Upload /\ s.files \in [Name -> {"none", "part", "full"}]
  BY DEF Good, States
<1>2. u \in Upload /\ u.nick = s.uploads[i].nick
  BY <1>1 DEF Upload
<1>3. Closed(s, i) = t
  BY <1>1 DEF Closed, With, States
<1> HIDE DEF u
<1>4. Good(t) /\ Len(t.uploads) = Len(s.uploads)
  BY <1>1, <1>2, SetUpload
<1> QED BY <1>3, <1>4

\* Opening the file and the socket, whatever fails.
LEMMA EstablishedGood ==
  ASSUME NEW s, Good(s), NEW i \in DOMAIN s.uploads, NEW t \in Established(s, i)
  PROVE  Good(t)
<1> DEFINE u == s.uploads[i]
           active == u.port # 0
           asks == [s EXCEPT !.uploads[i].status = IF active THEN @ ELSE "RESUME"]
           goes == [s EXCEPT !.uploads[i].status = IF active THEN "CONNECTING" ELSE "LISTENING",
                             !.files[u.file] = "part"]
           v == [u EXCEPT !.status = IF active THEN @ ELSE "RESUME"]
           w == [u EXCEPT !.status = IF active THEN "CONNECTING" ELSE "LISTENING"]
           g == [s.files EXCEPT ![u.file] = "part"]
<1>1. s \in States /\ u \in Upload /\ s.files \in [Name -> {"none", "part", "full"}]
  BY DEF Good, States
<1>2. v \in Upload /\ v.nick = u.nick /\ w \in Upload /\ w.nick = u.nick
  BY <1>1 DEF Upload
<1>3. g \in [Name -> {"none", "part", "full"}]
  BY <1>1
<1>4. asks = With(s, i, v, s.files)
  BY <1>1 DEF With, States
<1>5. goes = With(s, i, w, g)
  BY <1>1 DEF With, States
<1>6. t \in {Closed(s, i), asks, goes, Closed(goes, i)}
  BY DEF Established
<1> HIDE DEF asks, goes, v, w, g
<1>7. Good(asks)
  BY <1>1, <1>2, <1>4, SetUpload
<1>8. Good(goes) /\ Len(goes.uploads) = Len(s.uploads)
  BY <1>2, <1>3, <1>5, SetUpload
<1>9. i \in DOMAIN goes.uploads
  <2>1. s.uploads \in Seq(Upload) /\ goes.uploads \in Seq(Upload)
    BY <1>1, <1>8 DEF Good, States
  <2> QED BY <1>8, <2>1
<1> QED BY <1>6, <1>7, <1>8, <1>9, ClosedGood

\* The GET that is tried is the only one, and runs from now on, behind the others.
LEMMA QuploadStarted ==
  ASSUME NEW s, NEW n \in Nick, s \in States, Limited(s), Ordered(s.gets),
         \A m \in Nick : Count(s.gets, Runs(m)) + (IF m = n THEN 1 ELSE 0) <= Count(s.uploads, Of(m))
  PROVE  Good(qupload_started(s, n)) /\ qupload_started(s, n).uploads = s.uploads
<1> DEFINE tried == {k \in InState(s, "TRYING") : s.gets[k].nick = n}
           first == First(tried)
           q == s.gets
           r == [q EXCEPT ![first].state = "RUNNING"]
           t == [s EXCEPT !.gets = r]
<1>1. q \in Seq(Waits) /\ DOMAIN q = 1..Len(q) /\ Len(q) \in Nat /\ s.uploads \in Seq(Upload)
  BY DEF States
<1>2. ASSUME NEW m \in Nick
      PROVE  Count(s.uploads, Of(m)) \in Nat /\ Count(q, Runs(m)) \in Nat
  BY <1>1, CountType
<1>3. CASE tried = {}
  <2>1. qupload_started(s, n) = s
    BY <1>3 DEF qupload_started
  <2>2. Matched(s)
    BY <1>2 DEF Matched
  <2> QED BY <2>1, <2>2 DEF Good
<1>4. CASE tried # {}
  <2>1. qupload_started(s, n) = t
    BY <1>1, <1>4 DEF qupload_started, States
  <2>2. first \in tried
    <3>1. tried \subseteq Nat
      BY <1>1 DEF InState
    <3> QED BY <1>4, <3>1, FirstType
  <2> HIDE DEF first
  <2>3. first \in DOMAIN q /\ q[first].nick = n /\ q[first].state = "TRYING"
    BY <2>2 DEF InState
  <2>4. /\ r \in Seq(Waits) /\ Len(r) = Len(q) /\ DOMAIN r = DOMAIN q
        /\ \A j \in DOMAIN q : j # first => r[j] = q[j]
        /\ r[first].state = "RUNNING" /\ r[first].nick = q[first].nick
    BY <1>1, <2>3, SetState
  <2> HIDE DEF r
  <2>5. t \in States /\ t.gets = r /\ t.uploads = s.uploads /\ t.fetches = s.fetches
    BY <2>4 DEF States
  <2>6. \A a, b \in DOMAIN q : a < b /\ q[a].state # "RUNNING" => q[b].state = "WAITING"
    BY DEF Ordered
  <2>7. Ordered(r)
    <3> SUFFICES ASSUME NEW j \in DOMAIN r, NEW k \in DOMAIN r, j < k, r[j].state # "RUNNING"
                 PROVE  r[k].state = "WAITING"
      BY DEF Ordered
    <3>1. j # first /\ q[j].state # "RUNNING"
      BY <2>4
    <3>2. q[k].state = "WAITING"
      BY <2>4, <2>6, <3>1
    <3> QED BY <2>3, <2>4, <3>2
  <2>8. ASSUME NEW m \in Nick PROVE Count(r, Runs(m)) <= Count(s.uploads, Of(m))
    <3> DEFINE A == {i \in DOMAIN q : q[i] \in Runs(m)}
               B == {i \in DOMAIN r : r[i] \in Runs(m)}
    <3>1. IsFiniteSet(A) /\ Cardinality(A) = Count(q, Runs(m)) /\ Cardinality(B) = Count(r, Runs(m))
      BY <1>1, CountType DEF Count
    <3>2. CASE m # n
      <4>1. \A i \in DOMAIN q : q[i] \in Runs(m) <=> r[i] \in Runs(m)
        BY <2>3, <2>4, <3>2 DEF Runs
      <4>2. A = B
        BY <2>4, <4>1
      <4>3. Count(q, Runs(m)) + 0 <= Count(s.uploads, Of(m))
        BY <3>2
      <4>4. Count(r, Runs(m)) = Count(q, Runs(m))
        BY <3>1, <4>2
      <4> HIDE DEF q, r
      <4> QED BY <1>2, <4>3, <4>4
    <3>3. CASE m = n
      <4>1. \A i \in DOMAIN q : i # first => (q[i] \in Runs(m) <=> r[i] \in Runs(m))
        BY <2>4
      <4>2. first \notin A
        BY <2>3 DEF Runs
      <4>3. B \subseteq A \cup {first}
        BY <2>4, <4>1
      <4>4. IsFiniteSet(A \cup {first}) /\ Cardinality(A \cup {first}) = Cardinality(A) + 1
        BY <3>1, <4>2, FS_AddElement
      <4>5. Cardinality(B) <= Cardinality(A) + 1
        BY <4>3, <4>4, FS_Subset
      <4>6. Cardinality(A) + 1 <= Count(s.uploads, Of(m))
        BY <3>1, <3>3
      <4>7. Cardinality(A) \in Nat /\ Cardinality(B) \in Nat /\ Count(s.uploads, Of(m)) \in Nat
        <5>1. IsFiniteSet(B)
          BY <4>3, <4>4, FS_Subset
        <5> QED BY <1>2, <3>1, <5>1, FS_CardinalityType
      <4> QED BY <3>1, <4>5, <4>6, <4>7
    <3> QED BY <3>2, <3>3
  <2> QED BY <2>1, <2>5, <2>7, <2>8 DEF Good, Matched, Limited
<1> QED BY <1>3, <1>4
-----------------------------------------------------------------------------
(* A second: the visits to all uploads *)

\* What the k-th visit makes of the states in X; n uploads were there at first.
Visited(k, X, n, done) ==
  IF k \notin done THEN X ELSE UNION {Freed(t, k - (n - Len(t.uploads))) : t \in X}

\* A list of visits is what it is defined to be, for any number of uploads.
LEMMA VisitsDefined ==
  ASSUME NEW s, Len(s.uploads) \in Nat, NEW done
  PROVE  /\ Visits(s, done)[0] = {s}
         /\ \A k \in 1..Len(s.uploads) :
              Visits(s, done)[k] = Visited(k, Visits(s, done)[k - 1], Len(s.uploads), done)
<1> DEFINE n == Len(s.uploads)
           D(k, X) == Visited(k, X, n, done)
           Is(f, m) == f = [k \in 0..m |-> IF k = 0 THEN {s} ELSE D(k, f[k - 1])]
           None == {m \in 0..n : ~\E f : Is(f, m)}
<1>1. n \in Nat
  OBVIOUS
<1>2. Visits(s, done) = CHOOSE f : Is(f, n)
  BY DEF Visits, Visited
<1> HIDE DEF n, D
<1>3. ASSUME None # {} PROVE FALSE
  <2>1. PICK m \in None : \A k \in None : m <= k
    <3>1. None \subseteq Nat
      BY <1>1
    <3> QED BY <1>3, <3>1, LeastNat
  <2>2. m \in 0..n /\ ~\E f : Is(f, m)
    BY <2>1
  <2>3. CASE m = 0
    <3> DEFINE f == [k \in 0..0 |-> {s}]
    <3>1. f = [k \in 0..0 |-> IF k = 0 THEN {s} ELSE D(k, f[k - 1])]
      OBVIOUS
    <3>2. Is(f, 0)
      BY <3>1
    <3> QED BY <2>2, <2>3, <3>2
  <2>4. CASE m # 0
    <3>1. m - 1 \in 0..n /\ m - 1 < m /\ m \in Nat
      BY <1>1, <2>2, <2>4
    <3>2. m - 1 \notin None
      <4> HIDE DEF None
      <4> QED BY <2>1, <3>1
    <3>3. PICK f : Is(f, m - 1)
      BY <3>1, <3>2
    <3>4. /\ \A k \in 0..(m - 1) : f[k] = IF k = 0 THEN {s} ELSE D(k, f[k - 1])
      BY <3>3
    <3> DEFINE g == [k \in 0..m |-> IF k = m THEN D(m, f[m - 1]) ELSE f[k]]
    <3>5. ASSUME NEW k \in 0..m PROVE g[k] = IF k = 0 THEN {s} ELSE D(k, g[k - 1])
      <4>1. CASE k = m
        <5>1. k - 1 \in 0..m /\ k - 1 # m /\ k # 0
          BY <2>4, <3>1, <4>1
        <5>2. g[k] = D(m, f[m - 1]) /\ g[k - 1] = f[m - 1]
          BY <4>1, <5>1
        <5> HIDE DEF g
        <5> QED BY <4>1, <5>1, <5>2
      <4>2. CASE k # m /\ k = 0
        <5>1. k \in 0..(m - 1) /\ f[k] = {s}
          BY <3>1, <3>4, <4>2
        <5> QED BY <4>2, <5>1
      <4>3. CASE k # m /\ k # 0
        <5>1. k \in 0..(m - 1) /\ k - 1 \in 0..m /\ k - 1 # m
          BY <3>1, <4>3
        <5>2. g[k] = f[k] /\ g[k - 1] = f[k - 1]
          BY <4>3, <5>1
        <5>3. f[k] = D(k, f[k - 1])
          BY <3>4, <4>3, <5>1
        <5> HIDE DEF g
        <5> QED BY <4>3, <5>2, <5>3
      <4> QED BY <4>1, <4>2, <4>3
    <3>6. DOMAIN g = 0..m /\ g = [k \in 0..m |-> g[k]]
      OBVIOUS
    <3> HIDE DEF g
    <3>7. Is(g, m)
      BY <3>5, <3>6
    <3> QED BY <2>2, <3>7
  <2> QED BY <2>3, <2>4
<1>4. \E f : Is(f, n)
  <2>1. n \in 0..n
    BY <1>1
  <2> HIDE DEF Is
  <2> QED BY <1>3, <2>1
<1>5. Is(Visits(s, done), n)
  BY <1>2, <1>4
<1>6. /\ 0 \in 0..n
      /\ \A k \in 1..n : k \in 0..n /\ k # 0
  BY <1>1
<1> DEFINE V == Visits(s, done)
<1>7. \A k \in 0..n : V[k] = IF k = 0 THEN {s} ELSE D(k, V[k - 1])
  BY <1>5
<1>8. V[0] = {s} /\ \A k \in 1..n : V[k] = D(k, V[k - 1])
  BY <1>6, <1>7
<1> QED BY <1>8 DEF D, n

\* An upload that goes takes a GET of its nick with it.
LEMMA FreedGood ==
  ASSUME NEW s, Good(s), NEW i \in DOMAIN s.uploads, NEW t \in Freed(s, i)
  PROVE  Good(t) /\ Len(t.uploads) = Len(s.uploads) - 1
<1> DEFINE n == s.uploads[i].nick
           r == Drop(s.uploads, i)
           rest == [s EXCEPT !.uploads = r]
<1>1. s \in States /\ s.uploads \in Seq(Upload) /\ s.gets \in Seq(Waits) /\ s.uploads[i] \in Upload
  BY DEF Good, States
<1>2. n \in Nick
  BY <1>1 DEF Upload
<1>3. t \in close_qupload(rest, n)
  BY DEF Freed, Forget
<1>4. r \in Seq(Upload) /\ Len(r) = Len(s.uploads) - 1
  BY <1>1, DropType
<1>5. ASSUME NEW m \in Nick
      PROVE  Count(s.gets, Runs(m)) <= Count(r, Of(m)) + (IF m = n THEN 1 ELSE 0)
  <2>1. Count(r, Of(m)) = Count(s.uploads, Of(m)) - (IF s.uploads[i] \in Of(m) THEN 1 ELSE 0)
    BY <1>1, CountDropped
  <2>2. s.uploads[i] \in Of(m) <=> m = n
    BY <1>1 DEF Of
  <2>3. Count(s.gets, Runs(m)) <= Count(s.uploads, Of(m))
    BY DEF Good, Matched
  <2>4. Count(s.uploads, Of(m)) \in Nat /\ Count(s.gets, Runs(m)) \in Nat
    BY <1>1, CountType
  <2> HIDE DEF n, r
  <2> QED BY <2>1, <2>2, <2>3, <2>4
<1> HIDE DEF r, n
<1>6. /\ rest \in States /\ rest.uploads = r /\ rest.gets = s.gets /\ rest.fetches = s.fetches
  BY <1>1, <1>4 DEF States
<1> HIDE DEF rest
<1>7. Limited(rest) /\ Ordered(rest.gets) /\ AlmostMatched(rest, n)
  <2>1. Len(s.uploads) \in Nat /\ Len(s.fetches) \in Nat
    BY <1>1 DEF States
  <2> DEFINE u == Len(s.uploads)
             f == Len(s.fetches)
  <2>2. u \in Nat /\ f \in Nat /\ (max_uploads # 0 => u + f <= max_uploads)
    BY <2>1 DEF Good, Limited
  <2>3. Len(rest.uploads) = u - 1 /\ Len(rest.fetches) = f
    BY <1>4, <1>6
  <2> HIDE DEF u, f
  <2>4. Limited(rest)
    BY <2>2, <2>3, IncomingAssumption DEF Limited
  <2> QED BY <1>5, <1>6, <2>4 DEF Good, AlmostMatched
<1>8. Good(t) /\ t.uploads = rest.uploads
  BY <1>2, <1>3, <1>6, <1>7, CloseGood
<1> QED BY <1>4, <1>6, <1>8

\* Through all the visits each state is good, and has at most as many uploads less as
\* there were visits.
LEMMA VisitsGood ==
  ASSUME NEW s, Good(s), NEW done, NEW k \in 0..Len(s.uploads)
  PROVE  \A t \in Visits(s, done)[k] :
           Good(t) /\ Len(t.uploads) <= Len(s.uploads) /\ Len(s.uploads) - k <= Len(t.uploads)
<1> DEFINE n == Len(s.uploads)
           V == Visits(s, done)
           Fine(m) == \A t \in V[m] : Good(t) /\ Len(t.uploads) <= n /\ n - m <= Len(t.uploads)
           Bad == {m \in 0..n : ~Fine(m)}
<1>1. n \in Nat
  BY DEF Good, States
<1>2. V[0] = {s} /\ \A m \in 1..n : V[m] = Visited(m, V[m - 1], n, done)
  BY <1>1, VisitsDefined
<1> HIDE DEF V
<1>3. ASSUME Bad # {} PROVE FALSE
  <2>1. PICK m \in Bad : \A j \in Bad : m <= j
    <3>1. Bad \subseteq Nat
      BY <1>1
    <3> QED BY <1>3, <3>1, LeastNat
  <2>2. m \in 0..n /\ ~Fine(m)
    BY <2>1
  <2>3. m # 0
    BY <1>1, <1>2, <2>2
  <2>4. m \in 1..n /\ m - 1 \in 0..n
    BY <1>1, <2>2, <2>3
  <2>5. Fine(m - 1)
    <3>1. m - 1 \notin Bad
      BY <1>1, <2>1, <2>4
    <3> QED BY <2>4, <3>1
  <2>6. PICK t \in V[m] : ~(Good(t) /\ Len(t.uploads) <= n /\ n - m <= Len(t.uploads))
    BY <2>2
  <2>7. CASE m \notin done
    <3>1. t \in V[m - 1]
      BY <1>2, <2>4, <2>6, <2>7 DEF Visited
    <3>2. Good(t) /\ Len(t.uploads) <= n /\ n - (m - 1) <= Len(t.uploads)
      BY <2>5, <3>1
    <3>3. Len(t.uploads) \in Nat
      BY <3>2 DEF Good, States
    <3> HIDE DEF n
    <3> QED BY <1>1, <2>4, <2>6, <3>2, <3>3
  <2>8. CASE m \in done
    <3>0. V[m] = UNION {Freed(u, m - (n - Len(u.uploads))) : u \in V[m - 1]}
      <4>1. V[m] = Visited(m, V[m - 1], n, done)
        BY <1>2, <2>4
      <4> HIDE DEF n
      <4> QED BY <2>8, <4>1 DEF Visited
    <3>1. PICK u \in V[m - 1] : t \in Freed(u, m - (n - Len(u.uploads)))
      <4> HIDE DEF n
      <4> QED BY <2>6, <3>0
    <3>2. Good(u) /\ Len(u.uploads) <= n /\ n - (m - 1) <= Len(u.uploads)
      BY <2>5, <3>1
    <3> DEFINE c == Len(u.uploads)
               i == m - (n - c)
    <3>3. c \in Nat /\ DOMAIN u.uploads = 1..c
      BY <3>2 DEF Good, States
    <3>4. i \in 1..c
      <4> HIDE DEF n, c
      <4> QED BY <1>1, <2>4, <3>2, <3>3 DEF c
    <3>5. Good(t) /\ Len(t.uploads) = c - 1
      BY <3>1, <3>2, <3>3, <3>4, FreedGood
    <3> HIDE DEF n, c, i
    <3>6. Len(t.uploads) <= n /\ n - m <= Len(t.uploads)
      BY <1>1, <2>4, <3>2, <3>3, <3>5 DEF c
    <3> QED BY <2>6, <3>5, <3>6
  <2> QED BY <2>7, <2>8
<1>4. Fine(k)
  BY <1>3
<1> QED BY <1>4 DEF V
-----------------------------------------------------------------------------
(* The actions *)

\* The invariant is that the present state is good.
LEMMA InvGood == IncomingInv <=> Good(State)
<1> DEFINE s == State
<1>1. /\ s.uploads = uploads /\ s.gets = gets /\ s.fetches = fetches
      /\ s.later = later /\ s.files = files
  BY DEF State
<1>2. s = [uploads |-> uploads, gets |-> gets, fetches |-> fetches, later |-> later, files |-> files]
  BY DEF State
<1>3. IncomingTypeOK <=> s \in States
  BY <1>1, <1>2 DEF IncomingTypeOK, States, Waits
<1> HIDE DEF s
<1>4. UploadLimit <=> Limited(s)
  BY <1>1 DEF UploadLimit, Limited
<1>5. GetsEnd <=> Matched(s)
  BY <1>1 DEF GetsEnd, Matched, Runs, Of
<1> QED BY <1>1, <1>3, <1>4, <1>5 DEF IncomingInv, Accounted, Good, s

\* So it is enough that a step becomes a good state.
LEMMA BecomeGood ==
  ASSUME NEW s, Good(s), Become(s)
  PROVE  IncomingInv'
<1>1. /\ s \in States /\ Limited(s) /\ Matched(s) /\ Ordered(s.gets)
      /\ uploads' = s.uploads /\ gets' = s.gets /\ fetches' = s.fetches
      /\ later' = s.later /\ files' = s.files
  BY DEF Good, Become
<1>2. IncomingTypeOK'
  BY <1>1 DEF IncomingTypeOK, States, Waits
<1>3. UploadLimit'
  BY <1>1 DEF UploadLimit, Limited
<1>4. GetsEnd'
  BY <1>1 DEF GetsEnd, Matched, Runs, Of
<1> QED BY <1>1, <1>2, <1>3, <1>4 DEF IncomingInv, Accounted, Ordered

\* The names of the parts of the present state.
LEMMA StateParts ==
  ASSUME IncomingInv
  PROVE  /\ Good(State) /\ State \in States
         /\ State.uploads = uploads /\ State.gets = gets /\ State.fetches = fetches
         /\ State.later = later /\ State.files = files
         /\ uploads \in Seq(Upload) /\ gets \in Seq(Waits) /\ fetches \in Seq(Name)
         /\ later \in Seq(Name) /\ files \in [Name -> {"none", "part", "full"}]
  BY InvGood DEF Good, State, IncomingInv, IncomingTypeOK, Waits

\* DCC SEND: the place is there, and the GET that led to it runs from now on.
LEMMA UploadStartGood ==
  ASSUME IncomingInv, NEW n \in Nick, NEW f \in Name, NEW port \in {0, 1},
         upload_start(n, f, port)
  PROVE  IncomingInv'
<1> DEFINE u == [nick |-> n, file |-> f, port |-> port, resumed |-> FALSE, status |-> "UNUSED"]
           r == Append(uploads, u)
           s == [State EXCEPT !.uploads = Append(@, u)]
           v == qupload_started(s, n)
<1>1. ~max_uploads_reached(State) /\ \E t \in Established(v, Len(v.uploads)) : Become(t)
  BY DEF upload_start
<1>2. u \in Upload /\ u.nick = n
  BY DEF Upload
<1> HIDE DEF u
<1>3. r \in Seq(Upload) /\ Len(r) = Len(uploads) + 1 /\ Len(uploads) \in Nat
  BY <1>2, StateParts
<1>4. /\ s \in States /\ s.uploads = r /\ s.gets = gets /\ s.fetches = fetches
  BY <1>3, StateParts DEF States
<1>5. Limited(s)
  <2> DEFINE c == Len(uploads)
             d == Len(fetches)
  <2>1. Free(State) /\ c \in Nat /\ d \in Nat
    BY <1>1, StateParts, Room
  <2>2. max_uploads # 0 => c + d < max_uploads
    BY <2>1, StateParts DEF Free
  <2>3. Len(s.uploads) = c + 1 /\ Len(s.fetches) = d
    BY <1>3, <1>4
  <2> HIDE DEF c, d, s
  <2> QED BY <2>1, <2>2, <2>3, IncomingAssumption DEF Limited
<1>6. ASSUME NEW m \in Nick
      PROVE  Count(gets, Runs(m)) + (IF m = n THEN 1 ELSE 0) <= Count(r, Of(m))
  <2>1. Count(r, Of(m)) = Count(uploads, Of(m)) + (IF u \in Of(m) THEN 1 ELSE 0)
    BY <1>2, StateParts, CountAppend
  <2>2. u \in Of(m) <=> m = n
    BY <1>2 DEF Of
  <2>3. Count(gets, Runs(m)) <= Count(uploads, Of(m))
    BY StateParts DEF Good, Matched
  <2>4. Count(uploads, Of(m)) \in Nat /\ Count(gets, Runs(m)) \in Nat
    BY StateParts, CountType
  <2> HIDE DEF r
  <2> QED BY <2>1, <2>2, <2>3, <2>4
<1>7. Ordered(gets)
  BY StateParts DEF Good
<1> HIDE DEF r, s
<1>8. Good(v) /\ v.uploads = r
  BY <1>4, <1>5, <1>6, <1>7, QuploadStarted
<1>9. Len(v.uploads) \in DOMAIN v.uploads
  BY <1>3, <1>8
<1> HIDE DEF v
<1> QED BY <1>1, <1>8, <1>9, EstablishedGood, BecomeGood

\* DCC ACCEPT goes on with an upload that is there.
LEMMA AcceptGood ==
  ASSUME IncomingInv, NEW n \in Nick, NEW port \in {0, 1}, Accept(n, port)
  PROVE  IncomingInv'
<1> DEFINE mine == {k \in DOMAIN uploads : uploads[k].nick = n /\ uploads[k].port = port}
           i == First(mine)
           u == [uploads[i] EXCEPT !.resumed = TRUE]
           s == [State EXCEPT !.uploads[i].resumed = TRUE]
<1>1. mine # {} /\ \E t \in Established(s, i) : Become(t)
  BY DEF Accept
<1>2. i \in DOMAIN uploads
  <2>1. mine \subseteq Nat
    BY StateParts
  <2> QED BY <1>1, <2>1, FirstType
<1> HIDE DEF i
<1>3. u \in Upload /\ u.nick = uploads[i].nick
  <2>1. uploads[i] \in Upload
    BY <1>2, StateParts
  <2> QED BY <2>1 DEF Upload
<1>4. s = With(State, i, u, State.files)
  BY StateParts DEF With, States
<1> HIDE DEF u, s
<1>5. Good(s) /\ Len(s.uploads) = Len(uploads)
  <2>1. /\ Good(State) /\ i \in DOMAIN State.uploads /\ u.nick = State.uploads[i].nick
        /\ State.files \in [Name -> {"none", "part", "full"}]
    BY <1>2, <1>3, StateParts
  <2>2. Good(With(State, i, u, State.files)) /\ Len(With(State, i, u, State.files).uploads) = Len(State.uploads)
    BY <1>3, <2>1, SetUpload
  <2> QED BY <1>4, <2>2, StateParts
<1>6. i \in DOMAIN s.uploads
  <2>1. s.uploads \in Seq(Upload)
    BY <1>5 DEF Good, States
  <2> QED BY <1>2, <1>5, <2>1, StateParts
<1> QED BY <1>1, <1>5, <1>6, EstablishedGood, BecomeGood

\* A connection stands, or all bytes are there.
LEMMA ProgressGood ==
  ASSUME IncomingInv, NEW i \in DOMAIN uploads, Progress(i)
  PROVE  IncomingInv'
<1> DEFINE u == uploads[i]
           w(x) == [u EXCEPT !.status = x]
           g == [files EXCEPT ![u.file] = "full"]
<1>1. u \in Upload /\ g \in [Name -> {"none", "part", "full"}]
  <2>1. u \in Upload
    BY StateParts
  <2>2. files \in [Name -> {"none", "part", "full"}]
    BY StateParts
  <2> QED BY <2>1, <2>2
<1>2. CASE u.status = "GETTING"
  <2> DEFINE s == [State EXCEPT !.uploads[i].status = "WAITING", !.files[u.file] = "full"]
  <2>1. Become(s)
    BY <1>2 DEF Progress
  <2>2. w("WAITING") \in Upload /\ w("WAITING").nick = u.nick
    BY <1>1 DEF Upload
  <2>3. s = With(State, i, w("WAITING"), g)
    BY StateParts DEF With, States
  <2> HIDE DEF s, w, g
  <2> QED BY <1>1, <2>1, <2>2, <2>3, StateParts, SetUpload, BecomeGood
<1>3. CASE u.status # "GETTING"
  <2> DEFINE s == [State EXCEPT !.uploads[i].status = "GETTING"]
  <2>1. Become(s)
    BY <1>3 DEF Progress
  <2>2. w("GETTING") \in Upload /\ w("GETTING").nick = u.nick
    BY <1>1 DEF Upload
  <2>3. s = With(State, i, w("GETTING"), State.files)
    BY StateParts DEF With, States
  <2> HIDE DEF s, w
  <2> QED BY <1>1, <2>1, <2>2, <2>3, StateParts, SetUpload, BecomeGood
<1> QED BY <1>2, <1>3

\* A second times some uploads out and visits all.
LEMMA SecondGood ==
  ASSUME IncomingInv, NEW late, Second(late)
  PROVE  IncomingInv'
<1> DEFINE timed == Timed(late)
           done == {i \in DOMAIN uploads : timed.uploads[i].status = "DONE"}
           r == [i \in DOMAIN uploads |->
                   IF i \in late THEN [uploads[i] EXCEPT !.status = "DONE"] ELSE uploads[i]]
<1>1. \E s \in Visits(timed, done)[Len(uploads)] : Become(s)
  BY DEF Second
<1>2. DOMAIN uploads = 1..Len(uploads) /\ Len(uploads) \in Nat
  BY StateParts
<1>3. r \in Seq(Upload) /\ Len(r) = Len(uploads) /\ \A i \in DOMAIN uploads : r[i].nick = uploads[i].nick
  <2>1. ASSUME NEW i \in DOMAIN uploads PROVE r[i] \in Upload /\ r[i].nick = uploads[i].nick
    <3>1. uploads[i] \in Upload
      BY StateParts
    <3> QED BY <3>1 DEF Upload
  <2>2. DOMAIN r = 1..Len(uploads) /\ Len(r) = Len(uploads)
    BY <1>2
  <2> HIDE DEF r
  <2>3. r \in [1..Len(uploads) -> Upload]
    <3>1. r = [i \in DOMAIN uploads |-> r[i]]
      BY DEF r
    <3> QED BY <1>2, <2>1, <3>1
  <2> QED BY <1>2, <2>1, <2>2, <2>3
<1>4. timed = [State EXCEPT !.uploads = r]
  BY DEF Timed
<1> HIDE DEF r
<1>5. /\ timed \in States /\ timed.uploads = r /\ timed.gets = State.gets
      /\ timed.fetches = State.fetches
  BY <1>3, <1>4, StateParts DEF States
<1> HIDE DEF timed, done
<1>6. Good(timed)
  BY <1>3, <1>5, StateParts, AlikeGood
<1>7. Len(uploads) \in 0..Len(timed.uploads)
  BY <1>2, <1>3, <1>5
<1> QED BY <1>1, <1>6, <1>7, VisitsGood, BecomeGood

\* An upload that fails or is closed keeps its place until the next second.
LEMMA EndGood ==
  ASSUME IncomingInv, NEW i \in DOMAIN uploads, Fails(i) \/ CloseU(i)
  PROVE  IncomingInv'
<1>1. Become(Closed(State, i))
  BY DEF Fails, CloseU
<1>2. Good(Closed(State, i))
  BY StateParts, ClosedGood
<1> QED BY <1>1, <1>2, BecomeGood

\* GET waits behind all the others.
LEMMA GetGood ==
  ASSUME IncomingInv, NEW n \in Nick, Get(n)
  PROVE  IncomingInv'
<1> DEFINE x == [nick |-> n, state |-> "WAITING"]
           r == Append(gets, x)
           s == [State EXCEPT !.gets = Append(@, x)]
<1>1. \E t \in start_qupload(s) : Become(t)
  BY DEF Get
<1>2. x \in Waits /\ x.state = "WAITING"
  BY DEF Waits
<1>3. ASSUME NEW m \in Nick PROVE x \notin Runs(m)
  BY DEF Runs
<1> HIDE DEF x
<1>4. /\ r \in Seq(Waits) /\ gets \in Seq(Waits) /\ Len(gets) \in Nat
      /\ DOMAIN gets = 1..Len(gets) /\ DOMAIN r = 1..(Len(gets) + 1)
      /\ (\A j \in 1..Len(gets) : r[j] = gets[j]) /\ r[Len(gets) + 1] = x
  BY <1>2, StateParts
<1>5. ASSUME NEW m \in Nick PROVE Count(r, Runs(m)) = Count(gets, Runs(m))
  <2>1. Count(gets, Runs(m)) \in Nat
    BY <1>4, CountType
  <2>2. Count(r, Runs(m)) = Count(gets, Runs(m)) + (IF x \in Runs(m) THEN 1 ELSE 0)
    BY <1>2, <1>4, CountAppend
  <2> HIDE DEF r
  <2> QED BY <1>3, <2>1, <2>2
<1>6. /\ s \in States /\ s.gets = r /\ s.uploads = uploads /\ s.fetches = fetches
  BY <1>4, StateParts DEF States
<1> HIDE DEF r, s
<1>7. Ordered(r)
  <2> SUFFICES ASSUME NEW j \in DOMAIN r, NEW k \in DOMAIN r, j < k, r[j].state # "RUNNING"
               PROVE  r[k].state = "WAITING"
    BY DEF Ordered
  <2>1. \A a, b \in DOMAIN gets : a < b /\ gets[a].state # "RUNNING" => gets[b].state = "WAITING"
    BY StateParts DEF Good, Ordered
  <2>2. CASE k = Len(gets) + 1
    BY <1>2, <1>4, <2>2
  <2>3. CASE k # Len(gets) + 1
    <3>1. j \in DOMAIN gets /\ k \in DOMAIN gets /\ r[j] = gets[j] /\ r[k] = gets[k]
      BY <1>4, <2>3
    <3> QED BY <2>1, <3>1
  <2> QED BY <2>2, <2>3
<1>8. Good(s)
  BY <1>5, <1>6, <1>7, StateParts DEF Good, Limited, Matched
<1> QED BY <1>1, <1>8, StartGood, BecomeGood

\* GET CANCEL closes the first GET of the nick without an upload's end.
LEMMA GetCancelGood ==
  ASSUME IncomingInv, NEW n \in Nick, GetCancel(n)
  PROVE  IncomingInv'
<1>1. \E t \in close_qupload(State, n) : Become(t)
  BY DEF GetCancel
<1>2. AlmostMatched(State, n)
  <2> SUFFICES ASSUME NEW m \in Nick
               PROVE  Count(gets, Runs(m)) <= Count(uploads, Of(m)) + (IF m = n THEN 1 ELSE 0)
    BY StateParts DEF AlmostMatched
  <2>1. Count(gets, Runs(m)) <= Count(uploads, Of(m))
    BY StateParts DEF Good, Matched
  <2>2. Count(uploads, Of(m)) \in Nat /\ Count(gets, Runs(m)) \in Nat
    BY StateParts, CountType
  <2> QED BY <2>1, <2>2
<1>3. Limited(State) /\ Ordered(State.gets) /\ State \in States
  BY StateParts DEF Good
<1> QED BY <1>1, <1>2, <1>3, CloseGood, BecomeGood

\* FETCH begins when there is room, and waits when there is none.
LEMMA FetchGood ==
  ASSUME IncomingInv, NEW f \in Name, Fetch(f)
  PROVE  IncomingInv'
<1>1. CASE max_uploads_reached(State)
  <2> DEFINE s == [State EXCEPT !.later = Append(@, f)]
  <2>1. Become(s)
    BY <1>1 DEF Fetch
  <2>2. Append(later, f) \in Seq(Name)
    BY StateParts
  <2>3. s \in States /\ s.uploads = uploads /\ s.gets = gets /\ s.fetches = fetches
    BY <2>2, StateParts DEF States
  <2> HIDE DEF s
  <2>4. Good(s)
    BY <2>3, StateParts DEF Good, Limited, Matched
  <2> QED BY <2>1, <2>4, BecomeGood
<1>2. CASE ~max_uploads_reached(State)
  <2>1. \E s \in FetchNow(State, f) : Become(s)
    BY <1>2 DEF Fetch
  <2>2. Free(State)
    BY <1>2, StateParts, Room
  <2> QED BY <2>1, <2>2, StateParts, FetchNowGood, BecomeGood
<1> QED BY <1>1, <1>2

\* When fetches end, something else is started in the room they leave.
LEMMA FewerFetches ==
  ASSUME IncomingInv, NEW r \in Seq(Name), Len(r) <= Len(fetches),
         NEW t \in start_qupload([State EXCEPT !.fetches = r]), Become(t)
  PROVE  IncomingInv'
<1> DEFINE s == [State EXCEPT !.fetches = r]
<1>1. s \in States /\ s.uploads = uploads /\ s.gets = gets /\ s.fetches = r
  BY StateParts DEF States
<1> HIDE DEF s
<1>2. Limited(s)
  <2> DEFINE u == Len(uploads)
             c == Len(fetches)
             d == Len(r)
  <2>1. u \in Nat /\ c \in Nat /\ d \in Nat /\ d <= c
    BY StateParts
  <2>2. max_uploads # 0 => u + c <= max_uploads
    BY StateParts DEF Good, Limited
  <2>3. Len(s.uploads) = u /\ Len(s.fetches) = d
    BY <1>1
  <2> HIDE DEF u, c, d
  <2> QED BY <2>1, <2>2, <2>3, IncomingAssumption DEF Limited
<1>3. Good(s)
  BY <1>1, <1>2, StateParts DEF Good, Matched
<1> QED BY <1>3, StartGood, BecomeGood DEF s

\* Fetches end in one pass, or one is cancelled.
LEMMA FetchEndGood ==
  ASSUME IncomingInv,
         \/ \E over \in SUBSET DOMAIN fetches : FetchesEnd(over)
         \/ \E k \in DOMAIN fetches : FetchCancel(k)
  PROVE  IncomingInv'
<1>1. ASSUME NEW over \in SUBSET DOMAIN fetches, FetchesEnd(over) PROVE IncomingInv'
  <2> DEFINE r == Keep(fetches, DOMAIN fetches \ over)
  <2>1. fetches \in Seq(Name) /\ DOMAIN fetches \ over \subseteq DOMAIN fetches
    BY StateParts
  <2>2. r \in Seq(Name) /\ Len(r) \in 0..Len(fetches)
    BY <2>1, KeepType
  <2>3. Len(r) <= Len(fetches)
    BY <2>1, <2>2
  <2>4. \E t \in start_qupload([State EXCEPT !.fetches = r]) : Become(t)
    BY <1>1, StateParts DEF FetchesEnd, States
  <2> HIDE DEF r
  <2> QED BY <2>2, <2>3, <2>4, FewerFetches
<1>2. ASSUME NEW k \in DOMAIN fetches, FetchCancel(k) PROVE IncomingInv'
  <2> DEFINE r == Drop(fetches, k)
  <2>1. fetches \in Seq(Name)
    BY StateParts
  <2>2. r \in Seq(Name) /\ Len(r) = Len(fetches) - 1
    BY <2>1, DropType
  <2>3. Len(r) <= Len(fetches)
    BY <2>1, <2>2
  <2>4. \E t \in start_qupload([State EXCEPT !.fetches = r]) : Become(t)
    BY <1>2, StateParts DEF FetchCancel, States
  <2> HIDE DEF r
  <2> QED BY <2>2, <2>3, <2>4, FewerFetches
<1> QED BY <1>1, <1>2

\* A file that grows or is removed changes no list.
LEMMA FilesGood ==
  ASSUME IncomingInv, NEW f, NEW x \in {"none", "part", "full"}, Become([State EXCEPT !.files[f] = x])
  PROVE  IncomingInv'
<1> DEFINE g == [files EXCEPT ![f] = x]
           s == [State EXCEPT !.files = g]
<1>1. g \in [Name -> {"none", "part", "full"}]
  <2>1. files \in [Name -> {"none", "part", "full"}]
    BY StateParts
  <2> QED BY <2>1
<1>2. [State EXCEPT !.files[f] = x] = s
  BY StateParts DEF States
<1> HIDE DEF g
<1>3. s \in States /\ s.uploads = uploads /\ s.gets = gets /\ s.fetches = fetches
  BY <1>1, StateParts DEF States
<1> HIDE DEF s
<1>4. Good(s)
  BY <1>3, StateParts DEF Good, Limited, Matched
<1> QED BY <1>2, <1>4, BecomeGood

\* REHASH empties the list of GETs: none runs.
LEMMA RehashGood ==
  ASSUME IncomingInv, Rehash
  PROVE  IncomingInv'
<1> DEFINE s == [State EXCEPT !.gets = <<>>, !.later = <<>>]
<1>1. Become(s)
  BY DEF Rehash
<1>2. <<>> \in Seq(Waits) /\ <<>> \in Seq(Name) /\ DOMAIN <<>> = {}
  OBVIOUS
<1>3. s \in States /\ s.uploads = uploads /\ s.gets = <<>> /\ s.fetches = fetches
  BY <1>2, StateParts DEF States
<1> HIDE DEF s
<1>4. ASSUME NEW n \in Nick PROVE Count(s.gets, Runs(n)) <= Count(s.uploads, Of(n))
  <2>1. Count(s.gets, Runs(n)) = 0
    BY <1>2, <1>3, CountNone
  <2>2. Count(uploads, Of(n)) \in Nat
    BY StateParts, CountType
  <2> QED BY <1>3, <2>1, <2>2
<1>5. Ordered(s.gets)
  BY <1>2, <1>3 DEF Ordered
<1>6. Good(s)
  BY <1>3, <1>4, <1>5, StateParts DEF Good, Limited, Matched
<1> QED BY <1>1, <1>6, BecomeGood
-----------------------------------------------------------------------------
(* The theorem *)

\* At the start nothing comes in.
LEMMA IncomingStart ==
  ASSUME IncomingInit
  PROVE  IncomingInv
<1>1. /\ uploads = <<>> /\ gets = <<>> /\ fetches = <<>> /\ later = <<>>
      /\ files \in [Name -> {"none", "part"}]
  BY DEF IncomingInit
<1>2. /\ <<>> \in Seq(Upload) /\ <<>> \in Seq(Name) /\ DOMAIN <<>> = {} /\ Len(<<>>) = 0
      /\ <<>> \in Seq([nick : Nick, state : {"WAITING", "TRYING", "RUNNING"}])
  OBVIOUS
<1>3. IncomingTypeOK
  BY <1>1, <1>2 DEF IncomingTypeOK
<1>4. UploadLimit
  BY <1>1, <1>2, IncomingAssumption DEF UploadLimit
<1>5. GetsEnd
  <2>1. \A S : Count(<<>>, S) = 0
    BY <1>2, CountNone
  <2> QED BY <1>1, <2>1 DEF GetsEnd
<1>6. Ordered(gets)
  BY <1>1, <1>2 DEF Ordered
<1> QED BY <1>3, <1>4, <1>5, <1>6 DEF IncomingInv, Accounted

\* Every step keeps the invariant.
LEMMA IncomingStep ==
  ASSUME IncomingInv, [IncomingNext]_inVars
  PROVE  IncomingInv'
<1>1. CASE UNCHANGED inVars
  BY <1>1 DEF inVars, IncomingInv, IncomingTypeOK, Accounted, UploadLimit, GetsEnd, Ordered
<1>2. CASE \E n \in Nick, f \in Name, port \in {0, 1} : upload_start(n, f, port)
  BY <1>2, UploadStartGood
<1>3. CASE \E n \in Nick, port \in {0, 1} : Accept(n, port)
  BY <1>3, AcceptGood
<1>4. CASE \E i \in DOMAIN uploads : Progress(i) \/ Fails(i) \/ CloseU(i)
  BY <1>4, ProgressGood, EndGood
<1>5. CASE \E late \in SUBSET DOMAIN uploads : Second(late)
  BY <1>5, SecondGood
<1>6. CASE \E n \in Nick : Get(n) \/ GetCancel(n)
  BY <1>6, GetGood, GetCancelGood
<1>7. CASE \E f \in Name : Fetch(f) \/ Removed(f)
  <2>1. ASSUME NEW f \in Name, Removed(f) PROVE IncomingInv'
    BY <2>1, FilesGood DEF Removed
  <2> QED BY <1>7, <2>1, FetchGood
<1>8. CASE \E over \in SUBSET DOMAIN fetches : FetchesEnd(over)
  BY <1>8, FetchEndGood
<1>9. CASE \E k \in DOMAIN fetches : FetchGrows(k) \/ FetchCancel(k)
  <2>1. ASSUME NEW k \in DOMAIN fetches, FetchGrows(k) PROVE IncomingInv'
    BY <2>1, FilesGood DEF FetchGrows
  <2> QED BY <1>9, <2>1, FetchEndGood
<1>10. CASE Rehash
  BY <1>10, RehashGood
<1> QED
  BY <1>1, <1>2, <1>3, <1>4, <1>5, <1>6, <1>7, <1>8, <1>9, <1>10 DEF IncomingNext

\* Whatever starts what and ends how, no more than max_uploads come in at a time, and
\* no GET keeps a place for longer than its upload.
THEOREM AccountedHolds == IncomingSpec => []Accounted
<1>1. IncomingInit => IncomingInv
  BY IncomingStart
<1>2. IncomingInv /\ [IncomingNext]_inVars => IncomingInv'
  BY IncomingStep
<1>3. IncomingInv => Accounted
  BY DEF IncomingInv
<1> QED BY <1>1, <1>2, <1>3, PTL DEF IncomingSpec

-----------------------------------------------------------------------------
(***************************************************************************)
(* AckExact for digits of any base, files of any size that 64 bits hold    *)
(* and any cut of what is sent into pieces.                                *)
(*                                                                         *)
(* What has been sent is one stream of digits, and those on the way are    *)
(* its end (Arriving).  In the middle of a number the digits that came are *)
(* the new one's and the others still those of the number before (Joins):  *)
(* this makes a number of 32 bits whole, because the bot adds 2^32 only if *)
(* the new one seems to be less (Carry).  Whether it knows how the user    *)
(* counts is settled after two digits; if it is wrong then it stays wrong, *)
(* and this is what Recognised excludes (Untold, NarrowKnown).             *)
(***************************************************************************)

\* What is left when a number is divided.
LEMMA DivMod ==
  ASSUME NEW n \in Nat, NEW d \in Nat, d > 0
  PROVE  n \div d \in Nat /\ n % d \in 0..(d - 1) /\ n = (n \div d) * d + (n % d)
OBVIOUS

\* A quotient and a remainder that fit are those of the division.
LEMMA DivIs ==
  ASSUME NEW q \in Nat, NEW d \in Nat, NEW r \in 0..(d - 1)
  PROVE  (q * d + r) \div d = q /\ (q * d + r) % d = r
<1> DEFINE n == q * d + r
           p == n \div d
           s == n % d
<1>1. d > 0 /\ q * d \in Nat
  OBVIOUS
<1>2. n \in Nat /\ p \in Nat /\ s \in 0..(d - 1) /\ n = p * d + s
  BY <1>1
<1> HIDE DEF p, s
<1>3. ASSUME p < q PROVE FALSE
  <2>1. (p + 1) * d <= q * d
    BY <1>2, <1>3, TimesOrder
  <2>2. (p + 1) * d = p * d + d
    BY <1>2
  <2> QED BY <1>2, <2>1, <2>2
<1>4. ASSUME p > q PROVE FALSE
  <2>1. (q + 1) * d <= p * d
    BY <1>2, <1>4, TimesOrder
  <2>2. (q + 1) * d = q * d + d
    OBVIOUS
  <2> QED BY <1>1, <1>2, <2>1, <2>2
<1>5. p = q
  BY <1>2, <1>3, <1>4
<1> QED BY <1>2, <1>5 DEF p, s

-----------------------------------------------------------------------------
(* Digits *)

\* The number of these digits.
Num(x3, x2, x1, x0) == x3 * (Word * Base) + x2 * Word + x1 * Base + x0
Digits == 0..(Base - 1)
LongInt == 0..(Word * Word - 1)

\* The values of the places, and their order.
LEMMA Weights ==
  ASSUME AcksAssumption
  PROVE  /\ Base \in Nat /\ Base > 1 /\ Word \in Nat /\ Word >= 2 * Base /\ Word * Base \in Nat /\ Word * Word \in Nat
         /\ Power(0) = 1 /\ Power(1) = Base /\ Power(2) = Word /\ Power(3) = Word * Base
         /\ Word * Word = Base * (Word * Base) /\ Word * Base >= 2 * Word /\ Word * Word >= Word
<1>1. Base \in Nat /\ Base > 1
  BY DEF AcksAssumption
<1>2. 2 * Base <= Base * Base /\ Base * Base \in Nat
  BY <1>1, TimesOrder
<1>3. Word \in Nat /\ Word >= 2 * Base
  BY <1>2 DEF Word
<1>4. 2 * Word <= Base * Word /\ Base * Word \in Nat
  BY <1>1, <1>3, TimesOrder
<1>5. Base * Word = Word * Base
  BY <1>1, <1>3
<1>6. Word * Word = Base * (Word * Base) /\ Word * Word \in Nat
  BY <1>1, <1>3 DEF Word
<1>7. Power(0) = 1 /\ Power(1) = Base /\ Power(2) = Word /\ Power(3) = Word * Base
  BY DEF Power
<1>8. 1 * Word <= Word * Word
  <2>1. 1 \in Nat /\ 1 <= Word
    BY <1>1, <1>3
  <2> QED BY <1>3, <2>1, TimesOrder
<1> QED BY <1>1, <1>3, <1>4, <1>5, <1>6, <1>7, <1>8

\* A digit before a number of less.
LEMMA Place ==
  ASSUME AcksAssumption, NEW x \in Digits, NEW d \in Nat, NEW r \in 0..(d - 1)
  PROVE  x * d + r \in 0..(Base * d - 1) /\ x * d \in Nat
<1>1. Base \in Nat /\ x \in Nat /\ x + 1 \in Nat /\ x + 1 <= Base
  BY Weights DEF Digits
<1>2. (x + 1) * d <= Base * d /\ (x + 1) * d \in Nat /\ Base * d \in Nat
  BY <1>1, TimesOrder
<1>3. (x + 1) * d = x * d + d /\ x * d \in Nat
  BY <1>1
<1> QED BY <1>2, <1>3

\* A number cut at any of its places.
LEMMA NumParts ==
  ASSUME AcksAssumption, NEW x3 \in Digits, NEW x2 \in Digits, NEW x1 \in Digits, NEW x0 \in Digits
  PROVE  /\ Num(x3, x2, x1, x0) \in LongInt
         /\ x1 * Base + x0 \in 0..(Word - 1)
         /\ x2 * Word + (x1 * Base + x0) \in 0..(Word * Base - 1)
         /\ Num(x3, x2, x1, x0) = x3 * (Word * Base) + (x2 * Word + (x1 * Base + x0))
         /\ Num(x3, x2, x1, x0) = (x3 * Base + x2) * Word + (x1 * Base + x0)
         /\ Num(x3, x2, x1, x0) = (x3 * Word + x2 * Base + x1) * Base + x0
         /\ x3 * Base + x2 \in Nat /\ x3 * Word + x2 * Base + x1 \in Nat /\ x2 * Base + x1 \in 0..(Word - 1)
<1> USE Weights
<1>1. x0 \in 0..(Base - 1) /\ x3 \in Nat /\ x2 \in Nat /\ x1 \in Nat /\ x0 \in Nat
  BY DEF Digits
<1>2. x1 * Base + x0 \in 0..(Base * Base - 1)
  BY <1>1, Place
<1>3. x1 * Base + x0 \in 0..(Word - 1)
  BY <1>2 DEF Word
<1>4. x2 * Word + (x1 * Base + x0) \in 0..(Base * Word - 1)
  BY <1>3, Place
<1>5. Base * Word = Word * Base
  OBVIOUS
<1>6. x2 * Word + (x1 * Base + x0) \in 0..(Word * Base - 1)
  BY <1>4, <1>5
<1>7. x3 * (Word * Base) + (x2 * Word + (x1 * Base + x0)) \in 0..(Base * (Word * Base) - 1)
  BY <1>6, Place
<1>8. x3 * Base \in Nat /\ x2 * Base \in Nat /\ x3 * Word \in Nat /\ x2 * Word \in Nat /\ x1 * Base \in Nat /\ x3 * (Word * Base) \in Nat
  BY <1>1, Place
<1>9. /\ Num(x3, x2, x1, x0) = x3 * (Word * Base) + (x2 * Word + (x1 * Base + x0))
      /\ Num(x3, x2, x1, x0) = (x3 * Base + x2) * Word + (x1 * Base + x0)
  <2>1. (x3 * Base + x2) * Word = x3 * (Word * Base) + x2 * Word
    BY <1>1
  <2> QED BY <1>1, <1>8, <2>1 DEF Num
<1>10. Num(x3, x2, x1, x0) = (x3 * Word + x2 * Base + x1) * Base + x0
  <2>1. (x3 * Word + x2 * Base + x1) * Base = x3 * (Word * Base) + x2 * (Base * Base) + x1 * Base
    BY <1>1
  <2>2. x2 * (Base * Base) = x2 * Word
    BY DEF Word
  <2> QED BY <1>1, <1>8, <2>1, <2>2 DEF Num
<1>11. x2 * Base + x1 \in 0..(Base * Base - 1)
  BY <1>1, Place DEF Digits
<1>12. x2 * Base + x1 \in 0..(Word - 1)
  BY <1>11 DEF Word
<1>13. Num(x3, x2, x1, x0) \in LongInt
  BY <1>7, <1>9 DEF LongInt
<1> QED BY <1>1, <1>3, <1>6, <1>8, <1>9, <1>10, <1>12, <1>13

\* The digits of a number are those it was made of.
LEMMA NumDigits ==
  ASSUME AcksAssumption, NEW x3 \in Digits, NEW x2 \in Digits, NEW x1 \in Digits, NEW x0 \in Digits
  PROVE  LET n == Num(x3, x2, x1, x0)
         IN /\ Digit(n, 0) = x0 /\ Digit(n, 1) = x1 /\ Digit(n, 2) = x2 /\ Digit(n, 3) = x3
            /\ n \div Word = x3 * Base + x2 /\ n % Word = x1 * Base + x0
<1> DEFINE n == Num(x3, x2, x1, x0)
           l == x1 * Base + x0
           m == x2 * Word + l
           u == x3 * Base + x2
           t == x3 * Word + x2 * Base + x1
<1> USE Weights
<1>1. /\ n \in LongInt /\ l \in 0..(Word - 1) /\ m \in 0..(Word * Base - 1)
      /\ n = x3 * (Word * Base) + m /\ n = u * Word + l /\ n = t * Base + x0
      /\ u \in Nat /\ t \in Nat /\ x2 * Base + x1 \in 0..(Word - 1)
  BY NumParts
<1>2. x3 \in Nat /\ x2 \in Nat /\ x1 \in Nat /\ x0 \in Nat /\ x0 < Base /\ x1 < Base /\ x2 < Base /\ x3 < Base
  BY DEF Digits
<1>3. t = u * Base + x1
  <2>1. u * Base = x3 * (Base * Base) + x2 * Base
    BY <1>2
  <2>2. x3 * (Base * Base) = x3 * Word
    BY DEF Word
  <2> QED BY <1>2, <2>1, <2>2
<1> HIDE DEF n, l, m, u, t
<1>4. n \div Word = u /\ n % Word = l
  <2>0. u \in Nat /\ Word \in Nat /\ l \in 0..(Word - 1)
    BY <1>1
  <2>1. (u * Word + l) \div Word = u /\ (u * Word + l) % Word = l
    BY ONLY <2>0, DivIs
  <2> QED BY <1>1, <2>1
<1>5. n \div Base = t /\ n % Base = x0
  <2>0. t \in Nat /\ Base \in Nat /\ x0 \in 0..(Base - 1)
    BY <1>1, <1>2
  <2>1. (t * Base + x0) \div Base = t /\ (t * Base + x0) % Base = x0
    BY ONLY <2>0, DivIs
  <2> QED BY <1>1, <2>1
<1>6. n \div (Word * Base) = x3
  <2>0. x3 \in Nat /\ Word * Base \in Nat /\ m \in 0..(Word * Base - 1)
    BY <1>1, <1>2
  <2>1. (x3 * (Word * Base) + m) \div (Word * Base) = x3
    BY ONLY <2>0, DivIs
  <2> QED BY <1>1, <2>1
<1>7. u % Base = x2
  <2>0. x3 \in Nat /\ Base \in Nat /\ x2 \in 0..(Base - 1)
    BY <1>2
  <2>1. (x3 * Base + x2) % Base = x2
    BY ONLY <2>0, DivIs
  <2> QED BY <2>1 DEF u
<1>8. t % Base = x1
  <2>0. u \in Nat /\ Base \in Nat /\ x1 \in 0..(Base - 1)
    BY <1>1, <1>2
  <2>1. (u * Base + x1) % Base = x1
    BY ONLY <2>0, DivIs
  <2> QED BY <1>3, <2>1
<1>9. x3 % Base = x3
  <2>0. 0 \in Nat /\ Base \in Nat /\ x3 \in 0..(Base - 1)
    BY <1>2
  <2>1. (0 * Base + x3) % Base = x3
    BY ONLY <2>0, DivIs
  <2> QED BY <1>2, <2>1
<1>10. n \div 1 = n
  BY <1>1 DEF LongInt
<1>11. Digit(n, 0) = x0 /\ Digit(n, 1) = x1 /\ Digit(n, 2) = x2 /\ Digit(n, 3) = x3
  BY <1>4, <1>5, <1>6, <1>7, <1>8, <1>9, <1>10 DEF Digit
<1> QED BY <1>4, <1>11 DEF n, l, u

\* Every number of 64 bits is made of four digits.
LEMMA DigitsNum ==
  ASSUME AcksAssumption, NEW v \in LongInt
  PROVE  \E x3, x2, x1, x0 \in Digits : v = Num(x3, x2, x1, x0)
<1> DEFINE p1 == v \div Base
           p2 == p1 \div Base
           p3 == p2 \div Base
           a == v % Base
           b == p1 % Base
           c == p2 % Base
<1> USE Weights
<1>1. v \in Nat /\ v < Word * Word
  BY DEF LongInt
<1>2. a \in Digits /\ v = p1 * Base + a /\ p1 \in Nat
  <2>1. v \in Nat /\ Base \in Nat /\ Base > 0
    BY <1>1
  <2>2. p1 \in Nat /\ a \in 0..(Base - 1) /\ v = p1 * Base + a
    BY ONLY <2>1, DivMod
  <2> QED BY <2>2 DEF Digits
<1> HIDE DEF p1, a
<1>3. b \in Digits /\ p1 = p2 * Base + b /\ p2 \in Nat
  BY <1>2 DEF Digits
<1> HIDE DEF p2, b
<1>4. c \in Digits /\ p2 = p3 * Base + c /\ p3 \in Nat
  BY <1>3 DEF Digits
<1> HIDE DEF p3, c
<1>5. a \in Nat /\ b \in Nat /\ c \in Nat
  BY <1>2, <1>3, <1>4 DEF Digits
<1>6. v = p3 * (Word * Base) + c * Word + b * Base + a
  <2>1. v = ((p3 * Base + c) * Base + b) * Base + a
    BY <1>2, <1>3, <1>4
  <2>2. ((p3 * Base + c) * Base + b) * Base + a = p3 * ((Base * Base) * Base) + c * (Base * Base) + b * Base + a
    BY <1>4, <1>5
  <2> QED BY <2>1, <2>2 DEF Word
<1>7. p3 < Base
  <2> SUFFICES ASSUME p3 >= Base PROVE FALSE
    BY <1>4
  <2>1. Base * (Word * Base) <= p3 * (Word * Base)
    BY <1>4, TimesOrder
  <2>2. c * Word \in Nat /\ b * Base \in Nat /\ p3 * (Word * Base) \in Nat
    BY <1>4, <1>5
  <2> QED BY <1>1, <1>5, <1>6, <2>1, <2>2
<1>8. p3 \in Digits
  BY <1>4, <1>7 DEF Digits
<1> QED BY <1>2, <1>3, <1>4, <1>6, <1>8 DEF Num

\* A number is what its digits make, and its upper half and its lower.
LEMMA Decomposed ==
  ASSUME AcksAssumption, NEW v \in LongInt
  PROVE  /\ \A k \in 0..3 : Digit(v, k) \in Digits
         /\ v = Num(Digit(v, 3), Digit(v, 2), Digit(v, 1), Digit(v, 0))
         /\ v \div Word = Digit(v, 3) * Base + Digit(v, 2)
         /\ v % Word = Digit(v, 1) * Base + Digit(v, 0)
         /\ v = (v \div Word) * Word + (v % Word)
         /\ v \div Word \in 0..(Word - 1) /\ v % Word \in 0..(Word - 1)
<1>1. PICK x3 \in Digits, x2 \in Digits, x1 \in Digits, x0 \in Digits : v = Num(x3, x2, x1, x0)
  BY DigitsNum
<1>2. /\ Digit(v, 0) = x0 /\ Digit(v, 1) = x1 /\ Digit(v, 2) = x2 /\ Digit(v, 3) = x3
      /\ v \div Word = x3 * Base + x2 /\ v % Word = x1 * Base + x0
  BY <1>1, NumDigits
<1>3. \A k \in 0..3 : Digit(v, k) \in Digits
  <2> SUFFICES ASSUME NEW k \in 0..3 PROVE Digit(v, k) \in Digits
    OBVIOUS
  <2>1. k = 0 \/ k = 1 \/ k = 2 \/ k = 3
    OBVIOUS
  <2> QED BY <1>2, <2>1
<1>4. /\ Num(x3, x2, x1, x0) = (x3 * Base + x2) * Word + (x1 * Base + x0)
      /\ x1 * Base + x0 \in 0..(Word - 1)
  BY NumParts
<1>5. x3 * Base + x2 \in 0..(Word - 1)
  BY NumParts
<1> QED BY <1>1, <1>2, <1>3, <1>4, <1>5

\* Numbers with the same digits are the same.
LEMMA SameDigits ==
  ASSUME AcksAssumption, NEW v \in LongInt, NEW w \in LongInt, \A k \in 0..3 : Digit(v, k) = Digit(w, k)
  PROVE  v = w
<1>1. /\ v = Num(Digit(v, 3), Digit(v, 2), Digit(v, 1), Digit(v, 0))
      /\ w = Num(Digit(w, 3), Digit(w, 2), Digit(w, 1), Digit(w, 0))
  BY Decomposed
<1>2. 0 \in 0..3 /\ 1 \in 0..3 /\ 2 \in 0..3 /\ 3 \in 0..3
  OBVIOUS
<1> QED BY ONLY <1>1, <1>2, \A k \in 0..3 : Digit(v, k) = Digit(w, k)

\* A digit takes its place.
LEMMA PutDigit ==
  ASSUME AcksAssumption, NEW c \in LongInt, NEW k \in 0..3, NEW y \in Digits
  PROVE  LET d == c - Digit(c, k) * Power(k) + y * Power(k)
         IN d \in LongInt /\ \A j \in 0..3 : Digit(d, j) = IF j = k THEN y ELSE Digit(c, j)
<1> DEFINE d == c - Digit(c, k) * Power(k) + y * Power(k)
           x == [j \in 0..3 |-> Digit(c, j)]
           z == [j \in 0..3 |-> IF j = k THEN y ELSE x[j]]
<1>1. /\ x[0] \in Digits /\ x[1] \in Digits /\ x[2] \in Digits /\ x[3] \in Digits
      /\ c = Num(x[3], x[2], x[1], x[0])
  BY Decomposed
<1>2. z[0] \in Digits /\ z[1] \in Digits /\ z[2] \in Digits /\ z[3] \in Digits
  BY <1>1
<1>3. x[0] \in Nat /\ x[1] \in Nat /\ x[2] \in Nat /\ x[3] \in Nat /\ y \in Nat
  BY <1>1 DEF Digits
<1>4. k = 0 \/ k = 1 \/ k = 2 \/ k = 3
  OBVIOUS
<1>5. Digit(c, k) = x[k]
  OBVIOUS
<1>6. d = Num(z[3], z[2], z[1], z[0])
  <2>1. c = x[3] * Power(3) + x[2] * Power(2) + x[1] * Power(1) + x[0] * Power(0)
    BY <1>1, <1>3, Weights DEF Num
  <2>2. Num(z[3], z[2], z[1], z[0]) = z[3] * Power(3) + z[2] * Power(2) + z[1] * Power(1) + z[0] * Power(0)
    BY <1>2, Weights DEF Num, Digits
  <2>3. Power(0) \in Nat /\ Power(1) \in Nat /\ Power(2) \in Nat /\ Power(3) \in Nat
    BY Weights
  <2> DEFINE t0 == x[0] * Power(0)
             t1 == x[1] * Power(1)
             t2 == x[2] * Power(2)
             t3 == x[3] * Power(3)
             t == y * Power(k)
  <2>4. t0 \in Int /\ t1 \in Int /\ t2 \in Int /\ t3 \in Int /\ t \in Int
    BY <1>3, <1>4, <2>3
  <2>5. d = c - x[k] * Power(k) + t
    BY <1>5
  <2>6. CASE k = 0
    <3>1. z[0] = y /\ z[1] = x[1] /\ z[2] = x[2] /\ z[3] = x[3]
      BY <2>6
    <3> HIDE DEF d, x, z
    <3>2. c = t3 + t2 + t1 + t0 /\ d = c - t0 + t
      BY <2>1, <2>5, <2>6
    <3>3. Num(z[3], z[2], z[1], z[0]) = t3 + t2 + t1 + t
      BY <2>2, <2>6, <3>1
    <3> HIDE DEF t, t0, t1, t2, t3
    <3> QED BY <2>4, <3>2, <3>3
  <2>7. CASE k = 1
    <3>1. z[0] = x[0] /\ z[1] = y /\ z[2] = x[2] /\ z[3] = x[3]
      BY <2>7
    <3> HIDE DEF d, x, z
    <3>2. c = t3 + t2 + t1 + t0 /\ d = c - t1 + t
      BY <2>1, <2>5, <2>7
    <3>3. Num(z[3], z[2], z[1], z[0]) = t3 + t2 + t + t0
      BY <2>2, <2>7, <3>1
    <3> HIDE DEF t, t0, t1, t2, t3
    <3> QED BY <2>4, <3>2, <3>3
  <2>8. CASE k = 2
    <3>1. z[0] = x[0] /\ z[1] = x[1] /\ z[2] = y /\ z[3] = x[3]
      BY <2>8
    <3> HIDE DEF d, x, z
    <3>2. c = t3 + t2 + t1 + t0 /\ d = c - t2 + t
      BY <2>1, <2>5, <2>8
    <3>3. Num(z[3], z[2], z[1], z[0]) = t3 + t + t1 + t0
      BY <2>2, <2>8, <3>1
    <3> HIDE DEF t, t0, t1, t2, t3
    <3> QED BY <2>4, <3>2, <3>3
  <2>9. CASE k = 3
    <3>1. z[0] = x[0] /\ z[1] = x[1] /\ z[2] = x[2] /\ z[3] = y
      BY <2>9
    <3> HIDE DEF d, x, z
    <3>2. c = t3 + t2 + t1 + t0 /\ d = c - t3 + t
      BY <2>1, <2>5, <2>9
    <3>3. Num(z[3], z[2], z[1], z[0]) = t + t2 + t1 + t0
      BY <2>2, <2>9, <3>1
    <3> HIDE DEF t, t0, t1, t2, t3
    <3> QED BY <2>4, <3>2, <3>3
  <2> HIDE DEF d, z
  <2> QED BY <1>4, <2>6, <2>7, <2>8, <2>9
<1> HIDE DEF d, z
<1>7. d \in LongInt
  BY <1>2, <1>6, NumParts
<1>8. Digit(d, 0) = z[0] /\ Digit(d, 1) = z[1] /\ Digit(d, 2) = z[2] /\ Digit(d, 3) = z[3]
  BY <1>2, <1>6, NumDigits
<1>9. \A j \in 0..3 : Digit(d, j) = z[j]
  <2> SUFFICES ASSUME NEW j \in 0..3 PROVE Digit(d, j) = z[j]
    OBVIOUS
  <2>1. j = 0 \/ j = 1 \/ j = 2 \/ j = 3
    OBVIOUS
  <2> QED BY <1>8, <2>1
<1>10. \A j \in 0..3 : z[j] = IF j = k THEN y ELSE Digit(c, j)
  BY DEF z
<1> QED BY <1>7, <1>9, <1>10 DEF d

\* The upper digits of the number before and the lower ones of this make this number, with
\* a carry if they seem to be less.
LEMMA Carry ==
  ASSUME AcksAssumption, NEW prev \in LongInt, NEW cur \in LongInt, prev <= cur, cur - prev < Word,
         NEW c, c = (prev \div Word) * Word + (cur % Word)
  PROVE  /\ c < prev => c + ((prev - c + Word - 1) \div Word) * Word = cur
         /\ c >= prev => c = cur
         /\ c \in Nat
<1> DEFINE q == prev \div Word
           a == prev % Word
           s == cur \div Word
           b == cur % Word
           W == Word
<1>1. /\ W \in Nat /\ W > 0 /\ prev \in Nat /\ cur \in Nat
  BY Weights DEF LongInt
<1>2. /\ q \in Nat /\ a \in 0..(W - 1) /\ prev = q * W + a
      /\ s \in Nat /\ b \in 0..(W - 1) /\ cur = s * W + b
  BY Decomposed, <1>1
<1>3. c = q * W + b
  OBVIOUS
<1> HIDE DEF q, a, s, b, W
<1>4. s >= q
  <2> SUFFICES ASSUME s < q PROVE FALSE
    BY <1>2
  <2>1. (s + 1) * W <= q * W
    BY <1>1, <1>2, TimesOrder
  <2>2. (s + 1) * W = s * W + W /\ s * W \in Nat /\ q * W \in Nat
    BY <1>1, <1>2
  <2> QED BY <1>1, <1>2, <2>1, <2>2
<1>5. s <= q + 1
  <2> SUFFICES ASSUME s > q + 1 PROVE FALSE
    BY <1>2
  <2>1. (q + 2) * W <= s * W
    BY <1>1, <1>2, TimesOrder
  <2>2. (q + 2) * W = q * W + 2 * W /\ s * W \in Nat /\ q * W \in Nat
    BY <1>1, <1>2
  <2>3. cur - prev < W
    BY DEF W
  <2> QED BY <1>1, <1>2, <2>1, <2>2, <2>3
<1>6. q * W \in Nat
  BY <1>1, <1>2
<1>7. CASE s = q
  BY <1>1, <1>2, <1>3, <1>6, <1>7
<1>8. CASE s = q + 1
  <2>1. s * W = q * W + W
    BY <1>1, <1>2, <1>8
  <2>2. cur - prev < W
    BY DEF W
  <2>3. b < a
    BY <1>1, <1>2, <1>6, <2>1, <2>2
  <2>4. a - b - 1 \in 0..(W - 1) /\ 1 \in Nat
    BY <1>1, <1>2, <2>3
  <2>5. (1 * W + (a - b - 1)) \div W = 1
    BY ONLY <1>1, <2>4, DivIs
  <2>6. 1 * W + (a - b - 1) = prev - c + W - 1
    BY <1>1, <1>2, <1>3, <1>6
  <2>7. c + W = cur /\ c < prev /\ c \in Nat
    BY <1>1, <1>2, <1>3, <1>6, <2>1, <2>3
  <2>8. ((prev - c + W - 1) \div W) * W = W
    BY <1>1, <2>5, <2>6
  <2>9. c + ((prev - c + W - 1) \div W) * W = cur
    BY <2>7, <2>8
  <2> QED BY <1>1, <2>7, <2>9 DEF W
<1> QED BY <1>2, <1>4, <1>5, <1>7, <1>8

\* One below 2^32 has no upper half.
LEMMA LowWord ==
  ASSUME AcksAssumption, NEW v \in LongInt, v < Word
  PROVE  v \div Word = 0 /\ v % Word = v
<1>1. 0 \in Nat /\ Word \in Nat /\ v \in 0..(Word - 1)
  BY Weights DEF LongInt
<1>2. (0 * Word + v) \div Word = 0 /\ (0 * Word + v) % Word = v
  BY ONLY <1>1, DivIs
<1>3. 0 * Word + v = v
  BY <1>1
<1> QED BY <1>2, <1>3

\* Zero has no digit.
LEMMA NoDigits ==
  ASSUME AcksAssumption
  PROVE  0 \in LongInt /\ 0 \in Digits /\ \A k \in 0..3 : Digit(0, k) = 0
<1>1. 0 \in LongInt /\ 0 \in Digits
  BY Weights DEF LongInt, Digits
<1>2. Num(0, 0, 0, 0) = 0
  BY Weights DEF Num
<1>3. Digit(0, 0) = 0 /\ Digit(0, 1) = 0 /\ Digit(0, 2) = 0 /\ Digit(0, 3) = 0
  BY <1>1, <1>2, NumDigits
<1>4. \A k \in 0..3 : k = 0 \/ k = 1 \/ k = 2 \/ k = 3
  OBVIOUS
<1> QED BY <1>1, <1>3, <1>4

-----------------------------------------------------------------------------
(* Acknowledgements: what is known of the numbers and of the fields *)

Width == IF download.wide THEN 4 ELSE 2
\* The digit at the place p of everything that was sent.
Stream(p) == Digit(acks[(p \div Width) + 1], Width - 1 - (p % Width))
Before(n) == IF n = 0 THEN 0 ELSE acks[n]

\* The numbers never fall, and those of 32 bits never leave out as much as these hold.
Rising ==
  /\ download.size \in Size /\ download.start \in 0..(download.size - 1)
  /\ download.wide \in BOOLEAN /\ (download.wide => IsLarge)
  /\ acks \in Seq(1..download.size)
  /\ acks # <<>> => /\ download.start <= acks[1]
                    /\ download.wide \/ acks[1] - download.start < Word
  /\ \A i \in 1..(Len(acks) - 1) :
       acks[i] <= acks[i + 1] /\ (download.wide \/ acks[i + 1] - acks[i] < Word)
Arriving ==
  /\ onWay \in Seq(0..(Base - 1))
  /\ decoder.bytesgot + Len(onWay) = Width * Len(acks)
  /\ \A k \in 1..Len(onWay) : onWay[k] = Stream(decoder.bytesgot + k - 1)

Decoder == [mirc_dcc64 : BOOLEAN, curack : Int, firstack : Int, lastack : Int, bytesgot : Nat]

\* curack has the digits of the number that is read as far as they came, then those of
\* the one before; top: where its first digit goes.
Joins(d, top) ==
  LET n == d.bytesgot \div Width
      r == d.bytesgot % Width
  IN /\ d.curack \in 0..(Word * Word - 1)
     /\ \A k \in 0..3 : Digit(d.curack, k) = IF k < top /\ k >= top - r THEN Digit(acks[n + 1], k + Width - top)
                                             ELSE Digit(Before(n), k)
Said(d) == d.bytesgot \div Width >= 1 => d.lastack = acks[d.bytesgot \div Width]

\* A user who counts in 64 bits, once the bot knows.
Wide(d) ==
  /\ Joins(d, 4) /\ Said(d)
  /\ d.bytesgot < 4 => \/ d.lastack = download.start
                       \/ d.bytesgot >= 2 /\ d.lastack = (acks[1] \div Word) * Word
\* Before it knows; a bot that does not find out never will.
Untold(d) ==
  \/ d.bytesgot < 2 /\ d.firstack = 0 /\ d.lastack = download.start /\ Joins(d, 2)
  \/ d.bytesgot >= 2 /\ d.firstack # 0 /\ acks[1] \div Word > download.start
Narrow(d) ==
  /\ ~d.mirc_dcc64 /\ Joins(d, 2) /\ Said(d)
  /\ d.bytesgot < 2 => d.firstack = 0 /\ d.lastack = download.start
  /\ d.bytesgot >= 2 => d.firstack # 0
NarrowKnown == ~IsLarge \/ acks = <<>> \/ (download.start < acks[1] /\ acks[1] < Word)
Decoded(d) ==
  /\ d \in Decoder
  /\ IF ~download.wide THEN NarrowKnown => Narrow(d)
     ELSE IF d.mirc_dcc64 THEN Wide(d) ELSE Untold(d)
AckInv == Rising /\ Arriving /\ Decoded(decoder)

\* All numbers that are said fit into 64 bits, those about a small file into 32.
LEMMA Spans ==
  ASSUME AcksAssumption, Rising
  PROVE  /\ download.size \in LongInt /\ download.start \in LongInt /\ Len(acks) \in Nat
         /\ \A i \in 1..Len(acks) : acks[i] \in LongInt /\ acks[i] <= download.size
         /\ ~IsLarge => \A i \in 1..Len(acks) : acks[i] < Word
         /\ \A n \in 0..Len(acks) : Before(n) \in LongInt
<1> DEFINE z == download.size
<1>0. /\ z \in Size /\ download.start \in 0..(z - 1) /\ acks \in Seq(1..z)
      /\ Large \subseteq Word..(Word * Word - 1)
  BY DEF Rising, AcksAssumption
<1> HIDE DEF z
<1>1. z \in 0..(Word * Word - 1)
  <2>1. Word \in Nat /\ Word > 0 /\ Word * Word \in Nat /\ Word <= Word * Word
    BY Weights
  <2>2. CASE z \in Large
    BY <1>0, <2>1, <2>2
  <2>3. CASE z = Word - 1
    BY <2>1, <2>3
  <2> QED BY <1>0, <2>2, <2>3 DEF Size
<1>2. download.start \in 0..(Word * Word - 1)
  <2> DEFINE M == Word * Word - 1
  <2>1. M \in Int /\ z \in 0..M
    BY <1>1, Weights
  <2> HIDE DEF M
  <2>2. download.start \in 0..M
    BY ONLY <1>0, <2>1
  <2> QED BY <2>2 DEF M
<1>3. \A i \in 1..Len(acks) : acks[i] \in 1..z
  <2> DEFINE S == 1..z
  <2>1. acks \in Seq(S)
    BY <1>0
  <2> HIDE DEF S
  <2>2. \A i \in 1..Len(acks) : acks[i] \in S
    BY <2>1
  <2> QED BY <2>2 DEF S
<1>4. \A i \in 1..Len(acks) : acks[i] \in 0..(Word * Word - 1) /\ acks[i] <= z
  <2> DEFINE M == Word * Word
  <2>1. M \in Nat
    BY Weights
  <2> HIDE DEF M
  <2>2. z \in 0..(M - 1)
    BY <1>1 DEF M
  <2>3. \A i \in 1..Len(acks) : acks[i] \in 0..(M - 1) /\ acks[i] <= z
    BY ONLY <1>3, <2>1, <2>2
  <2> QED BY <2>3 DEF M
<1>5. ~IsLarge => \A i \in 1..Len(acks) : acks[i] < Word
  <2>1. ~IsLarge <=> ~(z >= Word)
    BY DEF IsLarge, z
  <2>2. Word \in Nat /\ z \in Nat
    BY <1>1, Weights
  <2> QED BY <1>3, <2>1, <2>2
<1>6. \A n \in 0..Len(acks) : Before(n) \in LongInt
  BY <1>4, NoDigits DEF Before, LongInt
<1>7. Len(acks) \in Nat
  BY DEF Rising
<1> QED BY <1>1, <1>2, <1>4, <1>5, <1>6, <1>7 DEF LongInt, z

PlaceOf(d) == IF d.mirc_dcc64 THEN 3 - (d.bytesgot % 4) ELSE 1 - (d.bytesgot % 2)
Taken(d, y) == d.curack - Digit(d.curack, PlaceOf(d)) * Power(PlaceOf(d)) + y * Power(PlaceOf(d))

\* The fields of the transfer.
LEMMA DecoderIs ==
  ASSUME NEW d \in Decoder
  PROVE  /\ d.mirc_dcc64 \in BOOLEAN /\ d.curack \in Int /\ d.firstack \in Int /\ d.lastack \in Int /\ d.bytesgot \in Nat
         /\ PlaceOf(d) \in 0..3
<1>1. /\ d.mirc_dcc64 \in BOOLEAN /\ d.curack \in Int /\ d.firstack \in Int /\ d.lastack \in Int /\ d.bytesgot \in Nat
  BY DEF Decoder
<1>2. d.bytesgot % 4 \in 0..3 /\ d.bytesgot % 2 \in 0..1
  BY <1>1
<1> QED BY <1>1, <1>2 DEF PlaceOf

\* What verify_acknowlede makes of a transfer whose number is c.
FirstOf(d, c) == IF d.firstack # 0 THEN d.firstack ELSE IF c = 0 THEN 64 ELSE c
Widens(d, c) == d.firstack = 0 /\ IsLarge /\ c <= download.start
Carried(d, c) ==
  IF IsLarge /\ c < d.lastack THEN c + ((d.lastack - c + Word - 1) \div Word) * Word ELSE c

\* The parts of what Put makes.
LEMMA PutParts ==
  ASSUME AcksAssumption, NEW d \in Decoder, NEW y \in Digits
  PROVE  LET e == Put(d, y)
             c == Taken(d, y)
         IN /\ e \in Decoder /\ e.bytesgot = d.bytesgot + 1
            /\ PlaceOf(d) # 0 => /\ e.mirc_dcc64 = d.mirc_dcc64 /\ e.curack = c /\ e.firstack = d.firstack
                                 /\ e.lastack = d.lastack
            /\ PlaceOf(d) = 0 /\ d.mirc_dcc64 =>
                 e.mirc_dcc64 = TRUE /\ e.curack = c /\ e.firstack = d.firstack /\ e.lastack = c
            /\ PlaceOf(d) = 0 /\ ~d.mirc_dcc64 /\ Widens(d, c) =>
                 /\ e.mirc_dcc64 = TRUE /\ e.curack = c * Word /\ e.firstack = FirstOf(d, c)
                 /\ e.lastack = c * Word
            /\ PlaceOf(d) = 0 /\ ~d.mirc_dcc64 /\ ~Widens(d, c) =>
                 /\ e.mirc_dcc64 = FALSE /\ e.curack = Carried(d, c) /\ e.firstack = FirstOf(d, c)
                 /\ e.lastack = Carried(d, c)
<1> DEFINE k == PlaceOf(d)
           c == Taken(d, y)
           p == [d EXCEPT !.curack = c]
           v == verify_acknowlede(p)
           w == IF k = 0 THEN v ELSE p
           e == Put(d, y)
<1>1. d.mirc_dcc64 \in BOOLEAN /\ d.curack \in Int /\ d.firstack \in Int /\ d.lastack \in Int /\ d.bytesgot \in Nat /\ k \in 0..3
  BY DecoderIs
<1>2. c \in Int
  <2>1. Power(k) \in Nat /\ Power(k) > 0
    <3>1. k = 0 \/ k = 1 \/ k = 2 \/ k = 3
      BY <1>1
    <3>2. Word * Base > 0
      BY Weights
    <3> HIDE DEF k
    <3> QED BY <3>1, <3>2, Weights
  <2>2. Digit(d.curack, k) \in Int
    <3>1. d.curack \div Power(k) \in Int
      BY <1>1, <2>1
    <3> HIDE DEF k
    <3> QED BY <3>1, Weights DEF Digit
  <2>3. Digit(d.curack, k) * Power(k) \in Int /\ y * Power(k) \in Int
    BY <2>1, <2>2, Weights DEF Digits
  <2> HIDE DEF k
  <2> QED BY <1>1, <2>3 DEF Taken, k
<1>3. e = [w EXCEPT !.lastack = IF k = 0 THEN w.curack ELSE @, !.bytesgot = @ + 1]
  BY DEF Put, Taken, PlaceOf
<1> HIDE DEF k, c
<1>4. p \in Decoder /\ p.mirc_dcc64 = d.mirc_dcc64 /\ p.curack = c /\ p.firstack = d.firstack /\ p.lastack = d.lastack /\ p.bytesgot = d.bytesgot
  BY <1>2 DEF Decoder
<1>5. /\ FirstOf(d, c) \in Int
      /\ c * Word \in Int
      /\ Carried(d, c) \in Int
  <2>1. Word \in Nat /\ Word > 0
    BY Weights
  <2>2. FirstOf(d, c) \in Int /\ c * Word \in Int
    BY <1>1, <1>2, <2>1 DEF FirstOf
  <2>3. (d.lastack - c + Word - 1) \div Word \in Int
    BY <1>1, <1>2, <2>1
  <2>4. ((d.lastack - c + Word - 1) \div Word) * Word \in Int
    BY <2>1, <2>3
  <2> QED BY <1>2, <2>2, <2>4 DEF Carried
<1>6. /\ v \in Decoder /\ v.lastack = d.lastack /\ v.bytesgot = d.bytesgot
      /\ d.mirc_dcc64 => v.mirc_dcc64 = TRUE /\ v.curack = c /\ v.firstack = d.firstack
      /\ ~d.mirc_dcc64 /\ Widens(d, c) => v.mirc_dcc64 = TRUE /\ v.curack = c * Word /\ v.firstack = FirstOf(d, c)
      /\ ~d.mirc_dcc64 /\ ~Widens(d, c) => v.mirc_dcc64 = FALSE /\ v.curack = Carried(d, c) /\ v.firstack = FirstOf(d, c)
  <2> HIDE DEF p
  <2> DEFINE f == FirstOf(d, c)
             x == Carried(d, c)
             m == c * Word
  <2>1. CASE d.mirc_dcc64
    BY <1>1, <1>4, <2>1 DEF verify_acknowlede
  <2>2. Wider(p) <=> Widens(d, c)
    BY <1>4 DEF Wider, Widens
  <2>3. Extended(p) = x /\ p.curack * Word = m
    BY <1>4 DEF Extended, Carried
  <2>4. f = IF p.firstack # 0 THEN p.firstack ELSE IF p.curack = 0 THEN 64 ELSE p.curack
    BY <1>4 DEF FirstOf
  <2>5. v = IF p.mirc_dcc64 THEN p
            ELSE IF Wider(p) THEN [p EXCEPT !.mirc_dcc64 = TRUE, !.curack = m, !.firstack = f]
            ELSE [p EXCEPT !.curack = x, !.firstack = f]
    BY <2>3, <2>4 DEF verify_acknowlede
  <2>6. f \in Int /\ x \in Int /\ m \in Int
    BY <1>5
  <2> HIDE DEF f, x, m, v
  <2>7. CASE ~d.mirc_dcc64 /\ Widens(d, c)
    BY <1>1, <1>4, <2>2, <2>5, <2>6, <2>7 DEF Decoder, f, m
  <2>8. CASE ~d.mirc_dcc64 /\ ~Widens(d, c)
    <3>1. v = [p EXCEPT !.curack = x, !.firstack = f]
      BY <1>4, <2>2, <2>5, <2>8
    <3>2. v \in Decoder /\ v.lastack = d.lastack /\ v.bytesgot = d.bytesgot
      BY <1>4, <2>6, <3>1 DEF Decoder
    <3>3. v.mirc_dcc64 = FALSE /\ v.curack = x /\ v.firstack = f
      BY <1>1, <1>4, <2>8, <3>1 DEF Decoder
    <3> QED BY <2>8, <3>2, <3>3 DEF f, x
  <2> QED BY <1>1, <2>1, <2>7, <2>8
<1> HIDE DEF p, v
<1>7. w \in Decoder
  BY <1>4, <1>6
<1>8. w.bytesgot = d.bytesgot /\ w.lastack = d.lastack
  BY <1>4, <1>6
<1> HIDE DEF w
<1>9. /\ e \in Decoder /\ e.bytesgot = d.bytesgot + 1
      /\ e.mirc_dcc64 = w.mirc_dcc64 /\ e.curack = w.curack /\ e.firstack = w.firstack
      /\ e.lastack = IF k = 0 THEN w.curack ELSE d.lastack
  <2>1. w.curack \in Int /\ w.bytesgot \in Nat /\ d.lastack \in Int
    BY <1>1, <1>7 DEF Decoder
  <2> HIDE DEF e
  <2> DEFINE l == IF k = 0 THEN w.curack ELSE w.lastack
             g == w.bytesgot + 1
  <2>3. l \in Int /\ g \in Nat
    BY <1>8, <2>1
  <2>4. e = [w EXCEPT !.lastack = l, !.bytesgot = g]
    BY <1>3
  <2>5. l = IF k = 0 THEN w.curack ELSE d.lastack
    BY <1>8
  <2> HIDE DEF l, g
  <2>2. e \in Decoder /\ e.lastack = l /\ e.bytesgot = g
    BY <1>7, <2>3, <2>4 DEF Decoder
  <2>6. e.mirc_dcc64 = w.mirc_dcc64 /\ e.curack = w.curack /\ e.firstack = w.firstack
    BY <1>7, <2>4 DEF Decoder
  <2> QED BY <1>8, <2>2, <2>5, <2>6 DEF g
<1> HIDE DEF e
<1>10. CASE k # 0
  <2>1. w = p
    BY <1>10 DEF w
  <2> QED BY <1>4, <1>9, <1>10, <2>1 DEF e, k, c
<1>11. CASE k = 0
  <2>1. w = v
    BY <1>11 DEF w
  <2> QED BY <1>6, <1>9, <1>11, <2>1 DEF e, k, c
<1> QED BY <1>10, <1>11

-----------------------------------------------------------------------------
(* Acknowledgements: one digit *)

\* A number as it is joined from two, once g digits have come in.
JoinedAt(c, g, top) ==
  LET n == g \div Width
      r == g % Width
  IN /\ c \in LongInt
     /\ \A k \in 0..3 : Digit(c, k) = IF k < top /\ k >= top - r THEN Digit(acks[n + 1], k + Width - top)
                                      ELSE Digit(Before(n), k)

\* Only the number and how much was read count.
LEMMA JoinsIs ==
  ASSUME NEW d, NEW top
  PROVE  Joins(d, top) <=> JoinedAt(d.curack, d.bytesgot, top)
BY DEF Joins, JoinedAt, LongInt

\* Where a number begins and how far it came.
LEMMA Turn ==
  ASSUME NEW g \in Nat, NEW w \in {2, 4}
  PROVE  /\ g \div w \in Nat /\ g % w \in 0..(w - 1) /\ g = (g \div w) * w + (g % w)
         /\ g % w < w - 1 => (g + 1) \div w = g \div w /\ (g + 1) % w = (g % w) + 1
         /\ g % w = w - 1 => (g + 1) \div w = (g \div w) + 1 /\ (g + 1) % w = 0
<1>1. CASE w = 2
  BY <1>1
<1>2. CASE w = 4
  BY <1>2
<1> QED BY <1>1, <1>2

\* The digit that comes next.
LEMMA StreamDigit ==
  ASSUME AcksAssumption, Rising, NEW g \in Nat, g < Width * Len(acks)
  PROVE  /\ g \div Width \in 0..(Len(acks) - 1) /\ acks[(g \div Width) + 1] \in LongInt
         /\ (g \div Width) + 1 \in 1..Len(acks)
         /\ Stream(g) \in Digits /\ Stream(g) = Digit(acks[(g \div Width) + 1], Width - 1 - (g % Width))
         /\ Before(g \div Width) \in LongInt
<1>1. Width \in {2, 4} /\ Len(acks) \in Nat
  BY Spans DEF Width
<1>2. g \div Width \in Nat /\ g % Width \in 0..(Width - 1) /\ g = (g \div Width) * Width + (g % Width)
  BY <1>1, Turn
<1>3. g \div Width \in 0..(Len(acks) - 1) /\ Width - 1 - (g % Width) \in 0..3
  <2>1. CASE Width = 2
    BY <1>1, <1>2, <2>1
  <2>2. CASE Width = 4
    BY <1>1, <1>2, <2>2
  <2> QED BY <1>1, <2>1, <2>2
<1>4. (g \div Width) + 1 \in 1..Len(acks) /\ g \div Width \in 0..Len(acks)
  BY <1>1, <1>3
<1>5. acks[(g \div Width) + 1] \in LongInt /\ Before(g \div Width) \in LongInt
  BY <1>4, Spans
<1>6. Stream(g) = Digit(acks[(g \div Width) + 1], Width - 1 - (g % Width))
  BY DEF Stream
<1>7. Stream(g) \in Digits
  BY <1>3, <1>5, <1>6, Decomposed
<1> QED BY <1>3, <1>4, <1>5, <1>6, <1>7

\* A digit that is taken changes its place alone.
LEMMA TakenDigits ==
  ASSUME AcksAssumption, NEW d \in Decoder, d.curack \in LongInt, NEW y \in Digits
  PROVE  /\ Taken(d, y) \in LongInt
         /\ \A j \in 0..3 : Digit(Taken(d, y), j) = IF j = PlaceOf(d) THEN y ELSE Digit(d.curack, j)
<1>1. PlaceOf(d) \in 0..3
  BY DecoderIs
<1> QED BY <1>1, PutDigit DEF Taken

\* The next digit takes its place, in the middle of a number and at its end.
LEMMA NextDigit ==
  ASSUME AcksAssumption, Rising, NEW d \in Decoder, d.bytesgot < Width * Len(acks),
         NEW top \in {2, 4}, top <= Width, JoinedAt(d.curack, d.bytesgot, top),
         PlaceOf(d) = top - 1 - (d.bytesgot % Width), d.bytesgot % Width < top
  PROVE  LET g == d.bytesgot
             c == Taken(d, Stream(g))
         IN /\ c \in LongInt
            /\ \A k \in 0..3 : Digit(c, k) = IF k < top /\ k >= top - 1 - (g % Width)
                                               THEN Digit(acks[(g \div Width) + 1], k + Width - top)
                                               ELSE Digit(Before(g \div Width), k)
<1> DEFINE g == d.bytesgot
           c == Taken(d, Stream(g))
           r == g % Width
           n == g \div Width
<1>1. g \in Nat /\ Width \in {2, 4}
  BY DecoderIs DEF Width
<1>2. r \in 0..(Width - 1)
  BY <1>1, Turn
<1>3. /\ Stream(g) \in Digits /\ Stream(g) = Digit(acks[n + 1], Width - 1 - r)
  BY <1>1, StreamDigit
<1>4. /\ d.curack \in LongInt
      /\ \A k \in 0..3 : Digit(d.curack, k) = IF k < top /\ k >= top - r THEN Digit(acks[n + 1], k + Width - top)
                                              ELSE Digit(Before(n), k)
  BY DEF JoinedAt
<1>5. /\ c \in LongInt
      /\ \A j \in 0..3 : Digit(c, j) = IF j = top - 1 - r THEN Stream(g) ELSE Digit(d.curack, j)
  BY <1>3, <1>4, TakenDigits
<1> HIDE DEF c, r, n, g
<1>6. ASSUME NEW k \in 0..3
      PROVE  Digit(c, k) = IF k < top /\ k >= top - 1 - r THEN Digit(acks[n + 1], k + Width - top)
                           ELSE Digit(Before(n), k)
  <2>0. r \in Nat /\ Width \in Nat
    BY <1>1, <1>2
  <2>1. CASE k = top - 1 - r
    <3>1. Digit(c, k) = Digit(acks[n + 1], Width - 1 - r)
      BY <1>3, <1>5, <2>1
    <3>2. Width - 1 - r = k + Width - top
      BY <2>0, <2>1
    <3>3. k < top /\ k >= top - 1 - r
      BY <2>0, <2>1
    <3> QED BY <3>1, <3>2, <3>3
  <2>2. CASE k # top - 1 - r
    <3>1. Digit(c, k) = Digit(d.curack, k)
      BY <1>5, <2>2
    <3>2. (k >= top - r) <=> (k >= top - 1 - r)
      BY <2>0, <2>2
    <3> QED BY <1>4, <3>1, <3>2
  <2> QED BY <2>1, <2>2
<1> QED BY <1>5, <1>6 DEF c, r, n, g

\* A user who counts in 64 bits, and the bot knows.
LEMMA PutWide ==
  ASSUME AcksAssumption, Rising, download.wide, NEW d \in Decoder, d.mirc_dcc64, Wide(d),
         d.bytesgot < Width * Len(acks)
  PROVE  LET e == Put(d, Stream(d.bytesgot)) IN e.mirc_dcc64 = TRUE /\ Wide(e)
<1> DEFINE g == d.bytesgot
           y == Stream(g)
           c == Taken(d, y)
           e == Put(d, y)
           n == g \div 4
           r == g % 4
<1>1. g \in Nat /\ Width = 4
  BY DecoderIs DEF Width
<1>2. n \in Nat /\ r \in 0..3 /\ PlaceOf(d) = 3 - r
  BY <1>1, Turn DEF PlaceOf
<1>3. y \in Digits /\ n + 1 \in 1..Len(acks) /\ acks[n + 1] \in LongInt
  BY <1>1, StreamDigit
<1>4. JoinedAt(d.curack, g, 4)
  BY JoinsIs DEF Wide
<1>5. /\ c \in LongInt
      /\ \A k \in 0..3 : Digit(c, k) = IF k >= 3 - r THEN Digit(acks[n + 1], k) ELSE Digit(Before(n), k)
  <2>1. 4 \in {2, 4} /\ 4 <= Width /\ PlaceOf(d) = 4 - 1 - (d.bytesgot % Width) /\ d.bytesgot % Width < 4
    BY <1>1, <1>2
  <2>2. /\ c \in LongInt
        /\ \A k \in 0..3 : Digit(c, k) = IF k < 4 /\ k >= 4 - 1 - (g % Width) THEN Digit(acks[(g \div Width) + 1], k + Width - 4)
                                         ELSE Digit(Before(g \div Width), k)
    BY <1>4, <2>1, NextDigit
  <2>3. \A k \in 0..3 : k + Width - 4 = k /\ k < 4
    BY <1>1
  <2> QED BY <1>1, <2>2, <2>3
<1>0. d.mirc_dcc64 = TRUE /\ (PlaceOf(d) = 0 <=> r = 3)
  BY <1>2, DecoderIs
<1>6. /\ e \in Decoder /\ e.bytesgot = g + 1 /\ e.mirc_dcc64 = TRUE /\ e.curack = c
      /\ e.lastack = IF r = 3 THEN c ELSE d.lastack
  <2> HIDE DEF y, r
  <2> QED BY <1>0, <1>3, PutParts
<1> HIDE DEF g, y, c, e, n, r
<1>7. r = 3 => c = acks[n + 1]
  BY <1>3, <1>5, SameDigits
<1>8. JoinedAt(c, g + 1, 4)
  <2>1. CASE r = 3
    <3>1. (g + 1) \div Width = n + 1 /\ (g + 1) % Width = 0
      BY <1>1, <2>1, Turn DEF n, r
    <3>2. Before(n + 1) = acks[n + 1]
      BY <1>2 DEF Before
    <3> QED BY <1>3, <1>7, <2>1, <3>1, <3>2 DEF JoinedAt
  <2>2. CASE r < 3
    <3>1. (g + 1) \div Width = n /\ (g + 1) % Width = r + 1
      BY <1>1, <2>2, Turn DEF n, r
    <3>2. \A k \in 0..3 : k + Width - 4 = k /\ k < 4 /\ (k >= 4 - (r + 1) <=> k >= 3 - r)
      BY <1>1, <1>2
    <3> QED BY <1>5, <3>1, <3>2 DEF JoinedAt
  <2> QED BY <1>2, <2>1, <2>2
<1>9. Joins(e, 4)
  BY <1>6, <1>8, JoinsIs
<1>10. Said(e)
  <2>1. CASE r = 3
    <3>1. (g + 1) \div Width = n + 1
      BY <1>1, <2>1, Turn DEF n, r
    <3> QED BY <1>6, <1>7, <2>1, <3>1 DEF Said
  <2>2. CASE r < 3
    <3>1. (g + 1) \div Width = n /\ g \div Width = n
      BY <1>1, <2>2, Turn DEF n, r
    <3>2. d.bytesgot \div Width >= 1 => d.lastack = acks[d.bytesgot \div Width]
      BY DEF Wide, Said
    <3> QED BY <1>2, <1>6, <2>2, <3>1, <3>2 DEF Said, g
  <2> QED BY <1>2, <2>1, <2>2
<1>11. e.bytesgot < 4 => \/ e.lastack = download.start
                         \/ e.bytesgot >= 2 /\ e.lastack = (acks[1] \div Word) * Word
  <2> SUFFICES ASSUME e.bytesgot < 4 PROVE \/ e.lastack = download.start
                                           \/ e.bytesgot >= 2 /\ e.lastack = (acks[1] \div Word) * Word
    OBVIOUS
  <2>1. g < 3 /\ r # 3
    BY <1>1, <1>6 DEF r
  <2>2. \/ d.lastack = download.start
        \/ g >= 2 /\ d.lastack = (acks[1] \div Word) * Word
    BY <1>1, <2>1 DEF Wide, g
  <2> QED BY <1>1, <1>6, <2>1, <2>2
<1> QED BY <1>6, <1>9, <1>10, <1>11 DEF Wide, e, y, g

\* He does, but the bot does not know.
LEMMA PutUntold ==
  ASSUME AcksAssumption, Rising, download.wide, NEW d \in Decoder, ~d.mirc_dcc64, Untold(d),
         d.bytesgot < Width * Len(acks)
  PROVE  LET e == Put(d, Stream(d.bytesgot))
         IN IF e.mirc_dcc64 THEN Wide(e) ELSE Untold(e)
<1> DEFINE g == d.bytesgot
           y == Stream(g)
           c == Taken(d, y)
           e == Put(d, y)
           v == acks[1]
<1>1. g \in Nat /\ Width = 4 /\ PlaceOf(d) = 1 - (g % 2) /\ Width \in Nat
  BY DecoderIs DEF Width, PlaceOf
<1>2. y \in Digits /\ g \div 4 \in 0..(Len(acks) - 1) /\ Len(acks) \in Nat
  BY <1>1, StreamDigit, Spans
<1>3. 1 \in 1..Len(acks) /\ v \in LongInt
  <2>1. 1 \in 1..Len(acks)
    BY <1>2
  <2> QED BY <2>1, Spans
<1>4. IsLarge /\ download.start \in LongInt
  BY Spans DEF Rising
<1>5. CASE g >= 2
  <2>1. d.firstack # 0 /\ v \div Word > download.start
    BY <1>1, <1>5 DEF Untold
  <2>2. ~Widens(d, c) /\ FirstOf(d, c) = d.firstack
    BY <2>1 DEF Widens, FirstOf
  <2>3. e.bytesgot = g + 1 /\ e.mirc_dcc64 = FALSE /\ e.firstack = d.firstack
    <3>1. CASE PlaceOf(d) = 0
      BY <1>2, <2>2, <3>1, PutParts
    <3>2. CASE PlaceOf(d) # 0
      <4>1. d.mirc_dcc64 = FALSE
        BY DecoderIs
      <4> QED BY <1>2, <3>2, <4>1, PutParts
    <3> QED BY <3>1, <3>2
  <2>4. e.bytesgot >= 2
    BY <1>1, <1>5, <2>3
  <2> HIDE DEF e
  <2>5. Untold(e)
    BY <2>1, <2>3, <2>4 DEF Untold
  <2> QED BY <2>3, <2>5 DEF e
<1>6. CASE g < 2
  <2>1. d.firstack = 0 /\ d.lastack = download.start /\ JoinedAt(d.curack, g, 2)
    <3>1. d.firstack = 0 /\ d.lastack = download.start /\ Joins(d, 2)
      BY <1>1, <1>6 DEF Untold
    <3> QED BY <3>1, JoinsIs
  <2>2. g \div Width = 0 /\ g % Width = g /\ g % 2 = g /\ g \in {0, 1}
    BY <1>1, <1>6
  <2>3. /\ c \in LongInt
        /\ \A k \in 0..3 : Digit(c, k) = IF k < 2 /\ k >= 1 - g THEN Digit(v, k + 2) ELSE 0
    <3>1. 2 \in {2, 4} /\ 2 <= Width /\ PlaceOf(d) = 2 - 1 - (d.bytesgot % Width) /\ d.bytesgot % Width < 2
      BY <1>1, <2>2
    <3>2. /\ c \in LongInt
          /\ \A k \in 0..3 : Digit(c, k) = IF k < 2 /\ k >= 2 - 1 - (g % Width) THEN Digit(acks[(g \div Width) + 1], k + Width - 2)
                                           ELSE Digit(Before(g \div Width), k)
      BY <2>1, <3>1, NextDigit
    <3>3. \A k \in 0..3 : Digit(Before(0), k) = 0
      BY NoDigits DEF Before
    <3>4. \A k \in 0..3 : k + Width - 2 = k + 2
      BY <1>1
    <3> QED BY <2>2, <3>2, <3>3, <3>4
  <2>4. CASE g = 0
    <3>1. e \in Decoder /\ e.bytesgot = 1 /\ e.mirc_dcc64 = FALSE /\ e.curack = c /\ e.firstack = 0 /\ e.lastack = download.start
      <4>1. PlaceOf(d) # 0 /\ d.mirc_dcc64 = FALSE
        BY <1>1, <2>2, <2>4, DecoderIs
      <4>2. g + 1 = 1
        BY <2>4
      <4> HIDE DEF y
      <4> QED BY <1>2, <2>1, <4>1, <4>2, PutParts
    <3> HIDE DEF e, c
    <3>2. JoinedAt(c, 1, 2)
      <4>1. 1 \div Width = 0 /\ 1 % Width = 1
        BY <1>1
      <4>2. \A k \in 0..3 : Digit(Before(0), k) = 0 /\ k + Width - 2 = k + 2
        BY <1>1, NoDigits DEF Before
      <4> QED BY <2>3, <2>4, <4>1, <4>2 DEF JoinedAt
    <3>3. Joins(e, 2)
      BY <3>1, <3>2, JoinsIs
    <3> QED BY <3>1, <3>3 DEF Untold, e
  <2>5. CASE g = 1
    <3>1. /\ Digit(c, 0) = Digit(v, 2) /\ Digit(c, 1) = Digit(v, 3) /\ Digit(c, 2) = 0 /\ Digit(c, 3) = 0
      <4>1. 0 \in 0..3 /\ 1 \in 0..3 /\ 2 \in 0..3 /\ 3 \in 0..3
        OBVIOUS
      <4> HIDE DEF c, v
      <4> QED BY <2>3, <2>5, <4>1
    <3>2. /\ Digit(v, 3) \in Digits /\ Digit(v, 2) \in Digits /\ 0 \in Digits
          /\ v \div Word = Digit(v, 3) * Base + Digit(v, 2) /\ (v \div Word) * Word <= v
          /\ v \div Word \in Nat
      <4>1. /\ Digit(v, 3) \in Digits /\ Digit(v, 2) \in Digits /\ 0 \in Digits
            /\ v \div Word = Digit(v, 3) * Base + Digit(v, 2)
            /\ v = (v \div Word) * Word + (v % Word)
            /\ v \div Word \in 0..(Word - 1) /\ v % Word \in 0..(Word - 1)
        BY <1>3, Decomposed, NoDigits
      <4> DEFINE u == v \div Word
                 w == v % Word
      <4>2. Word \in Nat /\ u \in Nat /\ w \in Nat /\ v = u * Word + w
        BY <4>1, Weights
      <4> HIDE DEF u, w
      <4>3. u * Word \in Nat /\ u * Word <= v
        BY ONLY <4>2
      <4> QED BY <4>1, <4>2, <4>3 DEF u, w
    <3>3. c = v \div Word
      <4>1. c = Num(0, 0, Digit(v, 3), Digit(v, 2))
        BY <2>3, <3>1, Decomposed
      <4> DEFINE x == Digit(v, 3)
                 z == Digit(v, 2)
      <4>2. x \in Nat /\ z \in Nat
        BY <3>2 DEF Digits
      <4> HIDE DEF x, z, v, c
      <4>3. Num(0, 0, x, z) = x * Base + z
        BY <4>2, Weights DEF Num
      <4> QED BY <3>2, <4>1, <4>3 DEF x, z
    <3>4. PlaceOf(d) = 0 /\ d.mirc_dcc64 = FALSE
      BY <1>1, <2>2, <2>5, DecoderIs
    <3>5. FirstOf(d, c) # 0 /\ (Widens(d, c) <=> c <= download.start)
      BY <1>4, <2>1 DEF FirstOf, Widens
    <3>6. CASE c <= download.start
      <4>1. e \in Decoder /\ e.bytesgot = 2 /\ e.mirc_dcc64 = TRUE /\ e.curack = c * Word /\ e.lastack = c * Word
        <5>1. g + 1 = 2
          BY <2>5
        <5> HIDE DEF y
        <5> QED BY <1>2, <3>4, <3>5, <3>6, <5>1, PutParts
      <4>2. c * Word = Num(Digit(v, 3), Digit(v, 2), 0, 0)
        <5> DEFINE x == Digit(v, 3)
                   z == Digit(v, 2)
        <5>0. x \in Nat /\ z \in Nat /\ Base \in Nat /\ Word \in Nat
          BY <3>2, Weights DEF Digits
        <5> HIDE DEF x, z, v, c
        <5>1. (x * Base + z) * Word = x * (Word * Base) + z * Word + 0 * Base + 0
          BY ONLY <5>0
        <5> QED BY <3>2, <3>3, <5>1 DEF Num, x, z
      <4> HIDE DEF e, c, v
      <4>3. JoinedAt(c * Word, 2, 4)
        <5>1. 2 \div Width = 0 /\ 2 % Width = 2
          BY <1>1
        <5>2. /\ c * Word \in LongInt
              /\ Digit(c * Word, 0) = 0 /\ Digit(c * Word, 1) = 0
              /\ Digit(c * Word, 2) = Digit(v, 2) /\ Digit(c * Word, 3) = Digit(v, 3)
          BY <3>2, <4>2, NumDigits, NumParts
        <5>3. \A k \in 0..3 : k = 0 \/ k = 1 \/ k = 2 \/ k = 3
          OBVIOUS
        <5>4. \A k \in 0..3 : Digit(Before(0), k) = 0 /\ k + Width - 4 = k
          BY <1>1, NoDigits DEF Before
        <5>5. \A k \in 0..3 : Digit(c * Word, k) = IF k < 4 /\ k >= 4 - 2 THEN Digit(v, k + Width - 4) ELSE Digit(Before(0), k)
          BY <5>2, <5>3, <5>4
        <5> QED BY <5>1, <5>2, <5>5 DEF JoinedAt, v
      <4>4. Joins(e, 4)
        BY <4>1, <4>3, JoinsIs
      <4>5. Said(e)
        <5>1. e.bytesgot \div Width = 0
          BY <1>1, <4>1
        <5> QED BY <5>1 DEF Said
      <4>6. Wide(e)
        BY <3>3, <4>1, <4>4, <4>5 DEF Wide, v
      <4> QED BY <4>1, <4>6 DEF e
    <3>7. CASE ~(c <= download.start)
      <4>1. e.bytesgot = 2 /\ e.mirc_dcc64 = FALSE /\ e.firstack # 0
        <5>1. g + 1 = 2
          BY <2>5
        <5> HIDE DEF y
        <5> QED BY <1>2, <3>4, <3>5, <3>7, <5>1, PutParts
      <4>2. v \div Word > download.start
        BY <1>4, <3>2, <3>3, <3>7 DEF LongInt
      <4> HIDE DEF e
      <4>3. Untold(e)
        BY <4>1, <4>2 DEF Untold
      <4> QED BY <4>1, <4>3 DEF e
    <3> QED BY <3>6, <3>7
  <2> QED BY <2>2, <2>4, <2>5
<1> QED BY <1>1, <1>5, <1>6

\* The number that is read and the one before.
LEMMA Neighbours ==
  ASSUME AcksAssumption, Rising, ~download.wide, NEW n \in 0..(Len(acks) - 1)
  PROVE  /\ acks[n + 1] \in LongInt /\ Before(n) \in LongInt
         /\ n = 0 => download.start <= acks[n + 1]
         /\ n > 0 => Before(n) = acks[n] /\ Before(n) <= acks[n + 1] /\ acks[n + 1] - Before(n) < Word
<1>1. Len(acks) \in Nat
  BY Spans
<1>2. n + 1 \in 1..Len(acks) /\ n \in 0..Len(acks)
  BY <1>1
<1>3. acks[n + 1] \in LongInt /\ Before(n) \in LongInt
  BY <1>2, Spans
<1>4. n = 0 => download.start <= acks[n + 1]
  <2> SUFFICES ASSUME n = 0 PROVE download.start <= acks[1]
    OBVIOUS
  <2>1. acks # <<>>
    BY <1>1
  <2> QED BY <2>1 DEF Rising
<1>5. n > 0 => Before(n) = acks[n] /\ Before(n) <= acks[n + 1] /\ acks[n + 1] - Before(n) < Word
  <2> SUFFICES ASSUME n > 0 PROVE Before(n) = acks[n] /\ Before(n) <= acks[n + 1] /\ acks[n + 1] - Before(n) < Word
    OBVIOUS
  <2>1. n \in 1..(Len(acks) - 1)
    BY <1>1
  <2>2. Before(n) = acks[n]
    BY DEF Before
  <2>3. acks[n] <= acks[n + 1] /\ acks[n + 1] - acks[n] < Word
    BY <2>1 DEF Rising
  <2> QED BY <2>2, <2>3
<1> QED BY <1>3, <1>4, <1>5

\* One of 32 bits comes to its end: the bot makes of it the whole number.
LEMMA WordEnds ==
  ASSUME AcksAssumption, Rising, ~download.wide, NarrowKnown, NEW d \in Decoder, Narrow(d),
         NEW n \in 0..(Len(acks) - 1), d.bytesgot = 2 * n + 1, NEW c \in LongInt,
         \A k \in 0..3 : Digit(c, k) = IF k < 2 THEN Digit(acks[n + 1], k) ELSE Digit(Before(n), k)
  PROVE  ~Widens(d, c) /\ Carried(d, c) = acks[n + 1] /\ FirstOf(d, c) # 0
<1> DEFINE cur == acks[n + 1]
           prev == Before(n)
<1>1. /\ cur \in LongInt /\ prev \in LongInt /\ download.start \in LongInt
      /\ n = 0 => download.start <= cur
      /\ n > 0 => prev = acks[n] /\ prev <= cur /\ cur - prev < Word
  <2>1. download.start \in LongInt
    BY Spans
  <2> QED BY <2>1, Neighbours
<1>2. c = (prev \div Word) * Word + (cur % Word)
  <2>1. /\ c \div Word = Digit(c, 3) * Base + Digit(c, 2)
        /\ c % Word = Digit(c, 1) * Base + Digit(c, 0)
        /\ c = (c \div Word) * Word + (c % Word)
    BY Decomposed
  <2>2. cur % Word = Digit(cur, 1) * Base + Digit(cur, 0)
    BY <1>1, Decomposed
  <2>3. prev \div Word = Digit(prev, 3) * Base + Digit(prev, 2)
    BY <1>1, Decomposed
  <2>4. Digit(c, 0) = Digit(cur, 0) /\ Digit(c, 1) = Digit(cur, 1) /\ Digit(c, 2) = Digit(prev, 2) /\ Digit(c, 3) = Digit(prev, 3)
    <3>1. 0 \in 0..3 /\ 1 \in 0..3 /\ 2 \in 0..3 /\ 3 \in 0..3
      OBVIOUS
    <3> HIDE DEF cur, prev
    <3> QED BY <3>1 DEF cur, prev
  <2>5. c \div Word = prev \div Word /\ c % Word = cur % Word
    BY <2>1, <2>2, <2>3, <2>4
  <2> QED BY <2>1, <2>5
<1>3. Len(acks) \in Nat /\ n \in Nat
  BY Spans
<1>4. ~IsLarge => cur < Word /\ (n > 0 => prev < Word)
  <2>1. n + 1 \in 1..Len(acks) /\ (n > 0 => n \in 1..Len(acks))
    BY <1>3
  <2> QED BY <1>1, <2>1, Spans
<1>5. FirstOf(d, c) # 0
  BY DEF FirstOf
<1>6. CASE n = 0
  <2>1. prev = 0 /\ d.bytesgot < 2
    BY <1>6 DEF Before
  <2>2. d.firstack = 0 /\ d.lastack = download.start
    BY <2>1 DEF Narrow
  <2>3. cur < Word
    <3>1. acks # <<>>
      BY <1>3, <1>6
    <3> QED BY <1>4, <1>6, <3>1 DEF NarrowKnown
  <2>4. 0 \in LongInt /\ 0 < Word
    BY Weights, NoDigits
  <2>5. prev \div Word = 0
    BY <2>1, <2>4, LowWord
  <2>6. cur % Word = cur
    BY <1>1, <2>3, LowWord
  <2>7. c = cur
    <3>1. cur \in Nat /\ Word \in Nat
      BY <1>1, Weights DEF LongInt
    <3> QED BY <1>2, <2>5, <2>6, <3>1
  <2>8. IsLarge => download.start < cur
    <3>1. acks # <<>>
      BY <1>3, <1>6
    <3> QED BY <1>6, <3>1 DEF NarrowKnown
  <2>9. cur \in Nat /\ download.start \in Nat
    BY <1>1 DEF LongInt
  <2> HIDE DEF cur, prev
  <2>10. ~Widens(d, c)
    BY <2>7, <2>8, <2>9 DEF Widens
  <2>11. Carried(d, c) = c
    BY <1>1, <1>6, <2>2, <2>7, <2>9 DEF Carried
  <2> QED BY <1>5, <2>7, <2>10, <2>11 DEF cur
<1>7. CASE n > 0
  <2>1. d.bytesgot \div Width = n /\ d.bytesgot >= 2
    <3>1. Width = 2
      BY DEF Width
    <3> QED BY <1>3, <1>7, <3>1
  <2>2. d.firstack # 0 /\ d.lastack = acks[n]
    BY <1>7, <2>1 DEF Narrow, Said
  <2>3. d.lastack = prev
    BY <1>1, <1>7, <2>2
  <2>4. ~Widens(d, c)
    BY <2>2 DEF Widens
  <2>5. CASE IsLarge
    <3>1. /\ c < prev => c + ((prev - c + Word - 1) \div Word) * Word = cur
          /\ c >= prev => c = cur
      <4> HIDE DEF cur, prev
      <4>1. prev \in LongInt /\ cur \in LongInt /\ prev <= cur /\ cur - prev < Word
        BY <1>1, <1>7
      <4> QED BY <1>2, <4>1, Carry
    <3>2. prev \in Int /\ c \in Int
      BY <1>1 DEF LongInt
    <3> HIDE DEF cur, prev
    <3>3. Carried(d, c) = cur
      BY <2>3, <2>5, <3>1, <3>2 DEF Carried
    <3> QED BY <1>5, <2>4, <3>3 DEF cur
  <2>6. CASE ~IsLarge
    <3>1. cur % Word = cur
      BY <1>1, <1>4, <2>6, LowWord
    <3>2. prev \div Word = 0
      BY <1>1, <1>4, <1>7, <2>6, LowWord
    <3>3. c = cur
      <4>1. cur \in Nat /\ Word \in Nat
        BY <1>1, Weights DEF LongInt
      <4> QED BY <1>2, <3>1, <3>2, <4>1
    <3>4. Carried(d, c) = c
      BY <2>6 DEF Carried
    <3> QED BY <1>5, <2>4, <3>3, <3>4
  <2> QED BY <2>5, <2>6
<1> QED BY <1>3, <1>6, <1>7

\* A user who counts in 32 bits.
LEMMA PutNarrow ==
  ASSUME AcksAssumption, Rising, ~download.wide, NarrowKnown, NEW d \in Decoder, Narrow(d),
         d.bytesgot < Width * Len(acks)
  PROVE  Narrow(Put(d, Stream(d.bytesgot)))
<1> DEFINE g == d.bytesgot
           y == Stream(g)
           c == Taken(d, y)
           e == Put(d, y)
           n == g \div 2
           r == g % 2
<1>1. g \in Nat /\ Width = 2 /\ d.mirc_dcc64 = FALSE
  BY DecoderIs DEF Width, Narrow
<1>2. n \in Nat /\ r \in 0..1 /\ g = n * 2 + r /\ PlaceOf(d) = 1 - r
  BY <1>1, Turn DEF PlaceOf
<1>3. y \in Digits /\ n \in 0..(Len(acks) - 1)
  BY <1>1, StreamDigit
<1>4. acks[n + 1] \in LongInt /\ Before(n) \in LongInt
  <2> HIDE DEF n
  <2> QED BY <1>3, Neighbours
<1>5. /\ c \in LongInt
      /\ \A k \in 0..3 : Digit(c, k) = IF k < 2 /\ k >= 1 - r THEN Digit(acks[n + 1], k) ELSE Digit(Before(n), k)
  <2>1. 2 \in {2, 4} /\ 2 <= Width /\ PlaceOf(d) = 2 - 1 - (d.bytesgot % Width) /\ d.bytesgot % Width < 2
    BY <1>1, <1>2
  <2>2. JoinedAt(d.curack, g, 2)
    BY JoinsIs DEF Narrow
  <2>3. /\ c \in LongInt
        /\ \A k \in 0..3 : Digit(c, k) = IF k < 2 /\ k >= 2 - 1 - (g % Width) THEN Digit(acks[(g \div Width) + 1], k + Width - 2)
                                         ELSE Digit(Before(g \div Width), k)
    BY <2>1, <2>2, NextDigit
  <2>4. \A k \in 0..3 : k + Width - 2 = k
    BY <1>1
  <2> QED BY <1>1, <2>3, <2>4
<1>6. /\ g < 2 => d.firstack = 0 /\ d.lastack = download.start
      /\ g >= 2 => d.firstack # 0
      /\ n >= 1 => d.lastack = acks[n]
  BY <1>1 DEF Narrow, Said
<1>7. CASE r = 0
  <2>1. /\ e \in Decoder /\ e.bytesgot = g + 1 /\ e.mirc_dcc64 = FALSE /\ e.curack = c /\ e.firstack = d.firstack
        /\ e.lastack = d.lastack
    <3>1. PlaceOf(d) # 0
      BY <1>2, <1>7
    <3> HIDE DEF y
    <3> QED BY <1>1, <1>3, <3>1, PutParts
  <2>2. (g + 1) \div Width = n /\ (g + 1) % Width = 1
    BY <1>1, <1>7, Turn
  <2> HIDE DEF e, c, y, n, r
  <2>3. JoinedAt(c, g + 1, 2)
    <3>1. \A k \in 0..3 : k + Width - 2 = k /\ 1 - r = 2 - 1
      BY <1>1, <1>7
    <3> QED BY <1>5, <2>2, <3>1 DEF JoinedAt
  <2>4. Joins(e, 2)
    BY <2>1, <2>3, JoinsIs
  <2>5. Said(e)
    BY <1>6, <2>1, <2>2 DEF Said
  <2>6. (g + 1 < 2 => g < 2) /\ (g + 1 >= 2 => g >= 2)
    BY <1>1, <1>2, <1>7
  <2>7. Narrow(e)
    BY <1>6, <2>1, <2>4, <2>5, <2>6 DEF Narrow
  <2> QED BY <2>7 DEF e, y
<1>8. CASE r = 1
  <2>1. ~Widens(d, c) /\ Carried(d, c) = acks[n + 1] /\ FirstOf(d, c) # 0
    <3> HIDE DEF c, y, n, r
    <3>1. g = 2 * n + 1
      BY <1>2, <1>8
    <3>2. \A k \in 0..3 : Digit(c, k) = IF k < 2 THEN Digit(acks[n + 1], k) ELSE Digit(Before(n), k)
      BY <1>5, <1>8
    <3> QED BY <1>3, <1>5, <3>1, <3>2, WordEnds
  <2>2. /\ e \in Decoder /\ e.bytesgot = g + 1 /\ e.mirc_dcc64 = FALSE /\ e.curack = acks[n + 1]
        /\ e.firstack # 0 /\ e.lastack = acks[n + 1]
    <3>1. PlaceOf(d) = 0
      BY <1>2, <1>8
    <3> DEFINE m == acks[n + 1]
    <3>2. Carried(d, c) = m
      BY <2>1
    <3> HIDE DEF y, n, m
    <3>3. e.bytesgot = g + 1 /\ e \in Decoder
      BY <1>3, PutParts
    <3>4. /\ e.mirc_dcc64 = FALSE /\ e.curack = Carried(d, c) /\ e.firstack = FirstOf(d, c)
          /\ e.lastack = Carried(d, c)
      BY <1>1, <1>3, <2>1, <3>1, PutParts
    <3>5. e.curack = m /\ e.lastack = m /\ e.firstack # 0
      BY <2>1, <3>2, <3>4
    <3> QED BY <3>3, <3>4, <3>5 DEF m
  <2>3. (g + 1) \div Width = n + 1 /\ (g + 1) % Width = 0
    BY <1>1, <1>8, Turn
  <2> HIDE DEF e, c, y, n, r
  <2>4. Before(n + 1) = acks[n + 1]
    BY <1>2 DEF Before
  <2>5. JoinedAt(acks[n + 1], g + 1, 2)
    BY <1>4, <2>3, <2>4 DEF JoinedAt
  <2>6. Joins(e, 2)
    BY <2>2, <2>5, JoinsIs
  <2>7. Said(e)
    BY <2>2, <2>3 DEF Said
  <2>8. ~(e.bytesgot < 2)
    BY <1>2, <1>8, <2>2
  <2>9. Narrow(e)
    BY <2>2, <2>6, <2>7, <2>8 DEF Narrow
  <2> QED BY <2>9 DEF e, y
<1> QED BY <1>2, <1>7, <1>8

\* One digit more.
LEMMA PutExact ==
  ASSUME AcksAssumption, Rising, NEW d, Decoded(d), d.bytesgot < Width * Len(acks)
  PROVE  Decoded(Put(d, Stream(d.bytesgot))) /\ Put(d, Stream(d.bytesgot)).bytesgot = d.bytesgot + 1
<1> DEFINE y == Stream(d.bytesgot)
           e == Put(d, y)
<1>0. d \in Decoder
  BY DEF Decoded
<1>1. d.bytesgot \in Nat /\ d.mirc_dcc64 \in BOOLEAN
  BY <1>0, DecoderIs
<1>2. y \in Digits
  BY <1>1, StreamDigit
<1>3. e \in Decoder /\ e.bytesgot = d.bytesgot + 1
  <2> HIDE DEF y
  <2> QED BY <1>0, <1>2, PutParts
<1>4. IF ~download.wide THEN NarrowKnown => Narrow(e)
      ELSE IF e.mirc_dcc64 THEN Wide(e) ELSE Untold(e)
  <2>1. CASE ~download.wide
    <3>1. NarrowKnown => Narrow(d)
      BY <2>1 DEF Decoded
    <3>2. ASSUME NarrowKnown PROVE Narrow(e)
      BY <1>0, <2>1, <3>1, <3>2, PutNarrow
    <3> QED BY <2>1, <3>2
  <2>2. CASE download.wide /\ d.mirc_dcc64
    <3>1. Wide(d)
      BY <2>2 DEF Decoded
    <3>2. e.mirc_dcc64 = TRUE /\ Wide(e)
      BY <1>0, <2>2, <3>1, PutWide
    <3> QED BY <2>2, <3>2
  <2>3. CASE download.wide /\ ~d.mirc_dcc64
    <3>1. Untold(d)
      BY <2>3 DEF Decoded
    <3>2. IF e.mirc_dcc64 THEN Wide(e) ELSE Untold(e)
      BY <1>0, <2>3, <3>1, PutUntold
    <3> QED BY <2>3, <3>2
  <2> QED BY <2>1, <2>2, <2>3
<1> HIDE DEF e
<1>5. Decoded(e)
  BY <1>3, <1>4 DEF Decoded
<1> QED BY <1>3, <1>5 DEF e, y

-----------------------------------------------------------------------------
(* Acknowledgements: the actions *)

\* What the bot makes of n digits, one after the other.
Puts(n, V) ==
  /\ V[0] = decoder /\ \A k \in 1..n : V[k] = Put(V[k - 1], onWay[k])
  /\ t_readjunk(n) => decoder' = V[n]

\* There are these states.
LEMMA PutsExist ==
  ASSUME AcksAssumption, decoder \in Decoder, onWay \in Seq(Digits), NEW n \in 1..Len(onWay)
  PROVE  \E V : Puts(n, V)
<1> DEFINE Is(g) == g = [k \in 0..n |-> IF k = 0 THEN decoder ELSE Put(g[k - 1], onWay[k])]
           D == [k \in 1..n |-> [x \in Decoder |-> Put(x, onWay[k])]]
           V == CHOOSE g : Is(g)
<1>1. n \in Nat /\ \A k \in 1..n : onWay[k] \in Digits
  OBVIOUS
<1>2. t_readjunk(n) => decoder' = V[n]
  BY DEF t_readjunk
<1>3. ASSUME NEW x \in Decoder, NEW k \in 1..n PROVE Put(x, onWay[k]) \in Decoder
  BY <1>1, PutParts
<1>4. D \in StepsOf(n, Decoder) /\ \A k \in 1..n : \A x \in Decoder : D[k][x] = Put(x, onWay[k])
  BY <1>3 DEF StepsOf
<1> HIDE DEF D
<1>5. Made(n, Decoder, decoder, D)
  BY <1>1, <1>4, Iterated
<1>6. \E g : Is(g)
  <2>1. PICK g \in [0..n -> Decoder] : g[0] = decoder /\ \A k \in 1..n : g[k] = D[k][g[k - 1]]
    BY <1>5 DEF Made
  <2>2. \A k \in 1..n : g[k] = Put(g[k - 1], onWay[k])
    <3> SUFFICES ASSUME NEW k \in 1..n PROVE g[k] = Put(g[k - 1], onWay[k])
      OBVIOUS
    <3>1. k - 1 \in 0..n
      BY <1>1
    <3>2. g[k - 1] \in Decoder
      BY <2>1, <3>1
    <3> QED BY <1>4, <2>1, <3>2
  <2>3. \A k \in 0..n : k # 0 => k \in 1..n
    BY <1>1
  <2>4. \A k \in 0..n : g[k] = IF k = 0 THEN decoder ELSE Put(g[k - 1], onWay[k])
    BY <2>1, <2>2, <2>3
  <2>5. g = [k \in 0..n |-> g[k]]
    BY <2>1
  <2>6. Is(g)
    BY <2>4, <2>5
  <2> QED BY <2>6
<1>7. Is(V)
  <2> HIDE DEF Is
  <2> QED BY <1>6
<1>8. 0 \in 0..n /\ n \in 0..n /\ \A k \in 1..n : k \in 0..n /\ k # 0
  BY <1>1
<1> HIDE DEF V
<1>9. V[0] = decoder /\ \A k \in 1..n : V[k] = Put(V[k - 1], onWay[k])
  BY <1>7, <1>8
<1>10. Puts(n, V)
  <2> HIDE DEF Is
  <2> QED BY <1>2, <1>9 DEF Puts
<1> QED BY <1>10

\* t_readjunk, however much has arrived.
LEMMA ReadKeeps ==
  ASSUME AcksAssumption, AckInv, NEW n \in 1..Len(onWay), t_readjunk(n)
  PROVE  AckInv'
<1>1. Rising /\ Arriving /\ Decoded(decoder)
  BY DEF AckInv
<1>2. UNCHANGED <<download, acks>> /\ onWay' = SubSeq(onWay, n + 1, Len(onWay))
  BY DEF t_readjunk
<1>3. decoder \in Decoder /\ onWay \in Seq(Digits)
  BY <1>1 DEF Decoded, Arriving, Digits
<1>4. PICK V : Puts(n, V)
  BY <1>3, PutsExist
<1> DEFINE b == decoder.bytesgot
           S == {k \in 0..n : Decoded(V[k]) /\ V[k].bytesgot = b + k}
<1>5. /\ b \in Nat /\ n \in Nat /\ Len(onWay) \in Nat /\ n <= Len(onWay)
      /\ b + Len(onWay) = Width * Len(acks)
      /\ \A k \in 1..Len(onWay) : onWay[k] = Stream(b + k - 1)
  BY <1>1, <1>3, DecoderIs DEF Arriving
<1>6. V[0] = decoder /\ (\A k \in 1..n : V[k] = Put(V[k - 1], onWay[k])) /\ decoder' = V[n]
  BY <1>4 DEF Puts
<1>7. 0..n \subseteq S
  <2>1. 0 \in S
    BY <1>1, <1>5, <1>6
  <2>2. ASSUME NEW k \in 1..n, k - 1 \in S PROVE k \in S
    <3>1. Decoded(V[k - 1]) /\ V[k - 1].bytesgot = b + k - 1
      BY <1>5, <2>2
    <3>2. b + k - 1 < Width * Len(acks) /\ onWay[k] = Stream(b + k - 1) /\ (b + k - 1) + 1 = b + k
      BY <1>5
    <3>3. V[k] = Put(V[k - 1], Stream(V[k - 1].bytesgot))
      BY <1>6, <3>1, <3>2
    <3>4. Decoded(V[k]) /\ V[k].bytesgot = b + k
      <4> DEFINE d == V[k - 1]
      <4>1. Decoded(d) /\ d.bytesgot < Width * Len(acks)
        BY <3>1, <3>2
      <4> HIDE DEF d
      <4>2. Decoded(Put(d, Stream(d.bytesgot))) /\ Put(d, Stream(d.bytesgot)).bytesgot = d.bytesgot + 1
        BY <1>1, <4>1, PutExact
      <4> QED BY <3>1, <3>2, <3>3, <4>2 DEF d
    <3> QED BY <3>4
  <2> HIDE DEF S
  <2> QED BY <1>5, <2>1, <2>2, Climb
<1>8. Decoded(decoder') /\ decoder'.bytesgot = b + n
  <2>1. n \in S
    BY <1>5, <1>7
  <2> QED BY <1>6, <2>1
<1>9. Decoded(decoder)'
  BY <1>2, <1>8 DEF Decoded, NarrowKnown, Narrow, Wide, Untold, Joins, Said, Before, Width, IsLarge
<1>10. Rising'
  BY <1>1, <1>2 DEF Rising, Size, IsLarge
<1>11. Arriving'
  <2> DEFINE q == onWay'
  <2>0. onWay \in Seq(Digits) /\ q = SubSeq(onWay, n + 1, Len(onWay)) /\ n + 1 \in 1..(Len(onWay) + 1)
    BY <1>2, <1>3, <1>5
  <2>1. q \in Seq(Digits) /\ Len(q) = Len(onWay) - n /\ \A k \in 1..Len(q) : q[k] = onWay[k + n]
    <3>1. n \in 0..Len(onWay) /\ n \in Nat
      BY <1>5
    <3> HIDE DEF q, Digits
    <3>2. q \in Seq(Digits)
      BY ONLY <2>0, <3>1
    <3>3. Len(q) = Len(onWay) - n
      BY ONLY <2>0, <3>1
    <3>4. \A k \in 1..Len(q) : q[k] = onWay[k + n]
      BY ONLY <2>0, <3>1, <3>3
    <3> QED BY <3>2, <3>3, <3>4
  <2> HIDE DEF q
  <2>2. decoder'.bytesgot + Len(q) = Width * Len(acks)
    BY <1>5, <1>8, <2>1
  <2>3. \A k \in 1..Len(q) : q[k] = Stream(decoder'.bytesgot + k - 1)
    <3> SUFFICES ASSUME NEW k \in 1..Len(q) PROVE q[k] = Stream(decoder'.bytesgot + k - 1)
      OBVIOUS
    <3>1. k + n \in 1..Len(onWay) /\ b + (k + n) - 1 = decoder'.bytesgot + k - 1
      BY <1>5, <1>8, <2>1
    <3>2. onWay[k + n] = Stream(b + (k + n) - 1)
      BY <1>5, <3>1
    <3> QED BY <2>1, <3>1, <3>2
  <2>4. Width' = Width /\ acks' = acks
    BY <1>2 DEF Width
  <2>5. \A p : Stream(p)' = Stream(p)
    BY <2>4 DEF Stream
  <2> QED BY <2>1, <2>2, <2>3, <2>4, <2>5 DEF Arriving, q, Digits, Stream
<1> QED BY <1>9, <1>10, <1>11 DEF AckInv

\* The user says a number more, and what is sent so far is still the same.
LEMMA AckKeeps ==
  ASSUME AcksAssumption, AckInv, NEW v \in 1..download.size, Ack(v)
  PROVE  AckInv'
<1> DEFINE z == download.size
           l == Len(acks)
           b == decoder.bytesgot
           n == b \div Width
<1>1. Rising /\ Arriving /\ Decoded(decoder) /\ l \in Nat /\ z \in LongInt
  BY Spans DEF AckInv
<1>2. /\ UNCHANGED <<download, decoder>> /\ acks' = Append(acks, v)
      /\ v >= LastAck /\ (download.wide \/ v - LastAck < Word)
      /\ onWay' = onWay \o (IF download.wide THEN <<Digit(v, 3), Digit(v, 2)>> ELSE <<>>) \o <<Digit(v, 1), Digit(v, 0)>>
  BY DEF Ack
<1>3. v \in LongInt
  <2> DEFINE M == Word * Word - 1
  <2>1. z \in 0..M /\ M \in Int
    BY <1>1, Weights DEF LongInt
  <2> HIDE DEF M, z
  <2>2. v \in 1..z
    BY DEF z
  <2>3. v \in 0..M
    BY ONLY <2>1, <2>2
  <2> QED BY <2>3 DEF M, LongInt
<1>4. /\ acks \in Seq(1..z) /\ acks' \in Seq(1..z) /\ Len(acks') = l + 1
      /\ (\A i \in 1..l : acks'[i] = acks[i]) /\ acks'[l + 1] = v
  <2> DEFINE S == 1..z
  <2>1. acks \in Seq(S) /\ v \in S
    BY <1>1 DEF Rising
  <2> HIDE DEF S
  <2>2. /\ acks' \in Seq(S) /\ Len(acks') = l + 1
        /\ (\A i \in 1..l : acks'[i] = acks[i]) /\ acks'[l + 1] = v
    BY <1>2, <2>1
  <2> QED BY <2>1, <2>2 DEF S
<1>5. Rising'
  <2>1. /\ z \in Size' /\ z' = z /\ IsLarge' = IsLarge /\ download' = download
    BY <1>1, <1>2 DEF Rising, Size, IsLarge
  <2>2. acks' # <<>> => /\ download.start <= acks'[1]
                        /\ download.wide \/ acks'[1] - download.start < Word
    <3>1. CASE l = 0
      <4>1. acks = <<>>
        BY <1>1, <3>1 DEF Rising
      <4>2. LastAck = download.start /\ acks'[1] = v
        BY <1>4, <3>1, <4>1 DEF LastAck
      <4>3. v >= download.start => download.start <= v
        BY <1>1, <1>3, Spans DEF LongInt
      <4> QED BY <1>2, <4>2, <4>3
    <3>2. CASE l >= 1
      <4>1. acks # <<>> /\ 1 \in 1..l
        BY <1>1, <3>2
      <4>2. acks'[1] = acks[1]
        BY <1>4, <4>1
      <4> QED BY <1>1, <4>1, <4>2 DEF Rising
    <3> QED BY <1>1, <3>1, <3>2
  <2>3. ASSUME NEW i \in 1..l PROVE acks'[i] <= acks'[i + 1] /\ (download.wide \/ acks'[i + 1] - acks'[i] < Word)
    <3>1. CASE i = l
      <4>1. acks # <<>>
        BY <1>1, <2>3
      <4>2. LastAck = acks[l] /\ acks'[i] = acks[l] /\ acks'[i + 1] = v
        BY <1>1, <1>4, <2>3, <3>1, <4>1 DEF LastAck
      <4>3. acks[l] \in LongInt
        BY <1>1, <2>3, <3>1, Spans
      <4>4. v >= acks[l] => acks[l] <= v
        BY <1>3, <4>3 DEF LongInt
      <4> QED BY <1>2, <4>2, <4>4
    <3>2. CASE i # l
      <4>1. i \in 1..(l - 1) /\ i + 1 \in 1..l
        BY <1>1, <3>2
      <4>2. acks'[i] = acks[i] /\ acks'[i + 1] = acks[i + 1]
        BY <1>4, <4>1
      <4>3. acks[i] <= acks[i + 1] /\ (download.wide \/ acks[i + 1] - acks[i] < Word)
        BY <1>1, <4>1 DEF Rising
      <4> QED BY <4>2, <4>3
    <3> QED BY <3>1, <3>2
  <2>4. Len(acks') - 1 = l
    BY <1>1, <1>4
  <2>5. download.start \in 0..(z - 1) /\ download.wide \in BOOLEAN /\ (download.wide => IsLarge)
    BY <1>1 DEF Rising
  <2> HIDE DEF l
  <2> QED BY <1>4, <2>1, <2>2, <2>3, <2>4, <2>5 DEF Rising
<1>6. /\ Width \in {2, 4} /\ Width' = Width /\ b \in Nat /\ b + Len(onWay) = Width * l
      /\ onWay \in Seq(Digits) /\ \A k \in 1..Len(onWay) : onWay[k] = Stream(b + k - 1)
  <2>1. decoder \in Decoder
    BY <1>1 DEF Decoded
  <2> QED BY <1>1, <1>2, <2>1, DecoderIs DEF Arriving, Width, Digits
<1>7. ASSUME NEW p \in Nat, p < Width * l PROVE Stream(p)' = Stream(p)
  <2>1. (p \div Width) + 1 \in 1..l
    BY <1>1, <1>7, StreamDigit
  <2>2. acks'[(p \div Width) + 1] = acks[(p \div Width) + 1]
    BY <1>4, <2>1
  <2>3. Stream(p)' = Digit(acks'[(p \div Width) + 1], Width - 1 - (p % Width))
    BY <1>6 DEF Stream
  <2> QED BY <2>2, <2>3 DEF Stream
<1>8. ASSUME NEW j \in 1..Width, NEW p, p = Width * l + j - 1 PROVE Stream(p)' = Digit(v, Width - j)
  <2>1. p \div Width = l /\ p % Width = j - 1
    <3>1. l \in Nat /\ Width \in Nat /\ j - 1 \in 0..(Width - 1)
      BY <1>1, <1>6
    <3>2. (l * Width + (j - 1)) \div Width = l /\ (l * Width + (j - 1)) % Width = j - 1
      BY ONLY <3>1, DivIs
    <3>3. p = l * Width + (j - 1)
      BY <1>8, <3>1
    <3> QED BY <3>2, <3>3
  <2>2. Width - 1 - (j - 1) = Width - j
    BY <1>6
  <2>3. Stream(p)' = Digit(acks'[l + 1], Width - 1 - (j - 1))
    BY <1>6, <2>1 DEF Stream
  <2> QED BY <1>4, <2>2, <2>3
<1>9. /\ onWay' \in Seq(Digits) /\ Len(onWay') = Len(onWay) + Width
      /\ \A k \in 1..Len(onWay) : onWay'[k] = onWay[k]
      /\ \A j \in 1..Width : onWay'[Len(onWay) + j] = Digit(v, Width - j)
  <2> DEFINE d0 == Digit(v, 0)
             d1 == Digit(v, 1)
             d2 == Digit(v, 2)
             d3 == Digit(v, 3)
  <2>1. d0 \in Digits /\ d1 \in Digits /\ d2 \in Digits /\ d3 \in Digits
    BY <1>3, Decomposed
  <2>2. CASE download.wide
    <3>1. onWay' = onWay \o <<d3, d2>> \o <<d1, d0>> /\ Width = 4
      BY <1>2, <2>2 DEF Width
    <3> HIDE DEF d0, d1, d2, d3
    <3>2. /\ onWay' \in Seq(Digits) /\ Len(onWay') = Len(onWay) + 4
          /\ \A k \in 1..Len(onWay) : onWay'[k] = onWay[k]
          /\ onWay'[Len(onWay) + 1] = d3 /\ onWay'[Len(onWay) + 2] = d2 /\ onWay'[Len(onWay) + 3] = d1 /\ onWay'[Len(onWay) + 4] = d0
      <4> HIDE DEF Digits
      <4>1. <<d3, d2>> \in Seq(Digits) /\ <<d1, d0>> \in Seq(Digits)
        BY <2>1
      <4> QED BY <1>6, <3>1, <4>1
    <3>3. \A j \in 1..4 : j = 1 \/ j = 2 \/ j = 3 \/ j = 4
      OBVIOUS
    <3> QED BY <3>1, <3>2, <3>3 DEF d0, d1, d2, d3
  <2>3. CASE ~download.wide
    <3>1. onWay' = onWay \o <<>> \o <<d1, d0>> /\ Width = 2
      BY <1>2, <2>3 DEF Width
    <3> HIDE DEF d0, d1, d2, d3
    <3>2. /\ onWay' \in Seq(Digits) /\ Len(onWay') = Len(onWay) + 2
          /\ \A k \in 1..Len(onWay) : onWay'[k] = onWay[k]
          /\ onWay'[Len(onWay) + 1] = d1 /\ onWay'[Len(onWay) + 2] = d0
      <4> HIDE DEF Digits
      <4>1. <<d1, d0>> \in Seq(Digits) /\ onWay \o <<>> = onWay
        BY <1>6, <2>1
      <4> QED BY <1>6, <2>1, <3>1, <4>1
    <3>3. \A j \in 1..2 : j = 1 \/ j = 2
      OBVIOUS
    <3> QED BY <3>1, <3>2, <3>3 DEF d0, d1, d2, d3
  <2> QED BY <2>2, <2>3
<1>10. Arriving'
  <2>1. b + Len(onWay') = Width * (l + 1)
    <3>1. Width * (l + 1) = Width * l + Width
      BY <1>1, <1>6
    <3>2. Len(onWay) \in Nat /\ Width * l \in Nat /\ Width \in Nat
      BY <1>1, <1>6
    <3> DEFINE w == Width * l
               u == Width * (l + 1)
               s == Len(onWay)
    <3>3. b + s = w /\ Len(onWay') = s + Width /\ u = w + Width
      BY <1>6, <1>9, <3>1
    <3>4. b \in Nat /\ s \in Nat /\ w \in Nat
      BY <1>6, <3>2
    <3> HIDE DEF w, u, s, b
    <3>5. b + Len(onWay') = u
      BY <3>2, <3>3, <3>4
    <3> QED BY <3>5 DEF b, u
  <2>2. ASSUME NEW k \in 1..Len(onWay'), NEW p, p = b + k - 1 PROVE onWay'[k] = Stream(p)'
    <3> DEFINE w == Width * l
               s == Len(onWay)
    <3>0. /\ s \in Nat /\ w = b + s /\ Len(onWay') = s + Width /\ w \in Nat /\ Width \in Nat
          /\ k \in 1..(s + Width) /\ p = b + k - 1
      <4>1. s \in Nat
        BY <1>6
      <4>2. w = b + s /\ b \in Nat /\ Width \in Nat /\ Len(onWay') = s + Width
        BY <1>6, <1>9
      <4> HIDE DEF w, s, b
      <4>3. w \in Nat
        BY <4>1, <4>2
      <4> QED BY <2>2, <4>1, <4>2, <4>3 DEF b
    <3>1. CASE k <= s
      <4> HIDE DEF s, w
      <4>1. k \in 1..s /\ p \in Nat /\ p < w
        <5>1. b \in Nat
          BY <1>6
        <5> HIDE DEF b
        <5>2. k \in Nat /\ 1 <= k
          BY <3>0
        <5> QED BY ONLY <3>0, <3>1, <5>1, <5>2
      <4>2. Stream(p)' = Stream(p)
        BY <1>7, <4>1 DEF w
      <4>3. onWay'[k] = onWay[k] /\ onWay[k] = Stream(p)
        BY <1>6, <1>9, <3>0, <4>1 DEF s
      <4> QED BY <4>2, <4>3
    <3>2. CASE k > s
      <4> HIDE DEF s, w, b
      <4>1. k - s \in 1..Width /\ p = w + (k - s) - 1 /\ s + (k - s) = k
        BY <1>6, <3>0, <3>2
      <4>2. onWay'[s + (k - s)] = Digit(v, Width - (k - s))
        BY <1>9, <4>1 DEF s
      <4>3. Stream(p)' = Digit(v, Width - (k - s))
        BY <1>8, <4>1 DEF w
      <4> QED BY <4>1, <4>2, <4>3
    <3> QED BY <3>0, <3>1, <3>2
  <2>3. Width' = Width /\ decoder' = decoder /\ Len(acks') = l + 1
    BY <1>2, <1>4, <1>6
  <2> HIDE DEF l
  <2> QED BY <1>9, <2>1, <2>2, <2>3 DEF Arriving, Digits
<1>11. /\ n \in 0..l /\ (n = l => b % Width = 0) /\ (b > 0 => 1 \in 1..l)
       /\ \A i \in 1..l : acks'[i] = acks[i]
  <2>1. n \in Nat /\ b % Width \in 0..(Width - 1) /\ b = n * Width + (b % Width)
    BY <1>6, Turn
  <2>2. Len(onWay) \in Nat /\ b <= Width * l
    <3>1. Len(onWay) \in Nat
      BY <1>6
    <3> QED BY <1>1, <1>6, <3>1
  <2> HIDE DEF n, l, b
  <2>3. CASE Width = 2
    BY <1>1, <1>4, <1>6, <2>1, <2>2, <2>3 DEF l
  <2>4. CASE Width = 4
    BY <1>1, <1>4, <1>6, <2>1, <2>2, <2>4 DEF l
  <2> QED BY <1>6, <2>3, <2>4
<1>12. \A m \in 0..l : Before(m)' = Before(m)
  BY <1>11 DEF Before
<1>13. ASSUME NEW top \in {2, 4} PROVE Joins(decoder, top)' <=> Joins(decoder, top)
  <2>1. n < l => acks'[n + 1] = acks[n + 1]
    <3>1. n < l => n + 1 \in 1..l
      BY <1>1, <1>11
    <3> QED BY <1>11, <3>1
  <2>2. decoder' = decoder /\ n' = n /\ Before(n)' = Before(n)
    <3>1. decoder' = decoder /\ n' = n
      BY <1>2, <1>6
    <3>2. n # 0 => acks'[n] = acks[n]
      BY <1>1, <1>11
    <3> HIDE DEF n
    <3> QED BY <3>1, <3>2 DEF Before
  <2>3. CASE n < l
    BY <1>6, <2>1, <2>2, <2>3 DEF Joins
  <2>4. CASE ~(n < l)
    <3>1. b % Width = 0
      BY <1>1, <1>11, <2>4
    <3>2. \A k \in 0..3 : ~(k < top /\ k >= top - 0)
      OBVIOUS
    <3> QED BY <1>6, <2>2, <3>1, <3>2 DEF Joins
  <2> QED BY <2>3, <2>4
<1>14. Said(decoder)' <=> Said(decoder)
  <2>1. n >= 1 => n \in 1..l
    BY <1>1, <1>11
  <2> QED BY <1>2, <1>6, <1>11, <2>1 DEF Said
<1>15. b >= 2 => acks'[1] = acks[1]
  BY <1>6, <1>11
<1>16. NarrowKnown' => NarrowKnown
  <2>1. CASE acks = <<>>
    BY <2>1 DEF NarrowKnown
  <2>2. CASE acks # <<>>
    <3>1. 1 \in 1..l
      BY <1>1, <2>2 DEF Rising
    <3>2. acks' # <<>> /\ acks'[1] = acks[1] /\ IsLarge' = IsLarge
      BY <1>2, <1>4, <3>1 DEF IsLarge
    <3> QED BY <1>2, <3>2 DEF NarrowKnown
  <2> QED BY <2>1, <2>2
<1>17. Decoded(decoder)'
  <2>1. decoder' = decoder /\ download' = download
    BY <1>2
  <2>2. Narrow(decoder) => Narrow(decoder)'
    BY <1>13, <1>14, <2>1 DEF Narrow
  <2>3. Wide(decoder) => Wide(decoder)'
    BY <1>13, <1>14, <1>15, <2>1 DEF Wide
  <2>4. Untold(decoder) => Untold(decoder)'
    BY <1>13, <1>15, <2>1 DEF Untold
  <2> QED BY <1>1, <1>16, <2>1, <2>2, <2>3, <2>4 DEF Decoded, Decoder
<1> QED BY <1>5, <1>10, <1>17 DEF AckInv

\* The start of a transfer.
LEMMA AckInit ==
  ASSUME AcksAssumption, AcksInit
  PROVE  AckInv
<1>1. /\ download.size \in Size /\ download.start \in 0..(download.size - 1) /\ download.wide \in BOOLEAN
      /\ (download.wide => IsLarge) /\ acks = <<>> /\ onWay = <<>>
      /\ decoder \in Decoder /\ decoder.curack = 0 /\ decoder.firstack = 0 /\ decoder.lastack = download.start
      /\ decoder.bytesgot = 0 /\ (decoder.mirc_dcc64 => download.wide)
  <2>1. PICK s \in Size, wide \in BOOLEAN, knows \in BOOLEAN : \E start \in 0..(s - 1) :
          /\ wide => s >= Word
          /\ knows => wide
          /\ download = [size |-> s, start |-> start, wide |-> wide]
          /\ decoder = [mirc_dcc64 |-> knows, curack |-> 0, firstack |-> 0, lastack |-> start, bytesgot |-> 0]
    BY DEF AcksInit
  <2>2. PICK start \in 0..(s - 1) :
          /\ wide => s >= Word
          /\ knows => wide
          /\ download = [size |-> s, start |-> start, wide |-> wide]
          /\ decoder = [mirc_dcc64 |-> knows, curack |-> 0, firstack |-> 0, lastack |-> start, bytesgot |-> 0]
    BY <2>1
  <2>3. decoder \in Decoder
    BY <2>2 DEF Decoder
  <2> QED BY <2>2, <2>3 DEF AcksInit, IsLarge
<1>2. Rising /\ Width \in {2, 4}
  BY <1>1 DEF Rising, Width
<1>3. Arriving
  BY <1>1, <1>2 DEF Arriving
<1>4. 0 \div Width = 0 /\ 0 % Width = 0
  BY <1>2
<1>5. ASSUME NEW top \in {2, 4} PROVE Joins(decoder, top)
  <2>1. \A k \in 0..3 : ~(k < top /\ k >= top - 0)
    OBVIOUS
  <2>2. 0 \in LongInt /\ \A k \in 0..3 : Digit(0, k) = 0
    BY NoDigits
  <2> QED BY <1>1, <1>4, <2>1, <2>2 DEF Joins, Before, LongInt
<1>6. Said(decoder)
  BY <1>1, <1>4 DEF Said
<1>7. download.wide /\ decoder.mirc_dcc64 => Wide(decoder)
  BY <1>1, <1>5, <1>6 DEF Wide
<1>8. download.wide /\ ~decoder.mirc_dcc64 => Untold(decoder)
  BY <1>1, <1>5 DEF Untold
<1>9. ~download.wide => Narrow(decoder)
  BY <1>1, <1>5, <1>6 DEF Narrow
<1>10. Decoded(decoder)
  BY <1>1, <1>7, <1>8, <1>9 DEF Decoded
<1> QED BY <1>2, <1>3, <1>10 DEF AckInv

-----------------------------------------------------------------------------
(* Acknowledgements: the theorem *)

\* No number is above the one said last.
LEMMA AtMostLast ==
  ASSUME AcksAssumption, Rising, NEW i \in 1..Len(acks)
  PROVE  acks[i] <= LastAck
<1> DEFINE l == Len(acks)
           P == {m \in 0..(l - i) : acks[i] <= acks[i + m]}
<1>1. l \in Nat /\ i \in 1..l /\ \A j \in 1..l : acks[j] \in LongInt
  BY Spans
<1>2. 0 \in P
  BY <1>1 DEF LongInt
<1>3. ASSUME NEW m \in 1..(l - i), m - 1 \in P PROVE m \in P
  <2>1. i + m - 1 \in 1..(l - 1) /\ i + m \in 1..l /\ (i + m - 1) + 1 = i + m /\ i + (m - 1) = i + m - 1
    BY <1>1
  <2>2. acks[i + m - 1] <= acks[i + m]
    BY <2>1 DEF Rising
  <2>3. acks[i] <= acks[i + m - 1]
    BY <1>3, <2>1
  <2>4. acks[i] <= acks[i + m]
    BY <1>1, <2>1, <2>2, <2>3 DEF LongInt
  <2> QED BY <2>4
<1>4. 0..(l - i) \subseteq P
  <2>1. l - i \in Nat
    BY <1>1
  <2> HIDE DEF P
  <2> QED BY <1>2, <1>3, <2>1, Climb
<1>5. acks[i] <= acks[l]
  <2>1. l - i \in 0..(l - i) /\ i + (l - i) = l
    BY <1>1
  <2>2. l - i \in P
    BY <1>4, <2>1
  <2> QED BY <2>1, <2>2
<1>6. acks # <<>>
  BY <1>1
<1>7. LastAck = acks[l]
  BY <1>6 DEF LastAck
<1> QED BY <1>5, <1>7

\* What is believed follows.
LEMMA Believed ==
  ASSUME AcksAssumption, AckInv
  PROVE  AckExact
<1> SUFFICES ASSUME Recognised PROVE AckExact
  BY DEF AckExact
<1> DEFINE b == decoder.bytesgot
           n == b \div Width
           l == Len(acks)
<1>1. Rising /\ Arriving /\ Decoded(decoder)
  BY DEF AckInv
<1>2. /\ Width \in {2, 4} /\ l \in Nat /\ download.start \in LongInt
      /\ \A i \in 1..l : acks[i] \in LongInt
  BY <1>1, Spans DEF Width
<1>3. b \in Nat /\ decoder.lastack \in Int
  BY <1>1, DecoderIs DEF Decoded
<1>4. n \in 0..l /\ (b > 0 => 1 \in 1..l) /\ (n = 0 => b < Width) /\ (b > 0 /\ b % Width = 0 => n >= 1)
  <2>1. n \in Nat /\ b % Width \in 0..(Width - 1) /\ b = n * Width + (b % Width)
    BY <1>2, <1>3, Turn
  <2>2. b <= Width * l
    <3>1. Len(onWay) \in Nat /\ b + Len(onWay) = Width * l
      BY <1>1 DEF Arriving
    <3> QED BY <1>2, <1>3, <3>1
  <2> HIDE DEF n, l, b
  <2>3. CASE Width = 2
    BY <1>2, <1>3, <2>1, <2>2, <2>3
  <2>4. CASE Width = 4
    BY <1>2, <1>3, <2>1, <2>2, <2>4
  <2> QED BY <1>2, <2>3, <2>4
<1>5. download.start <= LastAck /\ \A i \in 1..l : acks[i] <= LastAck
  <2>1. CASE l = 0
    <3>1. acks = <<>>
      BY <1>1, <2>1 DEF Rising
    <3> QED BY <1>2, <2>1, <3>1 DEF LastAck, LongInt
  <2>2. CASE l > 0
    <3>1. 1 \in 1..l
      BY <1>2, <2>2
    <3>2. ASSUME NEW i \in 1..l PROVE acks[i] <= LastAck
      BY <1>1, <3>2, AtMostLast
    <3>3. acks[1] <= LastAck /\ download.start <= acks[1]
      <4>1. acks # <<>>
        BY <3>1
      <4> QED BY <1>1, <3>1, <3>2, <4>1 DEF Rising
    <3>4. LastAck \in LongInt
      <4>1. l \in 1..l /\ acks # <<>>
        BY <1>2, <3>1
      <4> QED BY <1>2, <4>1 DEF LastAck
    <3> QED BY <1>2, <3>1, <3>2, <3>3, <3>4 DEF LongInt
  <2> QED BY <1>2, <2>1, <2>2
<1>6. Said(decoder) /\ (n = 0 => decoder.lastack <= LastAck) => AckExact
  <2> SUFFICES ASSUME Said(decoder), n = 0 => decoder.lastack <= LastAck PROVE AckExact
    OBVIOUS
  <2>1. n >= 1 => decoder.lastack = acks[n] /\ n \in 1..l
    BY <1>4 DEF Said
  <2>2. decoder.lastack <= LastAck
    BY <1>4, <1>5, <2>1
  <2> QED BY <1>4, <2>1, <2>2 DEF AckExact, Width
<1>7. CASE ~download.wide
  <2>1. NarrowKnown
    BY <1>7 DEF Recognised, NarrowKnown
  <2>2. Narrow(decoder) /\ Width = 2
    BY <1>1, <1>7, <2>1 DEF Decoded, Width
  <2>3. n = 0 => decoder.lastack = download.start
    BY <1>4, <2>2 DEF Narrow
  <2> QED BY <1>5, <1>6, <2>2, <2>3 DEF Narrow
<1>8. CASE download.wide /\ decoder.mirc_dcc64
  <2>1. Wide(decoder) /\ Width = 4
    BY <1>1, <1>8 DEF Decoded, Width
  <2>2. ASSUME n = 0 PROVE decoder.lastack <= LastAck
    <3>1. \/ decoder.lastack = download.start
          \/ b >= 2 /\ decoder.lastack = (acks[1] \div Word) * Word
      BY <1>4, <2>1, <2>2 DEF Wide
    <3>2. CASE b >= 2 /\ decoder.lastack = (acks[1] \div Word) * Word
      <4> DEFINE v == acks[1]
                 u == v \div Word
                 w == v % Word
      <4>1. 1 \in 1..l
        BY <1>3, <1>4, <3>2
      <4>2. v \in LongInt /\ v <= LastAck
        BY <1>2, <1>5, <4>1
      <4>3. Word \in Nat /\ u \in Nat /\ w \in Nat /\ v = u * Word + w
        <5>1. v = (v \div Word) * Word + (v % Word) /\ v \div Word \in 0..(Word - 1) /\ v % Word \in 0..(Word - 1)
          BY <4>2, Decomposed
        <5> QED BY <5>1, Weights
      <4>4. decoder.lastack = u * Word
        BY <3>2
      <4>6. LastAck \in Int
        <5>1. l \in 1..l /\ acks # <<>>
          BY <1>2, <4>1
        <5> QED BY <1>2, <5>1 DEF LastAck, LongInt
      <4> HIDE DEF u, w, v
      <4>5. u * Word \in Nat /\ u * Word <= v
        BY ONLY <4>3
      <4> QED BY <4>2, <4>3, <4>4, <4>5, <4>6
    <3> QED BY <1>5, <3>1, <3>2
  <2> QED BY <1>6, <2>1, <2>2 DEF Wide
<1>9. CASE download.wide /\ ~decoder.mirc_dcc64
  <2>1. Untold(decoder) /\ Width = 4
    BY <1>1, <1>9 DEF Decoded, Width
  <2>2. b < 2
    <3> SUFFICES ASSUME b >= 2 PROVE FALSE
      BY <1>3
    <3>1. 1 \in 1..l
      BY <1>3, <1>4
    <3>2. acks[1] \div Word > download.start /\ acks # <<>>
      BY <1>3, <2>1, <3>1 DEF Untold
    <3>3. acks[1] \div Word <= download.start
      BY <1>1, <1>9, <3>2 DEF Recognised, Rising
    <3>4. acks[1] \div Word \in Int /\ download.start \in Int
      BY <1>2, <3>1, Decomposed DEF LongInt
    <3> QED BY <3>2, <3>3, <3>4
  <2>3. decoder.lastack = download.start /\ n = 0
    BY <1>3, <2>1, <2>2 DEF Untold
  <2>4. Said(decoder)
    BY <2>3 DEF Said
  <2> QED BY <1>5, <1>6, <2>3, <2>4
<1> QED BY <1>7, <1>8, <1>9

\* AckExact: verify_acknowlede and t_readjunk get every number the user says, if they
\* can know how he counts, wherever recv cuts what he sends.
THEOREM AckExactHolds ==
  ASSUME AcksAssumption
  PROVE  AcksSpec => []AckExact
<1>1. AcksInit => AckInv
  BY AckInit
<1>2. AckInv /\ [AcksNext]_ackVars => AckInv'
  <2> SUFFICES ASSUME AckInv, [AcksNext]_ackVars PROVE AckInv'
    OBVIOUS
  <2>1. CASE UNCHANGED ackVars
    BY <2>1 DEF ackVars, AckInv, Rising, Arriving, Decoded, NarrowKnown, Narrow, Wide, Untold, Joins, Said, Before, Width, IsLarge, Size, Stream
  <2>2. ASSUME NEW v \in 1..download.size, Ack(v) PROVE AckInv'
    BY <2>2, AckKeeps
  <2>3. ASSUME NEW n \in 1..Len(onWay), t_readjunk(n) PROVE AckInv'
    BY <2>3, ReadKeeps
  <2> QED BY <2>1, <2>2, <2>3 DEF AcksNext
<1>3. AckInv => AckExact
  BY Believed
<1> QED BY <1>1, <1>2, <1>3, PTL DEF AcksSpec
=============================================================================
