------------------------------- MODULE Access -------------------------------
(***************************************************************************)
(* The doors that ask for a password: telnet, DCC CHAT to and from an      *)
(* administrator (src/dinoex_telnet.c, src/dinoex_chat.c,                  *)
(* src/iroffer_dccchat.c), with TLS or not, and the pages below /admin of  *)
(* the HTTP server (src/dinoex_http.c).  Wrong passwords are counted by    *)
(* address; an address with more than MaxBad is turned away until it was   *)
(* silent for an hour (src/dinoex_badip.c).  A CHATME listener counts an   *)
(* IPv6 address by its first half, the other doors by all of it, so that   *)
(* an address has chances of its own there.                                *)
(*                                                                         *)
(* A chat that is shut down is taken off the list at the end of the same   *)
(* pass of the main loop, here at once.                                    *)
(***************************************************************************)
EXTENDS Integers, Sequences, FiniteSets, Queues

CONSTANTS
  Address,
  net,        \* the first half of an address that is IPv6, else the address
  Denied,     \* addresses telnet_deny and http_deny name
  MaxBad,     \* 10
  Hour,       \* an hour in steps of the clock
  MaxOpen, MaxCount   \* bounds: connections; passwords counted for an address

ASSUME AccessAssumption == {MaxBad, Hour, MaxOpen, MaxCount} \subseteq Nat

Key == Address \cup {net[a] : a \in Address}

\* The key by which a door counts an address; chat_accept asks for no more bytes than
\* an IPv4 address has, and gets half of one that is IPv6.
Door == {"telnet", "dcc chat", "chatme", "http"}
SeenAs(a, door) == IF door = "chatme" THEN net[a] ELSE a
Unknown == "-"   \* nobody has connected yet

VARIABLES
  bad,     \* address -> count of wrong passwords and time since the last contact
  chats,   \* gdata.dccchats: key, ssl, status
  https    \* gdata.https: key, status

acVars == <<bad, chats, https>>

ChatStatus == {"LISTENING", "DEAF", "SSL_ACCEPT", "CONNECTING", "SSL_CONNECT", "AUTHENTICATING", "CONNECTED"}
ChatRecord == [key : Key \cup {Unknown}, ssl : BOOLEAN, status : ChatStatus]
HttpRecord == [key : Key, status : {"GETTING", "POST", "SENDING"}]
AccessTypeOK ==
  /\ \A k \in Key : bad[k].count \in 0..MaxCount /\ bad[k].age \in 0..(Hour + 1)
  /\ chats \in Seq(ChatRecord) /\ https \in Seq(HttpRecord)
  /\ Len(chats) + Len(https) <= MaxOpen

AccessInit == bad = [k \in Key |-> [count |-> 0, age |-> 0]] /\ chats = <<>> /\ https = <<>>
-----------------------------------------------------------------------------
(* The list of bad addresses *)

\* is_in_badip; asking is a contact.
is_in_badip(k) == bad[k].count > MaxBad
Asked(k) == IF bad[k].count = 0 THEN bad ELSE [bad EXCEPT ![k].age = 0]
count_badip(k, n) == bad' = IF n = 0 THEN bad ELSE [bad EXCEPT ![k] = [count |-> @.count + n, age |-> 0]]

\* Every 20 seconds.
expire_badip ==
  /\ \E k \in Key : bad[k].age > Hour
  /\ bad' = [k \in Key |-> IF bad[k].age > Hour THEN [count |-> 0, age |-> 0] ELSE bad[k]]
  /\ UNCHANGED <<chats, https>>

Set(seq, i, status) ==   \* "GONE": the entry goes
  IF status = "GONE" THEN Drop(seq, i) ELSE [seq EXCEPT ![i].status = status]
Chat(k, ssl, status) == [key |-> k, ssl |-> ssl, status |-> status]
-----------------------------------------------------------------------------
(* Chats *)

telnet_accept(a) ==
  /\ bad' = Asked(a)
  /\ chats' = IF is_in_badip(a) \/ a \in Denied THEN chats
              ELSE Append(chats, Chat(a, FALSE, "AUTHENTICATING"))
  /\ UNCHANGED https

\* DCC CHAT of a mask that is an administrator's: the bot connects to the address given.
chat_setup(a, ssl) ==
  /\ bad' = Asked(a)
  /\ \/ ~is_in_badip(a) /\ chats' = Append(chats, Chat(a, ssl, "CONNECTING"))
     \/ UNCHANGED chats   \* blocked, or connect fails
  /\ UNCHANGED https

\* CHATME, or a passive DCC CHAT.
chat_setup_out(ssl) == chats' = Append(chats, Chat(Unknown, ssl, "LISTENING")) /\ UNCHANGED <<bad, https>>

\* The banner and the prompt, once the TLS handshake is over.
Greeted(ssl, shaking) == IF ssl THEN {shaking, "AUTHENTICATING", "GONE"} ELSE {"AUTHENTICATING"}

\* After a failed accept the listener is closed and the chat left as it is.
chat_accept(i, a) ==
  LET k == SeenAs(a, "chatme")
  IN /\ chats[i].status = "LISTENING"
     /\ \/ chats' = Set(chats, i, "DEAF") /\ UNCHANGED bad
        \/ /\ bad' = Asked(k)
           /\ \E s \in IF is_in_badip(k) THEN {"GONE"} ELSE Greeted(chats[i].ssl, "SSL_ACCEPT") :
                chats' = Set([chats EXCEPT ![i].key = k], i, s)
     /\ UNCHANGED https

chat_connected(i) ==
  /\ chats[i].status = "CONNECTING"
  /\ \E s \in {"GONE"} \cup Greeted(chats[i].ssl, "SSL_CONNECT") : chats' = Set(chats, i, s)
  /\ UNCHANGED <<bad, https>>

\* chat_accept_retry_ssl, chat_connect_retry_ssl
Handshake(i) ==
  /\ chats[i].status \in {"SSL_ACCEPT", "SSL_CONNECT"}
  /\ \E s \in {"AUTHENTICATING", "GONE"} : chats' = Set(chats, i, s)
  /\ UNCHANGED <<bad, https>>

\* parsedccchat, for a chat's status and the number of wrong passwords so far.
Refused_Again(n) == [status |-> "AUTHENTICATING", wrong |-> n]   \* seeded defect: not shut down
Refused(n) == [status |-> "GONE", wrong |-> n]
parsedccchat(s, line) ==
  CASE s.status = "AUTHENTICATING" /\ line = "password" -> [s EXCEPT !.status = "CONNECTED"]
    [] s.status = "AUTHENTICATING" /\ line # "password" -> Refused(s.wrong + 1)
    [] s.status = "CONNECTED" /\ line = "QUIT" -> [s EXCEPT !.status = "GONE"]
    [] OTHER -> s

\* What one read brings: lines, the last of them maybe for a chat already shut down.
Parsed(status, lines) ==
  LET after[k \in 0..Len(lines)] ==
        IF k = 0 THEN [status |-> status, wrong |-> 0] ELSE parsedccchat(after[k - 1], lines[k])
  IN after
chat_read(i, lines) ==
  LET s == Parsed(chats[i].status, lines)[Len(lines)]
  IN /\ chats[i].status \in {"AUTHENTICATING", "CONNECTED"}
     /\ count_badip(chats[i].key, s.wrong)
     /\ chats' = Set(chats, i, s.status)
     /\ UNCHANGED https

\* Closed by the peer, CLOSEC, or chat_istimeout.
chat_shutdown(i) == chats' = Set(chats, i, "GONE") /\ UNCHANGED <<bad, https>>
closec_all == chats # <<>> /\ chats' = <<>> /\ UNCHANGED <<bad, https>>
-----------------------------------------------------------------------------
(* HTTP *)

http_accept(a) ==
  /\ bad' = Asked(a)
  /\ https' = IF is_in_badip(a) THEN https
              ELSE Append(https, [key |-> a, status |-> IF a \in Denied THEN "SENDING" ELSE "GETTING"])
  /\ UNCHANGED chats

\* h_get, and h_post when the body of a POST came late.  A page below /admin asked for
\* without a password counts as a wrong one.
h_request(i, page) ==
  /\ https[i].status \in {"GETTING", "POST"}
  /\ count_badip(https[i].key, IF page = "admin" THEN 1 ELSE 0)
  /\ https' = Set(https, i, CASE page = "lost" -> "GONE" [] page = "body" -> "POST" [] OTHER -> "SENDING")
  /\ UNCHANGED chats

\* The answer is sent, the connection lost, or five seconds went by.
http_closeconn(i) == https' = Set(https, i, "GONE") /\ UNCHANGED <<bad, chats>>
-----------------------------------------------------------------------------

\* Whoever is left after that long has no timeout.
Tick ==
  /\ https = <<>> /\ \A i \in DOMAIN chats : chats[i].status \in {"CONNECTING", "AUTHENTICATING", "CONNECTED"}
  /\ bad' = [k \in Key |-> IF bad[k].count = 0 \/ bad[k].age > Hour THEN bad[k] ELSE [bad[k] EXCEPT !.age = @ + 1]]
  /\ UNCHANGED <<chats, https>>

Lines == {<<"password">>, <<"wrong">>, <<"wrong", "password">>, <<"wrong", "wrong">>, <<"password", "QUIT">>, <<"QUIT">>}
AccessEvent ==
  \/ \E a \in Address : telnet_accept(a) \/ http_accept(a)
  \/ \E a \in Address, ssl \in BOOLEAN : chat_setup(a, ssl)
  \/ \E ssl \in BOOLEAN : chat_setup_out(ssl)
  \/ \E i \in DOMAIN chats, a \in Address : chat_accept(i, a)
  \/ \E i \in DOMAIN chats : chat_connected(i) \/ Handshake(i) \/ chat_shutdown(i)
  \/ \E i \in DOMAIN chats, lines \in Lines : chat_read(i, lines)
  \/ \E i \in DOMAIN https, page \in {"lost", "body", "list", "admin"} : h_request(i, page)
  \/ \E i \in DOMAIN https : http_closeconn(i)
  \/ closec_all \/ expire_badip \/ Tick
AccessNext ==
  AccessEvent /\ Len(chats') + Len(https') <= MaxOpen /\ \A k \in Key : bad'[k].count <= MaxCount
AccessSpec == AccessInit /\ [][AccessNext]_acVars
-----------------------------------------------------------------------------
(* Properties *)

\* The passwords tried from an address, and the connections that may still try one.
MayTry(c, k) == c.key = k /\ c.status \in {"SSL_ACCEPT", "CONNECTING", "SSL_CONNECT", "AUTHENTICATING", "GETTING", "POST"}
Chances ==
  [k \in Key |-> bad[k].count + Count(chats, {c \in ChatRecord : MayTry(c, k)})
                   + Count(https, {c \in HttpRecord : MayTry(c, k)})]

\* Once an address has too many wrong passwords, as a door sees it, it gets no more
\* chances than those it has open, there and at each door that sees the same of it,
\* until it was silent for an hour.  (So one that is IPv6 and blocked at telnet or HTTP
\* has chances of its own at a CHATME listener, and shares those with its half of the net.)
Blocked ==
  [][\A a \in Address, door \in Door :
       LET k == SeenAs(a, door)
       IN is_in_badip(k) /\ bad[k].age <= Hour => Chances'[k] <= Chances[k]]_acVars
=============================================================================
