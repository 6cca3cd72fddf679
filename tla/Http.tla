-------------------------------- MODULE Http --------------------------------
(***************************************************************************)
(* An answer of the HTTP server (src/dinoex_http.c): a request is read,    *)
(* perhaps a body after it, and a file, the pack list or an error is sent, *)
(* as fast as the socket and the bandwidth allow.  Who is let in, and the  *)
(* password, are Access's.                                                 *)
(*                                                                         *)
(* Connections share no state but the files, so there is one.  A block of  *)
(* TXSIZE bytes is one unit; the bytes sent are named by their place in    *)
(* the file or in the page.                                                *)
(***************************************************************************)
EXTENDS Integers, Sequences

CONSTANTS
  MaxSize,         \* of files and pages
  BUFFERSIZE,      \* what one read takes at most
  MAXTXPERLOOP,    \* the bucket of a connection without maxspeed
  Speeds,          \* maxspeed for a quarter of a second, 0: none
  BurstQuarters,   \* 20: what a bucket with a maxspeed holds
  Patience,        \* 5
  Word64           \* 2^64, of the length in a header

ASSUME HttpAssumption ==
  /\ {MaxSize, BUFFERSIZE, MAXTXPERLOOP, BurstQuarters, Patience, Word64} \subseteq Nat
  /\ MaxSize < Word64
  /\ 0 \in Speeds /\ Speeds \subseteq Nat

VARIABLES
  con,    \* the connection
  size    \* of the file it may ask for

httpVars == <<con, size>>

\* file: filedescriptor is open; page: buffer_out is there; from and to: what is still to
\* be sent, range_start and range_end; pos: filepos, of a file.  Ghosts: first and due, where the
\* answer starts and how long it was said to be; body, what was sent; ended.
Gone == [status |-> "DONE", file |-> FALSE, page |-> FALSE, from |-> 0, to |-> 0, pos |-> 0,
         speed |-> 0, bucket |-> 0, quiet |-> 0, first |-> 0, due |-> 0, body |-> <<>>, ended |-> ""]
HttpTypeOK ==
  /\ size \in 0..MaxSize
  /\ con.status \in {"GETTING", "POST", "SENDING", "DONE"} /\ {con.file, con.page} \subseteq BOOLEAN
  /\ con.quiet \in 0..Patience /\ con.to \in 0..MaxSize /\ con.from \in Nat /\ con.speed \in Speeds
  /\ con.bucket \in (-MaxSize)..MAXTXPERLOOP \cup 0..(BurstQuarters * con.speed)

HttpInit == con = Gone /\ size \in 0..MaxSize
-----------------------------------------------------------------------------
(* The answer *)

h_closeconn(c, how) ==
  [c EXCEPT !.status = "DONE", !.file = FALSE, !.page = FALSE, !.quiet = 0, !.ended = how]

\* h_error: a header and nothing else.
h_error(c) == [c EXCEPT !.status = "SENDING", !.to = 0]

\* h_write_status for "length" bytes.  A range ends with the last byte, 0 for the end; its
\* end is cut to "total", its start is not, and may be beyond.  The header gives the
\* difference as an unsigned number.  HEAD, or a file not modified, has no body.
h_write_status(c, length, total, range, head) ==
  LET from == IF range = <<>> THEN 0 ELSE range[1]
      to == CASE range = <<>> -> length
              [] range # <<>> /\ range[2] \in 1..(total - 1) -> range[2] + 1
              [] OTHER -> total
  IN [c EXCEPT !.status = "SENDING", !.from = from, !.to = IF head THEN 0 ELSE to,
               !.first = from, !.due = IF head THEN 0 ELSE (to - from) % Word64]

h_readfile(c, range, head) == [h_write_status(c, size, size, range, head) EXCEPT !.file = TRUE, !.pos = 0]
\* h_readbuffer: totalsize has not been set.
h_readbuffer(c, length, range, head) == [h_write_status(c, length, 0, range, head) EXCEPT !.page = TRUE]
Ranges == {<<>>} \cup ((0..MaxSize) \X (0..MaxSize))

\* h_parse: a page, the list as a page or as a file, a pack, a file of http_dir, or nothing.
h_parse(c) ==
  {h_error(c)}
  \cup {h_readbuffer(c, n, r, head) : n \in 1..MaxSize, r \in Ranges, head \in BOOLEAN}
  \cup {h_readfile([c EXCEPT !.speed = v], r, head) : v \in Speeds, r \in Ranges, head \in BOOLEAN}
-----------------------------------------------------------------------------
(* Sending *)

\* The file is read where the next byte to be sent is.
Sought_Not(c) == c   \* seeded defect: where the last read ended
Sought(c) == [c EXCEPT !.pos = c.from]

\* A turn of h_send's loop: what is read, of a page all of it, and how much of it the
\* socket takes.
Smaller(x, y) == IF x < y THEN x ELSE y
Sent(c, place, read, n) ==
  LET d == [c EXCEPT !.pos = IF c.file THEN @ + read ELSE @, !.from = @ + n, !.bucket = @ - n,
                     !.quiet = IF n > 0 THEN 0 ELSE @,
                     !.body = @ \o [i \in 1..n |-> place + i - 1]]
  IN [c |-> d, again |-> d.bucket >= 1 /\ n > 0]
SendTurn(c) ==
  LET at == IF c.file THEN Sought(c) ELSE c
      place == IF c.file THEN at.pos ELSE c.from
      read == IF c.file THEN Smaller(Smaller(c.bucket, BUFFERSIZE), size - place) ELSE c.to - c.from
  IN IF read <= 0 THEN {[c |-> at, again |-> FALSE]}
     ELSE {Sent(at, place, read, n) : n \in 0..read}
          \cup {[c |-> h_closeconn(at, "lost"), again |-> FALSE]}
Over(c) ==
  IF c.status = "SENDING" /\ c.from >= c.to THEN [c EXCEPT !.file = FALSE, !.page = FALSE] ELSE c

\* As many turns as the bucket has units are enough.
Turns(c) ==
  LET turns[k \in 0..c.bucket] ==
        IF k = 0 THEN {[c |-> c, again |-> TRUE]}
        ELSE UNION {IF r.again THEN SendTurn(r.c) ELSE {r} : r \in turns[k - 1]}
  IN turns[c.bucket]

h_send(c) ==
  LET full == [c EXCEPT !.bucket = IF c.speed = 0 THEN MAXTXPERLOOP ELSE @]
  IN CASE ~c.file /\ ~c.page -> {h_closeconn(c, "complete")}
       [] (c.file \/ c.page) /\ c.to = 0 -> {[c EXCEPT !.file = FALSE, !.page = FALSE]}
       [] (c.file \/ c.page) /\ c.to # 0 /\ full.bucket < 1 -> {c}   \* h_bandwith
       [] OTHER -> {Over(r.c) : r \in Turns(full)}
-----------------------------------------------------------------------------
(* h_perform *)

Becomes(cs) == con' \in cs /\ UNCHANGED size

\* Turned away at once, or with an error or the file http_forbidden; or the request is awaited.
h_accept ==
  /\ con.status = "DONE"
  /\ Becomes({[Gone EXCEPT !.ended = "lost"], [Gone EXCEPT !.status = "GETTING"],
              h_error(Gone), h_readfile(Gone, <<>>, FALSE)})
h_get ==
  /\ con.status = "GETTING"
  /\ LET c == [con EXCEPT !.quiet = 0]
     IN Becomes({h_closeconn(c, "lost"), [c EXCEPT !.status = "POST"]} \cup h_parse(c))
h_post ==
  /\ con.status = "POST"
  /\ LET c == [con EXCEPT !.quiet = 0] IN Becomes({h_closeconn(c, "lost")} \cup h_parse(c))
Writable == con.status = "SENDING" /\ Becomes(h_send(con))
Quarter ==
  /\ con.status # "DONE" /\ con.speed > 0
  /\ Becomes({[con EXCEPT !.bucket = Smaller(@ + con.speed, BurstQuarters * con.speed)]})
\* Nothing happened on the socket in this second.
h_istimeout ==
  /\ con.status # "DONE"
  /\ Becomes({IF con.quiet = Patience THEN h_closeconn(con, "timeout") ELSE [con EXCEPT !.quiet = @ + 1]})
Resized == size' \in 0..MaxSize /\ UNCHANGED con

HttpNext == h_accept \/ h_get \/ h_post \/ Writable \/ Quarter \/ h_istimeout \/ Resized
HttpSpec == HttpInit /\ [][HttpNext]_httpVars
-----------------------------------------------------------------------------
(* Properties *)

\* Whatever the socket takes of each write, and though the file changes meanwhile, the
\* client gets the bytes from where it asked, in order and each once; an answer that
\* ends as complete has the length it was said to have, at least, when it does not start
\* behind its end; and what is over keeps neither file nor page.  (A range that starts
\* behind its end, or any of a page but from 0, is announced as almost 2^64 bytes and
\* ends as complete with few or none.)
HttpWhole ==
  /\ con.body = [i \in 1..Len(con.body) |-> con.first + i - 1]
  /\ con.ended = "complete" /\ con.first <= con.to => Len(con.body) >= con.due
  /\ con.status = "DONE" => ~con.file /\ ~con.page
=============================================================================
