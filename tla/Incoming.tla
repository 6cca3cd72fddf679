------------------------------ MODULE Incoming ------------------------------
(***************************************************************************)
(* What comes in: uploads by DCC (src/dinoex_upload.c, src/iroffer_upload.c),*)
(* requests an administrator sends to other bots with GET, and downloads   *)
(* with FETCH (src/dinoex_curl.c), which share max_uploads                 *)
(* (src/dinoex_jobs.c).                                                    *)
(*                                                                         *)
(* A place that becomes free is offered to what waits from inside the      *)
(* event that frees it.  A GET is matched to the upload it leads to by the *)
(* nick alone.                                                             *)
(***************************************************************************)
EXTENDS Integers, Sequences, FiniteSets, Queues

CONSTANTS
  Nick,            \* who sends; a network is part of the name
  Name,            \* names of files
  max_uploads,     \* 0: no limit
  MaxQueue         \* bound: entries of each list

ASSUME IncomingAssumption == max_uploads \in Nat

VARIABLES
  uploads,   \* nick, file, port (0: passive), status, resumed
  gets,      \* quploadhost: nick, state
  fetches,   \* fetch_trans: names of files
  later,     \* fetch_queue: names of files
  files      \* name -> "none", "part", "full" (as long as what is announced)

inVars == <<uploads, gets, fetches, later, files>>
State == [uploads |-> uploads, gets |-> gets, fetches |-> fetches, later |-> later, files |-> files]
Become(s) ==
  /\ uploads' = s.uploads /\ gets' = s.gets /\ fetches' = s.fetches
  /\ later' = s.later /\ files' = s.files
  /\ \A n \in {Len(uploads'), Len(gets'), Len(fetches'), Len(later')} : n <= MaxQueue

Upload == [nick : Nick, file : Name, port : {0, 1}, resumed : BOOLEAN,
           status : {"UNUSED", "RESUME", "LISTENING", "CONNECTING", "GETTING", "WAITING", "DONE"}]
IncomingTypeOK ==
  /\ uploads \in Seq(Upload) /\ fetches \in Seq(Name) /\ later \in Seq(Name)
  /\ gets \in Seq([nick : Nick, state : {"WAITING", "TRYING", "RUNNING"}])
  /\ files \in [Name -> {"none", "part", "full"}]

IncomingInit ==
  /\ uploads = <<>> /\ gets = <<>> /\ fetches = <<>> /\ later = <<>>
  /\ files \in [Name -> {"none", "part"}]
-----------------------------------------------------------------------------
(* The shared limit *)

InState(s, q) == {k \in DOMAIN s.gets : s.gets[k].state = q}

\* A GET that runs is counted beside its upload.
max_uploads_reached_NoFetch(s) ==   \* seeded defect: the fetches are not counted
  /\ max_uploads # 0
  /\ Len(s.uploads) + Cardinality(InState(s, "RUNNING")) >= max_uploads
max_uploads_reached(s) ==
  /\ max_uploads # 0
  /\ Len(s.uploads) + Cardinality(InState(s, "RUNNING")) + Len(s.fetches) >= max_uploads

file_uploading(s, f) ==
  \/ \E i \in DOMAIN s.uploads : s.uploads[i].file = f /\ s.uploads[i].status # "DONE"
  \/ f \in Elems(s.fetches)

\* fetch_now; opening the file or starting curl may fail.
FetchNow(s, f) ==
  LET opened == [s EXCEPT !.files[f] = IF @ = "none" THEN "part" ELSE @]
  IN {s, opened, [opened EXCEPT !.fetches = Append(@, f)]}

\* The next GET, unless one is tried; else the next FETCH, which does not wait again.
start_qupload(s) ==
  LET waits == InState(s, "WAITING")
      next == First(waits)
  IN IF max_uploads_reached(s) THEN {s}
     ELSE IF waits # {} /\ ~\E k \in InState(s, "TRYING") : k < next
       THEN {[s EXCEPT !.gets[next].state = "TRYING"]}
     ELSE IF s.later = <<>> THEN {s}
     ELSE FetchNow([s EXCEPT !.later = Tail(@)], Head(s.later))

\* The first GET of the nick is over, whichever upload ended.
close_qupload(s, n) ==
  LET mine == {k \in DOMAIN s.gets : s.gets[k].nick = n}
  IN IF mine = {} THEN {s} ELSE start_qupload([s EXCEPT !.gets = Drop(@, First(mine))])

qupload_started(s, n) ==
  LET tried == {k \in InState(s, "TRYING") : s.gets[k].nick = n}
  IN IF tried = {} THEN s ELSE [s EXCEPT !.gets[First(tried)].state = "RUNNING"]
-----------------------------------------------------------------------------
(* An upload *)

Closed(s, i) == [s EXCEPT !.uploads[i].status = "DONE"]   \* l_closeconn

\* l_setup_file, then connect or listen.  A part of the file asks to resume; each call
\* may fail.
Established(s, i) ==
  LET u == s.uploads[i]
      active == u.port # 0
      asks == [s EXCEPT !.uploads[i].status = IF active THEN @ ELSE "RESUME"]
      goes == [s EXCEPT !.uploads[i].status = IF active THEN "CONNECTING" ELSE "LISTENING",
                        !.files[u.file] = "part"]
  IN {Closed(s, i)} \cup
     (CASE s.files[u.file] = "full" -> {}
        [] s.files[u.file] = "part" /\ ~u.resumed -> {asks}
        [] OTHER -> {goes, Closed(goes, i)})

\* DCC SEND of a nick that is allowed to.
upload_start(n, f, port) ==
  LET u == [nick |-> n, file |-> f, port |-> port, resumed |-> FALSE, status |-> "UNUSED"]
      s == qupload_started([State EXCEPT !.uploads = Append(@, u)], n)
  IN /\ ~file_uploading(State, f) /\ ~max_uploads_reached(State)
     /\ \E t \in Established(s, Len(s.uploads)) : Become(t)

\* DCC ACCEPT, for the first upload of the nick and port, in whatever state it is.
Accept(n, port) ==
  LET mine == {i \in DOMAIN uploads : uploads[i].nick = n /\ uploads[i].port = port}
      i == First(mine)
  IN /\ mine # {}
     /\ \E t \in Established([State EXCEPT !.uploads[i].resumed = TRUE], i) : Become(t)

\* l_perform: a connection stands, bytes arrive, or something fails.
Progress(i) ==
  LET u == uploads[i]
      got(x, size) == [State EXCEPT !.uploads[i].status = x, !.files[u.file] = size]
  IN /\ u.status \in {"LISTENING", "CONNECTING", "GETTING"}
     /\ Become(IF u.status = "GETTING" THEN got("WAITING", "full")
               ELSE [State EXCEPT !.uploads[i].status = "GETTING"])
Fails(i) == uploads[i].status \in {"LISTENING", "CONNECTING", "GETTING"} /\ Become(Closed(State, i))

CloseU(i) == Become(Closed(State, i))

\* l_istimeout, then all that is done goes, one after another, each from inside the
\* loop starting something new.
Forget(s, i) == [s EXCEPT !.uploads = Drop(@, i)]
Freed_Silent(s, i) == {Forget(s, i)}   \* seeded defect: the GET is not closed
Freed(s, i) == close_qupload(Forget(s, i), s.uploads[i].nick)
Timed(late) ==
  [State EXCEPT !.uploads = [i \in DOMAIN uploads |->
     IF i \in late THEN [uploads[i] EXCEPT !.status = "DONE"] ELSE uploads[i]]]
\* The states after the first 0, 1, ... uploads of s were visited and those in done went.
Visits(s, done) ==
  LET n == Len(s.uploads)
      after[k \in 0..n] ==
        IF k = 0 THEN {s}
        ELSE IF k \notin done THEN after[k - 1]
        ELSE UNION {Freed(t, k - (n - Len(t.uploads))) : t \in after[k - 1]}
  IN after
Second(late) ==
  LET timed == Timed(late)
      done == {i \in DOMAIN uploads : timed.uploads[i].status = "DONE"}
  IN done # {} /\ \E s \in Visits(timed, done)[Len(uploads)] : Become(s)
-----------------------------------------------------------------------------
(* GET and FETCH *)

Get(n) == \E s \in start_qupload([State EXCEPT !.gets = Append(@, [nick |-> n, state |-> "WAITING"])]) : Become(s)
GetCancel(n) == (\E k \in DOMAIN gets : gets[k].nick = n) /\ \E s \in close_qupload(State, n) : Become(s)

Fetch(f) ==
  /\ ~file_uploading(State, f)
  /\ IF max_uploads_reached(State) THEN Become([State EXCEPT !.later = Append(@, f)])
     ELSE \E s \in FetchNow(State, f) : Become(s)

\* fetch_perform: whatever has ended goes at once, and one thing is started.  A file
\* fetched as AUTO gets its name now and stands for none of Name.
FetchesEnd(over) ==
  LET rest == [State EXCEPT !.fetches = Keep(@, DOMAIN @ \ over)]
  IN over # {} /\ \E s \in start_qupload(rest) : Become(s)
FetchGrows(k) == files[fetches[k]] = "part" /\ Become([State EXCEPT !.files[fetches[k]] = "full"])
FetchCancel(k) == \E s \in start_qupload([State EXCEPT !.fetches = Drop(@, k)]) : Become(s)

\* REHASH forgets what waits and what was asked for, not what is coming in.
Rehash == (gets # <<>> \/ later # <<>>) /\ Become([State EXCEPT !.gets = <<>>, !.later = <<>>])

Removed(f) == files[f] # "none" /\ Become([State EXCEPT !.files[f] = "none"])   \* FILEDEL

IncomingNext ==
  \/ \E n \in Nick, f \in Name, port \in {0, 1} : upload_start(n, f, port)
  \/ \E n \in Nick, port \in {0, 1} : Accept(n, port)
  \/ \E i \in DOMAIN uploads : Progress(i) \/ Fails(i) \/ CloseU(i)
  \/ \E late \in SUBSET DOMAIN uploads : Second(late)
  \/ \E n \in Nick : Get(n) \/ GetCancel(n)
  \/ \E f \in Name : Fetch(f) \/ Removed(f)
  \/ \E over \in SUBSET DOMAIN fetches : FetchesEnd(over)
  \/ \E k \in DOMAIN fetches : FetchGrows(k) \/ FetchCancel(k)
  \/ Rehash
IncomingSpec == IncomingInit /\ [][IncomingNext]_inVars
-----------------------------------------------------------------------------
(* Properties *)

\* Whatever starts what, no more than max_uploads come in at a time.
UploadLimit == max_uploads # 0 => Len(uploads) + Len(fetches) <= max_uploads

\* A GET counts as running only while an upload of its nick is there: one that did not
\* end with it would keep a place for ever.
GetsEnd ==
  \A n \in Nick : Count(gets, {[nick |-> n, state |-> "RUNNING"]})
                    <= Count(uploads, {u \in Upload : u.nick = n})

\* The places are neither taken twice nor lost.
Accounted == UploadLimit /\ GetsEnd
=============================================================================
