--------------------------- MODULE BufferedOutput ---------------------------
(***************************************************************************)
(* ir_boutput_t, the output of a DCC chat and of the console               *)
(* (src/iroffer_utilities.c, src/iroffer_dccchat.c): segments of a fixed   *)
(* size that are filled at the end and written to the socket from the      *)
(* front.  It implements Fifo.                                             *)
(***************************************************************************)
EXTENDS Integers, Sequences

CONSTANTS
  IR_BOUTPUT_SEGMENT_SIZE, IR_BOUTPUT_MAX_SEGMENTS,
  NoLimit,     \* BOUTPUT_NO_LIMIT
  MaxBytes     \* bound: bytes written; a byte is named by its number

ASSUME BoutAssumption ==
  /\ {IR_BOUTPUT_SEGMENT_SIZE, IR_BOUTPUT_MAX_SEGMENTS} \subseteq Nat \ {0}
  /\ MaxBytes \in Nat

VARIABLES
  segments,                   \* the bytes of each segment up to end, and begin
  written,                    \* bytes the callers had
  out,                        \* bytes on the socket
  counts                      \* count_written, count_flushed, count_dropped

boutVars == <<segments, written, out, counts>>

BoutTypeOK ==
  /\ written \in 0..MaxBytes /\ out \in Seq(1..MaxBytes)
  /\ counts \in [written : 0..MaxBytes, flushed : 0..MaxBytes, dropped : 0..MaxBytes]
  /\ \A k \in DOMAIN segments :
       /\ segments[k].begin \in 0..Len(segments[k].buffer)
       /\ Len(segments[k].buffer) <= IR_BOUTPUT_SEGMENT_SIZE
  /\ NoLimit \/ Len(segments) <= IR_BOUTPUT_MAX_SEGMENTS

EmptySegment == [buffer |-> <<>>, begin |-> 0]
BoutInit ==   \* ir_boutput_init
  segments = <<>> /\ written = 0 /\ out = <<>> /\ counts = [written |-> 0, flushed |-> 0, dropped |-> 0]

Pending(s) == SubSeq(s.buffer, s.begin + 1, Len(s.buffer))
\* What the first k segments still hold, for each k.
Held(segs) ==
  LET held[k \in 0..Len(segs)] == IF k = 0 THEN <<>> ELSE held[k - 1] \o Pending(segs[k]) IN held
Waiting(segs) == Held(segs)[Len(segs)]
-----------------------------------------------------------------------------
(* Each function from a state to the states it may lead to *)

Bout == [segments |-> segments, written |-> written, out |-> out, counts |-> counts]

\* The socket takes n bytes of the first segment, perhaps in several writes.  The
\* segment goes when all of it is written; otherwise the socket takes no more, or fails.
Flushed(s, n) ==
  LET g == s.segments[1]
      whole == n = Len(Pending(g))
      rest == IF whole THEN Tail(s.segments)
              ELSE [s.segments EXCEPT ![1] = [g EXCEPT !.begin = @ + n]]
  IN [state |-> [s EXCEPT !.segments = rest, !.out = @ \o SubSeq(Pending(g), 1, n),
                          !.counts.flushed = @ + n],
      again |-> whole /\ rest # <<>>]
ir_boutput_attempt_flush(s) ==
  LET more(r) == {Flushed(r.state, n) : n \in 0..Len(Pending(r.state.segments[1]))}
      turns[k \in 0..Len(s.segments)] ==
        IF k = 0 THEN {[state |-> s, again |-> s.segments # <<>>]}
        ELSE UNION {IF r.again THEN more(r) ELSE {r} : r \in turns[k - 1]}
  IN {r.state : r \in turns[Len(s.segments)]}

\* As much of "bytes" as fits goes to the last segment, or to a new one.
Filled_Skip(s, bytes) ==   \* seeded defect: goes on one byte too far
  LET last == Len(s.segments)
      room == IR_BOUTPUT_SEGMENT_SIZE - Len(s.segments[last].buffer)
      k == IF room < Len(bytes) THEN room ELSE Len(bytes)
  IN [state |-> [s EXCEPT !.segments[last].buffer = @ \o SubSeq(bytes, 1, k), !.counts.written = @ + k],
      left |-> SubSeq(bytes, k + 2, Len(bytes))]
Filled(s, bytes) ==
  LET last == Len(s.segments)
      room == IR_BOUTPUT_SEGMENT_SIZE - Len(s.segments[last].buffer)
      k == IF room < Len(bytes) THEN room ELSE Len(bytes)
      more == [s.segments[last] EXCEPT !.buffer = @ \o SubSeq(bytes, 1, k)]
  IN [state |-> [s EXCEPT !.segments[last] = more, !.counts.written = @ + k],
      left |-> SubSeq(bytes, k + 1, Len(bytes))]
Full(s) == s.segments # <<>> /\ Len(s.segments[Len(s.segments)].buffer) = IR_BOUTPUT_SEGMENT_SIZE
Grown(s) == [s EXCEPT !.segments = Append(@, EmptySegment)]
MayGrow(s) == NoLimit \/ Len(s.segments) < IR_BOUTPUT_MAX_SEGMENTS

\* A turn of ir_boutput_write's loop, where nothing is left after the last one.  A
\* flush that wrote something starts over; one that did not, or that failed after
\* something was written, drops the rest.
Turn(r) ==
  LET s == r.state
      dropped(f) == [state |-> [f EXCEPT !.counts.dropped = @ + Len(r.left)], left |-> <<>>]
  IN IF r.left = <<>> THEN {r}
     ELSE IF s.segments = <<>> \/ (Full(s) /\ MayGrow(s)) THEN {Filled(Grown(s), r.left)}
     ELSE IF ~Full(s) THEN {Filled(s, r.left)}
     ELSE {dropped(f) : f \in ir_boutput_attempt_flush(s)}
          \cup {[r EXCEPT !.state = f] : f \in ir_boutput_attempt_flush(s) \ {s}}

\* What was dropped is not flushed for: the function has returned then.
ir_boutput_write(s, n) ==
  LET start == [state |-> [s EXCEPT !.written = @ + n], left |-> [i \in 1..n |-> s.written + i]]
      turns[k \in 0..(2 * MaxBytes)] == IF k = 0 THEN {start} ELSE UNION {Turn(r) : r \in turns[k - 1]}
      over == {r.state : r \in turns[2 * MaxBytes]}
  IN UNION {IF t.counts.dropped > s.counts.dropped THEN {t} ELSE ir_boutput_attempt_flush(t) : t \in over}
-----------------------------------------------------------------------------
OneOf(states) ==
  \E s \in states : segments' = s.segments /\ written' = s.written /\ out' = s.out /\ counts' = s.counts

\* writedccchat, vtostdout
writedccchat == \E n \in 0..(MaxBytes - written) : OneOf(ir_boutput_write(Bout, n))
\* flushdccchat, tostdout_write: the socket is writable.
flushdccchat == OneOf(ir_boutput_attempt_flush(Bout))

BoutNext == writedccchat \/ flushdccchat
BoutSpec == BoutInit /\ [][BoutNext]_boutVars
-----------------------------------------------------------------------------
(* Properties *)

\* The counters account for every byte.
Counted ==
  /\ counts.written = Len(out) + Len(Waiting(segments)) /\ counts.flushed = Len(out)
  /\ counts.written + counts.dropped = written

\* Whatever each call of write takes and whatever is dropped, what arrives is in order.
Promise == INSTANCE Fifo WITH queue <- Waiting(segments)
InOrder == Promise!FifoSpec
=============================================================================
