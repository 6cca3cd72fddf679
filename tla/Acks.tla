-------------------------------- MODULE Acks --------------------------------
(***************************************************************************)
(* How many bytes a user says he has got: t_readjunk (iroffer_transfer.c)  *)
(* and verify_acknowlede (dinoex_transfer.c).  After each piece he sends   *)
(* the number of bytes in 32 bits, or in 64 bits as mIRC does for a large  *)
(* file; the bot has to find out which.  What it believes, lastack, decides*)
(* when a download is complete.                                            *)
(*                                                                         *)
(* A number of 32 bits is two digits here, one of 64 bits is four.  halfack*)
(* is only for a warning.                                                  *)
(***************************************************************************)
EXTENDS Integers, Sequences

CONSTANTS
  Base, Large,   \* of the digits; sizes of files
  MaxAcks        \* bound: numbers sent

VARIABLES
  download,   \* size of the file, start (startresume), wide: the user counts in 64 bits
  decoder,    \* the fields of the transfer
  acks,       \* the numbers sent
  onWay       \* digits sent and not read

ackVars == <<download, decoder, acks, onWay>>

Word == Base * Base   \* 2^32
AcksAssumption ==
  Base \in Nat /\ Base > 1 /\ MaxAcks \in Nat /\ Large \subseteq Word..(Word * Word - 1)
Size == Large \cup {Word - 1}
AcksTypeOK ==
  /\ download.size \in Size /\ download.start \in 0..(download.size - 1) /\ download.wide \in BOOLEAN
  /\ decoder.mirc_dcc64 \in BOOLEAN /\ decoder.curack \in 0..(Word * Word - 1) /\ decoder.lastack \in Nat
  /\ decoder.firstack \in Nat /\ decoder.bytesgot \in Nat
  /\ acks \in Seq(1..download.size) /\ onWay \in Seq(0..(Base - 1))

Power(n) == [k \in 0..3 |-> IF k = 0 THEN 1 ELSE IF k = 1 THEN Base ELSE IF k = 2 THEN Word ELSE Word * Base][n]
Digit(v, n) == (v \div Power(n)) % Base
IsLarge == download.size >= Word

\* mirc_dcc64 is set when the file is opened, if the owner knows that all use mIRC.
AcksInit ==
  /\ \E size \in Size, wide, known \in BOOLEAN : \E start \in 0..(size - 1) :
       /\ wide => size >= Word
       /\ known => wide
       /\ download = [size |-> size, start |-> start, wide |-> wide]
       /\ decoder = [mirc_dcc64 |-> known, curack |-> 0, firstack |-> 0, lastack |-> start, bytesgot |-> 0]
  /\ acks = <<>> /\ onWay = <<>>
-----------------------------------------------------------------------------
(* The user; a number of 32 bits would not tell what he got if he left out as much as *)
(* that holds.                                                                        *)
LastAck == IF acks = <<>> THEN download.start ELSE acks[Len(acks)]
Ack(v) ==
  /\ Len(acks) < MaxAcks /\ v >= LastAck /\ v > 0
  /\ download.wide \/ v - LastAck < Word
  /\ acks' = Append(acks, v)
  /\ onWay' = onWay \o (IF download.wide THEN <<Digit(v, 3), Digit(v, 2)>> ELSE <<>>)
                    \o <<Digit(v, 1), Digit(v, 0)>>
  /\ UNCHANGED <<download, decoder>>
-----------------------------------------------------------------------------
(* The bot *)

\* A first number that is not above what the user had already is the upper half of one
\* of 64 bits.
Wider_Below(d) ==   \* seeded defect
  d.firstack = 0 /\ IsLarge /\ d.curack < download.start
Wider(d) == d.firstack = 0 /\ IsLarge /\ d.curack <= download.start
\* Otherwise what seems less than before has passed 2^32 once more.
Extended(d) ==
  IF IsLarge /\ d.curack < d.lastack
    THEN d.curack + ((d.lastack - d.curack + Word - 1) \div Word) * Word ELSE d.curack
verify_acknowlede(d) ==
  IF d.mirc_dcc64 THEN d
  ELSE LET first == IF d.firstack # 0 THEN d.firstack ELSE IF d.curack = 0 THEN 64 ELSE d.curack
       IN IF Wider(d) THEN [d EXCEPT !.mirc_dcc64 = TRUE, !.curack = @ * Word, !.firstack = first]
          ELSE [d EXCEPT !.curack = Extended(d), !.firstack = first]

\* A digit takes its place in curack; after the last one of a number curack counts.
Put(d, digit) ==
  LET place == IF d.mirc_dcc64 THEN 3 - (d.bytesgot % 4) ELSE 1 - (d.bytesgot % 2)
      put == [d EXCEPT !.curack = @ - Digit(@, place) * Power(place) + digit * Power(place)]
      checked == IF place = 0 THEN verify_acknowlede(put) ELSE put
  IN [checked EXCEPT !.lastack = IF place = 0 THEN checked.curack ELSE @, !.bytesgot = @ + 1]

\* recv takes what has arrived, a part of a number perhaps.
t_readjunk(n) ==
  LET after[k \in 0..n] == IF k = 0 THEN decoder ELSE Put(after[k - 1], onWay[k])
  IN /\ decoder' = after[n] /\ onWay' = SubSeq(onWay, n + 1, Len(onWay))
     /\ UNCHANGED <<download, acks>>

AcksNext == (\E v \in 1..download.size : Ack(v)) \/ (\E n \in 1..Len(onWay) : t_readjunk(n))
AcksSpec == AcksInit /\ [][AcksNext]_ackVars
-----------------------------------------------------------------------------
(* Properties *)

\* What the bot can tell apart: the first number of a user who counts in 32 bits says
\* more than he had at the start and is below 2^32, and the upper half of the first
\* number of one who counts in 64 bits is not above the start.
Recognised ==
  \/ ~IsLarge \/ acks = <<>>
  \/ IF download.wide THEN acks[1] \div Word <= download.start \/ decoder.mirc_dcc64 
        ELSE download.start < acks[1] /\ acks[1] < Word

\* However the numbers are cut into pieces, the bot believes what the user said last,
\* with all of its 64 bits, and in the middle of a number never more than was said.
AckExact ==
  Recognised =>
    LET width == IF download.wide THEN 4 ELSE 2
        n == decoder.bytesgot \div width
    IN /\ decoder.bytesgot > 0 /\ decoder.bytesgot % width = 0 => decoder.lastack = acks[n]
       /\ decoder.lastack <= LastAck
=============================================================================
