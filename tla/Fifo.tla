-------------------------------- MODULE Fifo --------------------------------
(***************************************************************************)
(* What an administrator's chat promises of its output: bytes go out in    *)
(* the order they were written, each once.  What finds no room is dropped, *)
(* and only the end of what is just being written is.                      *)
(***************************************************************************)
EXTENDS Integers, Sequences

CONSTANT MaxBytes   \* bound: bytes written; a byte is named by its number

VARIABLES written, queue, out   \* how many; what waits; what went out

Numbers(n, k) == [i \in 1..k |-> n + i]
FifoInit == written = 0 /\ queue = <<>> /\ out = <<>>
\* Something is written, k bytes of it are taken, and j of all that waits go out.
FifoStep(n, k, j) ==
  LET all == queue \o Numbers(written, k)
  IN /\ written' = written + n
     /\ out' = out \o SubSeq(all, 1, j) /\ queue' = SubSeq(all, j + 1, Len(all))
FifoNext ==
  \E n \in 0..MaxBytes : \E k \in 0..n :
    \E j \in 0..(Len(queue) + k) : FifoStep(n, k, j)
FifoSpec == FifoInit /\ [][FifoNext]_<<written, queue, out>>
=============================================================================
