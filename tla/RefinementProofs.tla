-------------------------- MODULE RefinementProofs --------------------------
(***************************************************************************)
(* Three parts keep their promises, for every value of the constants.      *)
(*                                                                         *)
(*   StateFileDurable   StateFile implements DurableStore, for any number  *)
(*                      of changes, kills and failed calls and any         *)
(*                      versions of the program                            *)
(*   OutputInOrder      BufferedOutput implements Fifo, for segments of    *)
(*                      any size and number                                *)
(*   LinkedListIsLists  LinkedList implements Lists, for any lists, items   *)
(*                      and order of them                                  *)
(***************************************************************************)
EXTENDS StateFile, BufferedOutput, LinkedList, QueuesTheorems

\* While write_statefile puts the new file in its place, the temporary file holds
\* all of the state.
TmpWhole == pc \in {"unlink", "link", "rename"} => Whole(dir.tmp) /\ dir.tmp.data = mem

\* A program that does not run knows nothing.
DownKnowsNothing == pc \in {"down", "start"} => mem = 0

StateFileInv ==
  /\ StateFileTypeOK /\ changes \in 0..MaxChanges
  /\ (pc = "clear" => changes < MaxChanges)
  /\ TmpWhole /\ DownKnowsNothing
-----------------------------------------------------------------------------
\* The kinds of files.
LEMMA FileKinds ==
  /\ None.kind = "none" /\ Empty.kind = "empty" /\ Partial.kind = "partial"
  /\ MaxChanges \in Nat => None \in File /\ Empty \in File /\ Partial \in File
BY DEF None, Empty, Partial, File

\* What the program starts with.
LEMMA StateFileInitInv ==
  ASSUME StateFileInit
  PROVE  StateFileInv
<1>1. changes \in 0..MaxChanges /\ mem \in 0..MaxChanges /\ version \in Versions
  BY StateFileAssumption DEF StateFileInit
<1>2. PICK f \in File : dir = [cur |-> f, bak |-> None, tmp |-> None]
  BY FileKinds, StateFileAssumption DEF StateFileInit, File
<1>3. dir \in [{"cur", "bak", "tmp"} -> File]
  BY <1>2, FileKinds, StateFileAssumption
<1> QED BY <1>1, <1>3 DEF StateFileInit, StateFileInv, StateFileTypeOK, TmpWhole, DownKnowsNothing

\* Each step of write_statefile keeps the invariant.
LEMMA WriteInv ==
  ASSUME StateFileInv,
         Open \/ WriteItems \/ Unlink \/ Link \/ Rename
  PROVE  StateFileInv'
<1> USE FileKinds DEF StateFileInv, StateFileTypeOK, TmpWhole, DownKnowsNothing, OnDisk, Goto, Whole
<1>1. CASE Open
  BY <1>1, StateFileAssumption DEF Open
<1>2. CASE WriteItems
  <2>1. [kind |-> "whole", data |-> mem, by |-> version] \in File
    BY DEF File
  <2> QED BY <1>2, <2>1, StateFileAssumption DEF WriteItems, Write
<1>3. CASE Unlink
  BY <1>3, StateFileAssumption DEF Unlink
<1>4. CASE Link
  BY <1>4 DEF Link
<1>5. CASE Rename
  BY <1>5, StateFileAssumption DEF Rename
<1> QED BY <1>1, <1>2, <1>3, <1>4, <1>5

\* backup_statefile moves the file.
LEMMA BackupInv ==
  ASSUME StateFileTypeOK, backup_statefile
  PROVE  /\ dir' \in [{"cur", "bak", "tmp"} -> File] /\ dir'.tmp = dir.tmp /\ dated' \subseteq File
         /\ UNCHANGED <<version, readable, changes, kills>>
BY FileKinds, StateFileAssumption DEF backup_statefile, StateFileTypeOK, CallFails, Works

\* The other steps of the program keep it.
LEMMA ProgramInv ==
  ASSUME StateFileInv,
         \/ ChangeState \/ SaveState \/ Clear_Backup \/ Clear
         \/ Read \/ Upgrade_Backup \/ Boot \/ Replaced \/ Killed
  PROVE  StateFileInv'
<1> USE FileKinds DEF StateFileInv, StateFileTypeOK, TmpWhole, DownKnowsNothing, OnDisk, Goto, Whole
<1>1. CASE ChangeState
  BY <1>1, StateFileAssumption DEF ChangeState
<1>2. CASE SaveState
  BY <1>2 DEF SaveState
<1>3. CASE Clear_Backup
  BY <1>3, BackupInv DEF Clear_Backup
<1>4. CASE Clear
  BY <1>4, StateFileAssumption DEF Clear
<1>5. CASE Read
  BY <1>5, StateFileAssumption DEF Read, File
<1>6. CASE Upgrade_Backup
  BY <1>6, BackupInv DEF Upgrade_Backup
<1>7. CASE Boot
  BY <1>7 DEF Boot
<1>8. CASE Replaced
  BY <1>8 DEF Replaced
<1>9. CASE Killed
  BY <1>9, StateFileAssumption DEF Killed
<1> QED BY <1>1, <1>2, <1>3, <1>4, <1>5, <1>6, <1>7, <1>8, <1>9

\* The invariant holds in every state, and with it the types.
THEOREM StateFileInvariant == StateFileSpec => []StateFileInv
<1>1. StateFileInit => StateFileInv
  BY StateFileInitInv
<1>2. StateFileInv /\ [StateFileNext]_sfVars => StateFileInv'
  <2>1. ASSUME StateFileInv, UNCHANGED sfVars PROVE StateFileInv'
    BY <2>1 DEF sfVars, StateFileInv, StateFileTypeOK, TmpWhole, DownKnowsNothing
  <2> QED BY <2>1, WriteInv, ProgramInv DEF StateFileNext
<1> QED BY <1>1, <1>2, PTL DEF StateFileSpec
-----------------------------------------------------------------------------
(* The steps of the store *)

Up == pc \notin {"down", "start"}
Stored == IF Whole(dir.cur) THEN dir.cur.data ELSE 0
Kept == {f.data : f \in {g \in dated : Whole(g)}}

\* Nothing a start could see changes.
StoreSame == UNCHANGED <<mem, Up, readable, Stored, Kept>>

\* Until the rename no step of a save touches what a start would find; the rename
\* saves everything.
LEMMA WriteStep ==
  ASSUME StateFileInv,
         Open \/ WriteItems \/ Unlink \/ Link \/ Rename
  PROVE  \/ StoreSame
         \/ Up /\ Stored' = mem /\ UNCHANGED <<mem, Up, readable, Kept>>
<1>1. /\ UNCHANGED <<mem, dated, readable>> /\ Up /\ Up'
      /\ (dir'.cur = dir.cur \/ (dir'.cur = dir.tmp /\ pc = "rename"))
  BY DEF Open, WriteItems, Write, Unlink, Link, Rename, OnDisk, Goto, Up, StateFileInv, StateFileTypeOK
<1>2. CASE dir'.cur = dir.cur
  BY <1>1, <1>2 DEF StoreSame, Stored, Kept, Up
<1>3. CASE dir'.cur = dir.tmp /\ pc = "rename"
  <2>1. Stored' = mem
    BY <1>3 DEF StateFileInv, TmpWhole, Stored, Whole
  <2> QED BY <1>1, <2>1 DEF Kept, Up
<1> QED BY <1>1, <1>2, <1>3

\* What backup_statefile moves away is kept.
LEMMA BackupStep ==
  ASSUME StateFileInv, backup_statefile
  PROVE  \/ UNCHANGED <<Stored, Kept>>
         \/ Kept' = Kept \cup {Stored} /\ Stored' = 0
<1>1. CASE UNCHANGED <<dir, dated>>
  BY <1>1 DEF Stored, Kept
<1>2. CASE dir' = [dir EXCEPT !.cur = None] /\ dated' = dated \cup {dir.cur}
  <2>1. Stored' = 0
    BY <1>2, FileKinds DEF Stored, Whole, StateFileInv, StateFileTypeOK
  <2>2. CASE Whole(dir.cur)
    <3>1. Stored = dir.cur.data
      BY <2>2 DEF Stored
    <3>2. {g \in dated' : Whole(g)} = {g \in dated : Whole(g)} \cup {dir.cur}
      BY <1>2, <2>2
    <3>3. Kept' = Kept \cup {dir.cur.data}
      BY <3>2 DEF Kept
    <3> QED BY <2>1, <3>1, <3>3
  <2>3. CASE ~Whole(dir.cur)
    <3>1. {g \in dated' : Whole(g)} = {g \in dated : Whole(g)}
      BY <1>2, <2>3
    <3>2. Kept' = Kept /\ Stored = 0
      BY <2>3, <3>1 DEF Kept, Stored
    <3> QED BY <2>1, <3>2
  <2> QED BY <2>2, <2>3
<1> QED BY <1>1, <1>2 DEF backup_statefile

\* The other steps: a start finds what is stored, a kill loses only what was not.
LEMMA ProgramStep ==
  ASSUME StateFileInv,
         \/ ChangeState \/ SaveState \/ Clear_Backup \/ Clear
         \/ Read \/ Upgrade_Backup \/ Boot \/ Replaced \/ Killed
  PROVE  \/ StoreSame
         \/ Up /\ mem' \in 0..MaxChanges /\ UNCHANGED <<Up, readable, Stored, Kept>>
         \/ Up /\ Kept' = Kept \cup {Stored} /\ Stored' = 0 /\ UNCHANGED <<mem, Up, readable>>
         \/ Up /\ Up' = FALSE /\ mem' = 0 /\ UNCHANGED <<readable, Stored, Kept>>
         \/ ~Up /\ Up' = TRUE /\ mem' = (IF readable THEN Stored ELSE 0)
              /\ UNCHANGED <<readable, Stored, Kept>>
         \/ ~Up /\ readable' \in BOOLEAN /\ UNCHANGED <<mem, Up, Stored, Kept>>
<1>1. CASE ChangeState \/ Clear
  <2>1. mem' \in 0..MaxChanges
    BY <1>1, StateFileAssumption DEF ChangeState, Clear, StateFileInv
  <2>2. Up /\ Up' /\ UNCHANGED <<readable, dir, dated>>
    BY <1>1 DEF ChangeState, Clear, Goto, Up
  <2> QED BY <2>1, <2>2 DEF Stored, Kept, Up
<1>2. CASE SaveState \/ Boot
  BY <1>2 DEF SaveState, Boot, OnDisk, Goto, StoreSame, Up, Stored, Kept
<1>3. CASE Clear_Backup \/ Upgrade_Backup
  <2>1. Up /\ Up' /\ UNCHANGED <<mem, readable>> /\ backup_statefile
    BY <1>3 DEF Clear_Backup, Upgrade_Backup, backup_statefile, Goto, Up
  <2>2. Up' = Up
    BY <2>1 DEF Up
  <2> QED BY <2>1, <2>2, BackupStep DEF StoreSame
<1>4. CASE Read
  <2>1. UNCHANGED <<dated, readable>> /\ ~Up
    BY <1>4 DEF Read, OnDisk, Up
  <2>2. Stored' = Stored
    <3>1. CASE dir' = dir
      BY <3>1 DEF Stored
    <3>2. CASE dir.cur = None /\ dir' = [dir EXCEPT !.cur = Empty]
      <4>1. dir'.cur = Empty
        BY <3>2 DEF StateFileInv, StateFileTypeOK
      <4> QED BY <3>2, <4>1, FileKinds DEF Stored, Whole
    <3> QED BY <1>4, <3>1, <3>2 DEF Read, OnDisk
  <2>3. Kept' = Kept
    BY <2>1 DEF Kept
  <2>4. mem' = IF readable THEN Stored ELSE 0
    BY <1>4 DEF Read, Stored
  <2>5. CASE pc' = "down"
    <3>1. dir.cur.kind = "partial"
      BY <1>4, <2>5 DEF Read, Goto
    <3>2. mem' = mem
      BY <1>4, <2>4, <3>1 DEF Stored, Whole, StateFileInv, DownKnowsNothing, Read
    <3>3. Up' = Up
      BY <2>1, <2>5 DEF Up
    <3> QED BY <2>1, <2>2, <2>3, <3>2, <3>3 DEF StoreSame
  <2>6. CASE pc' # "down"
    <3>1. Up' = TRUE
      BY <1>4, <2>6 DEF Read, Goto, Up
    <3> QED BY <2>1, <2>2, <2>3, <2>4, <3>1
  <2> QED BY <2>5, <2>6
<1>5. CASE Replaced
  BY <1>5 DEF Replaced, Up, Stored, Kept
<1>6. CASE Killed
  BY <1>6 DEF Killed, Goto, Up, Stored, Kept
<1> QED BY <1>1, <1>2, <1>3, <1>4, <1>5, <1>6

\* The state file implements the store: whatever call fails and wherever the program
\* is stopped, a start finds what was last saved, and copies set aside are not lost.
THEOREM StateFileDurable == StateFileSpec => Durable
<1>1. StateFileInit => Store!StoreInit
  <2> SUFFICES ASSUME StateFileInit PROVE Store!StoreInit
    OBVIOUS
  <2>1. StateFileInv
    BY StateFileInitInv
  <2>2. dir.cur \in File /\ pc = "down" /\ mem = 0 /\ dated = {} /\ readable = TRUE
    BY <2>1 DEF StateFileInit, StateFileInv, StateFileTypeOK
  <2>3. (IF Whole(dir.cur) THEN dir.cur.data ELSE 0) \in 0..MaxChanges
    BY <2>2, StateFileAssumption DEF File
  <2>4. {f.data : f \in {g \in dated : Whole(g)}} = {}
    BY <2>2
  <2> QED BY <2>2, <2>3, <2>4 DEF Store!StoreInit
<1>2. StateFileInv /\ [StateFileNext]_sfVars => [Store!StoreNext]_(Store!storeVars)
  <2>1. ASSUME UNCHANGED sfVars PROVE StoreSame
    BY <2>1 DEF sfVars, StoreSame, Up, Stored, Kept
  <2>2. ASSUME StoreSame PROVE UNCHANGED Store!storeVars
    BY <2>2 DEF StoreSame, Up, Stored, Kept, Store!storeVars
  <2>3. ASSUME StateFileInv, StateFileNext
        PROVE  StoreSame \/ Store!StoreNext
    BY <2>3, WriteStep, ProgramStep
       DEF StateFileNext, Up, Stored, Kept, Store!StoreNext, Store!Change, Store!Save,
           Store!SetAside, Store!Stop, Store!Start, Store!Access
  <2> QED BY <2>1, <2>2, <2>3
<1> QED BY <1>1, <1>2, StateFileInvariant, PTL DEF StateFileSpec, Durable, Store!StoreSpec
-----------------------------------------------------------------------------
(* Buffered output *)

\* A segment has a size, and there may be at least one.
Byte == 1..MaxBytes
Bytes == Seq(Byte)
Segment ==
  {g \in [buffer : Bytes, begin : Nat] :
     g.begin <= Len(g.buffer) /\ Len(g.buffer) <= IR_BOUTPUT_SEGMENT_SIZE}
OutputState ==
  {s \in [segments : Seq(Segment), written : Nat, out : Bytes,
          counts : [written : Nat, flushed : Nat, dropped : Nat]] :
     NoLimit \/ Len(s.segments) <= IR_BOUTPUT_MAX_SEGMENTS}

\* What follows the first m elements goes on where it is cut.
LEMMA Cut ==
  ASSUME NEW q \in Bytes, NEW m \in Nat, NEW k \in Nat, m <= k, k <= Len(q)
  PROVE  SubSeq(q, m + 1, k) \o SubSeq(q, k + 1, Len(q)) = SubSeq(q, m + 1, Len(q))
<1>1. q \in Seq(Byte) /\ Len(q) \in Nat
  BY DEF Bytes
<1>2. m + 1 \in 1..(Len(q) + 1) /\ k \in ((m + 1) - 1)..Len(q) /\ Len(q) \in k..Len(q)
  BY <1>1
<1> DEFINE i == m + 1
           n == Len(q)
<1> HIDE DEF i, n
<1>3. i \in 1..(Len(q) + 1) /\ k \in (i - 1)..Len(q) /\ n \in k..Len(q)
  BY <1>2 DEF i, n
<1>4. SubSeq(q, i, k) \o SubSeq(q, k + 1, n) = SubSeq(q, i, n)
  BY <1>1, <1>3, ConcatAdjacentSubSeq
<1> QED BY <1>4 DEF i, n

\* A sequence is its first n elements and the others.
LEMMA Parted ==
  ASSUME NEW q \in Bytes, NEW n \in 0..Len(q)
  PROVE  /\ SubSeq(q, 1, n) \in Bytes /\ Len(SubSeq(q, 1, n)) = n
         /\ SubSeq(q, n + 1, Len(q)) \in Bytes /\ Len(SubSeq(q, n + 1, Len(q))) = Len(q) - n
         /\ q = SubSeq(q, 1, n) \o SubSeq(q, n + 1, Len(q))
<1>1. Len(q) \in Nat /\ \A i \in 1..Len(q) : q[i] \in Byte
  BY DEF Bytes
<1>2. SubSeq(q, 1, n) \in Seq(Byte) /\ Len(SubSeq(q, 1, n)) = n
  BY <1>1, SubSeqProperties
<1>3. SubSeq(q, n + 1, Len(q)) \in Seq(Byte) /\ Len(SubSeq(q, n + 1, Len(q))) = Len(q) - n
  <2>1. n + 1 \in Int /\ Len(q) \in Int /\ \A i \in (n + 1)..Len(q) : q[i] \in Byte
    BY <1>1
  <2> QED BY <1>1, <2>1, SubSeqProperties
<1>4. SubSeq(q, 1, n) \o SubSeq(q, n + 1, Len(q)) = SubSeq(q, 1, Len(q))
  <2>1. 0 + 1 = 1 /\ 0 \in Nat /\ n \in Nat /\ 0 <= n /\ n <= Len(q)
    BY <1>1
  <2>2. SubSeq(q, 0 + 1, n) \o SubSeq(q, n + 1, Len(q)) = SubSeq(q, 0 + 1, Len(q))
    BY <2>1, Cut
  <2> QED BY <2>1, <2>2
<1>5. SubSeq(q, 1, Len(q)) = q
  BY SubSeqFull DEF Bytes
<1> QED BY <1>2, <1>3, <1>4, <1>5 DEF Bytes

\* What comes before and after the join of two sequences.
LEMMA Joined ==
  ASSUME NEW p \in Bytes, NEW q \in Bytes
  PROVE  /\ p \o q \in Bytes /\ Len(p) \in Nat /\ Len(q) \in Nat /\ Len(p \o q) = Len(p) + Len(q)
         /\ SubSeq(p \o q, 1, Len(p)) = p /\ SubSeq(p \o q, Len(p) + 1, Len(p \o q)) = q
<1> DEFINE pq == p \o q
           a == SubSeq(pq, 1, Len(p))
           b == SubSeq(pq, Len(p) + 1, Len(pq))
<1>1. /\ pq \in Bytes /\ Len(p) \in Nat /\ Len(q) \in Nat /\ Len(pq) = Len(p) + Len(q)
      /\ \A i \in 1..(Len(p) + Len(q)) : pq[i] = IF i <= Len(p) THEN p[i] ELSE q[i - Len(p)]
  BY ConcatProperties, LenProperties DEF Bytes
<1> HIDE DEF pq
<1>2. a \in Bytes /\ Len(a) = Len(p) /\ b \in Bytes /\ Len(b) = Len(q)
  <2>1. pq \in Bytes /\ Len(p) \in 0..Len(pq) /\ Len(pq) - Len(p) = Len(q)
    BY <1>1
  <2> QED BY <2>1, Parted
<1>3. \A i \in 1..Len(p) : a[i] = p[i]
  <2> SUFFICES ASSUME NEW i \in 1..Len(p) PROVE a[i] = p[i]
    OBVIOUS
  <2>1. \A j \in 1..Len(pq) : pq[j] \in Byte
    BY <1>1 DEF Bytes
  <2>2. a[i] = pq[1 + i - 1]
    BY <1>1, <2>1, SubSeqProperties
  <2> QED BY <1>1, <2>2
<1>4. \A i \in 1..Len(q) : b[i] = q[i]
  <2> SUFFICES ASSUME NEW i \in 1..Len(q) PROVE b[i] = q[i]
    OBVIOUS
  <2>1. /\ Len(p) + 1 \in Int /\ Len(pq) \in Int /\ \A j \in (Len(p) + 1)..Len(pq) : pq[j] \in Byte
        /\ i \in 1..(Len(pq) - (Len(p) + 1) + 1)
    BY <1>1 DEF Bytes
  <2>2. b[i] = pq[Len(p) + 1 + i - 1]
    BY <2>1, SubSeqProperties
  <2>3. Len(p) + 1 + i - 1 \in 1..(Len(p) + Len(q)) /\ ~(Len(p) + 1 + i - 1 <= Len(p))
        /\ Len(p) + 1 + i - 1 - Len(p) = i
    BY <1>1
  <2> QED BY <1>1, <2>2, <2>3
<1>5. a = p
  BY <1>2, <1>3, SeqEqual DEF Bytes
<1>6. b = q
  BY <1>2, <1>4, SeqEqual DEF Bytes
<1> QED BY <1>1, <1>5, <1>6 DEF pq

\* Three sequences are joined in order, whichever two are joined first.
Regrouped(p, q, r) == (p \o q) \o r = p \o (q \o r)
LEMMA JoinedThrice ==
  ASSUME NEW p \in Bytes, NEW q \in Bytes, NEW r \in Bytes
  PROVE  Regrouped(p, q, r)
<1>1. p \in Seq(Byte) /\ q \in Seq(Byte) /\ r \in Seq(Byte)
  BY DEF Bytes
<1> QED BY <1>1, ConcatAssociative DEF Regrouped

\* What a segment still holds.
LEMMA PendingType ==
  ASSUME NEW g \in Segment
  PROVE  /\ Pending(g) \in Bytes /\ Len(Pending(g)) = Len(g.buffer) - g.begin
         /\ Len(g.buffer) \in Nat /\ g.begin \in 0..Len(g.buffer)
<1>1. g.buffer \in Bytes /\ Len(g.buffer) \in Nat /\ g.begin \in 0..Len(g.buffer)
  BY DEF Segment, Bytes
<1> QED BY <1>1, Parted DEF Pending

\* Bytes from a segment's front are written.
LEMMA PendingGoes ==
  ASSUME NEW g \in Segment, NEW n \in 0..Len(Pending(g))
  PROVE  LET h == [g EXCEPT !.begin = @ + n]
         IN h \in Segment /\ Pending(g) = SubSeq(Pending(g), 1, n) \o Pending(h)
<1> DEFINE h == [g EXCEPT !.begin = @ + n]
           p == SubSeq(g.buffer, 1, g.begin)
           m == g.begin + n
           r == SubSeq(g.buffer, g.begin + 1, m)
<1>1. /\ g.buffer \in Bytes /\ Len(g.buffer) \in Nat /\ g.begin \in 0..Len(g.buffer)
      /\ Pending(g) \in Bytes /\ Len(Pending(g)) = Len(g.buffer) - g.begin
  BY PendingType DEF Segment
<1>2. h \in Segment /\ h.buffer = g.buffer /\ h.begin = m /\ m \in g.begin..Len(g.buffer)
  BY <1>1 DEF Segment
<1> HIDE DEF h, m
<1>3. r \o Pending(h) = Pending(g)
  <2>1. g.begin \in Nat /\ m \in Nat /\ g.begin <= m /\ m <= Len(g.buffer)
    BY <1>1, <1>2
  <2> QED BY <1>1, <1>2, <2>1, Cut DEF Pending
<1>4. r \in Bytes /\ Len(r) = n
  <2>1. g.begin + 1 \in Int /\ m \in Int /\ \A i \in (g.begin + 1)..m : g.buffer[i] \in Byte
    BY <1>1, <1>2 DEF Bytes
  <2>2. m - (g.begin + 1) + 1 = n /\ (~(g.begin + 1 <= m) => n = 0)
    BY <1>1 DEF m
  <2> QED BY <2>1, <2>2, SubSeqProperties DEF Bytes
<1> HIDE DEF r
<1>5. SubSeq(Pending(g), 1, n) = r
  <2>1. Pending(h) \in Bytes
    BY <1>2, PendingType
  <2>2. SubSeq(r \o Pending(h), 1, Len(r)) = r
    BY <1>4, <2>1, Joined
  <2> QED BY <1>3, <1>4, <2>2
<1> QED BY <1>2, <1>3, <1>5 DEF h

\* Bytes are added to a segment that has room for them.
LEMMA PendingComes ==
  ASSUME NEW g \in Segment, NEW x \in Bytes, Len(g.buffer) + Len(x) <= IR_BOUTPUT_SEGMENT_SIZE
  PROVE  LET h == [g EXCEPT !.buffer = @ \o x]
         IN h \in Segment /\ Pending(h) = Pending(g) \o x
<1> DEFINE b == g.buffer \o x
           h == [g EXCEPT !.buffer = b]
           p == SubSeq(g.buffer, 1, g.begin)
<1>1. /\ g.buffer \in Bytes /\ Len(g.buffer) \in Nat /\ g.begin \in 0..Len(g.buffer)
      /\ Pending(g) \in Bytes /\ Len(Pending(g)) = Len(g.buffer) - g.begin
  BY PendingType DEF Segment
<1>2. b \in Bytes /\ Len(b) = Len(g.buffer) + Len(x) /\ Len(x) \in Nat
  BY <1>1, Joined
<1>3. h \in Segment /\ h.buffer = b /\ h.begin = g.begin
  <2> HIDE DEF b
  <2>1. g.begin \in Nat /\ g.begin <= Len(b) /\ Len(b) <= IR_BOUTPUT_SEGMENT_SIZE
    BY <1>1, <1>2
  <2>2. g \in [buffer : Bytes, begin : Nat]
    BY DEF Segment
  <2>3. h = [buffer |-> b, begin |-> g.begin]
    BY <2>2
  <2> QED BY <1>2, <2>1, <2>3 DEF Segment
<1> HIDE DEF h
<1>4. g.buffer = p \o Pending(g) /\ p \in Bytes /\ Len(p) = g.begin
  BY <1>1, Parted DEF Pending
<1> HIDE DEF p
<1>5. h.buffer = p \o (Pending(g) \o x)
  <2>1. (p \o Pending(g)) \o x = p \o (Pending(g) \o x)
    <3>1. p \in Seq(Byte) /\ Pending(g) \in Seq(Byte) /\ x \in Seq(Byte)
      BY <1>1, <1>4 DEF Bytes
    <3> QED BY <3>1, ConcatAssociative
  <2> QED BY <1>3, <1>4, <2>1
<1>6. Pending(g) \o x \in Bytes
  BY <1>1, Joined
<1>7. SubSeq(h.buffer, Len(p) + 1, Len(h.buffer)) = Pending(g) \o x
  <2> DEFINE y == Pending(g) \o x
  <2> HIDE DEF y
  <2>1. SubSeq(p \o y, Len(p) + 1, Len(p \o y)) = y
    BY <1>4, <1>6, Joined DEF y
  <2> QED BY <1>5, <2>1 DEF y
<1>8. Pending(h) = Pending(g) \o x
  BY <1>3, <1>4, <1>7 DEF Pending
<1> QED BY <1>3, <1>8 DEF h

\* What the first k segments hold is what the first k - 1 do and what the k-th does.
LEMMA HeldDefined ==
  ASSUME NEW segs \in Seq(Segment)
  PROVE  /\ Held(segs)[0] = <<>>
         /\ \A k \in 1..Len(segs) : Held(segs)[k] = Held(segs)[k - 1] \o Pending(segs[k])
         /\ \A k \in 0..Len(segs) : Held(segs)[k] \in Bytes
<1> DEFINE n == Len(segs)
           S == Bytes
           z == <<>>
           Is(f) == f = [k \in 0..n |-> IF k = 0 THEN <<>> ELSE f[k - 1] \o Pending(segs[k])]
           D == [k \in 1..n |-> [x \in S |-> x \o Pending(segs[k])]]
           V == Held(segs)
<1>1. n \in Nat /\ \A k \in 1..n : segs[k] \in Segment
  OBVIOUS
<1>2. z \in S
  BY DEF Bytes
<1>3. \A k \in 1..n : \A x \in S : x \o Pending(segs[k]) \in S
  <2> SUFFICES ASSUME NEW k \in 1..n, NEW x \in S PROVE x \o Pending(segs[k]) \in S
    OBVIOUS
  <2>1. Pending(segs[k]) \in Bytes
    BY <1>1, PendingType
  <2> QED BY <2>1, Joined
<1>4. V = CHOOSE f : Is(f)
  BY DEF Held
<1> HIDE DEF n, V, S
<1>5. D \in StepsOf(n, S) /\ \A k \in 1..n : \A x \in S : D[k][x] = x \o Pending(segs[k])
  BY <1>3 DEF StepsOf
<1> HIDE DEF D
<1> HIDE DEF z
<1>6. Made(n, S, z, D)
  BY <1>1, <1>2, <1>5, Iterated
<1>7. \E f : Is(f)
  <2>1. PICK f \in [0..n -> S] : f[0] = z /\ \A k \in 1..n : f[k] = D[k][f[k - 1]]
    BY <1>6 DEF Made
  <2>2. \A k \in 1..n : f[k] = f[k - 1] \o Pending(segs[k])
    <3> SUFFICES ASSUME NEW k \in 1..n PROVE f[k] = f[k - 1] \o Pending(segs[k])
      OBVIOUS
    <3>1. f[k - 1] \in S
      BY <1>1, <2>1
    <3> QED BY <1>5, <2>1, <3>1
  <2>3. \A k \in 0..n : k # 0 => k \in 1..n
    BY <1>1
  <2>4. \A k \in 0..n : f[k] = IF k = 0 THEN <<>> ELSE f[k - 1] \o Pending(segs[k])
    BY <2>1, <2>2, <2>3 DEF z
  <2>5. Is(f)
    BY <2>4
  <2> QED BY <2>5
<1>8. Is(V)
  <2> HIDE DEF Is
  <2> QED BY <1>4, <1>7
<1>9. V[0] = z /\ \A k \in 1..n : V[k] = V[k - 1] \o Pending(segs[k])
  <2>1. 0 \in 0..n /\ \A k \in 1..n : k \in 0..n /\ k # 0
    BY <1>1
  <2> QED BY <1>8, <2>1 DEF z
<1>10. \A k \in 0..n : V[k] \in S
  <2>1. \A k \in 1..n : V[k - 1] \in S => V[k] = D[k][V[k - 1]]
    BY <1>5, <1>9
  <2> QED BY <1>6, <1>9, <2>1 DEF Made
<1> QED BY <1>9, <1>10 DEF n, S, V, z

\* Segments that are the same up to the k-th hold the same up to there.
LEMMA HeldSame ==
  ASSUME NEW a \in Seq(Segment), NEW b \in Seq(Segment), NEW n \in Nat,
         n <= Len(a), n <= Len(b), \A k \in 1..n : a[k] = b[k]
  PROVE  Held(a)[n] = Held(b)[n]
<1> DEFINE P == {k \in 0..n : Held(a)[k] = Held(b)[k]}
<1>1. 0 \in P
  <2>1. Held(a)[0] = <<>> /\ Held(b)[0] = <<>>
    BY HeldDefined
  <2> QED BY <2>1
<1>2. ASSUME NEW k \in 1..n, k - 1 \in P PROVE k \in P
  <2>1. k \in 1..Len(a) /\ k \in 1..Len(b) /\ k \in 0..n
    OBVIOUS
  <2>2. Held(a)[k] = Held(a)[k - 1] \o Pending(a[k]) /\ Held(b)[k] = Held(b)[k - 1] \o Pending(b[k])
    BY <2>1, HeldDefined
  <2> QED BY <1>2, <2>1, <2>2
<1>3. n \in P
  <2> HIDE DEF P
  <2>1. 0..n \subseteq P
    BY <1>1, <1>2, Climb
  <2> QED BY <2>1
<1> QED BY <1>3

\* What all but the first segment hold follows what the first holds.
LEMMA HeldHead ==
  ASSUME NEW a \in Seq(Segment), a # <<>>
  PROVE  Waiting(a) = Pending(a[1]) \o Waiting(Tail(a))
<1> DEFINE n == Len(a) - 1
           t == Tail(a)
           h == Pending(a[1])
           P == {k \in 0..n : Held(a)[k + 1] = h \o Held(t)[k]}
<1>1. /\ t \in Seq(Segment) /\ Len(t) = n /\ n \in Nat /\ Len(a) = n + 1 /\ Len(a) \in Nat
      /\ \A k \in 1..n : t[k] = a[k + 1] /\ t[k] \in Segment
  BY HeadTailProperties
<1>2. a[1] \in Segment /\ h \in Bytes
  <2>1. a[1] \in Segment
    BY <1>1
  <2> QED BY <2>1, PendingType
<1> HIDE DEF t, n, h
<1>3. 0 \in P
  <2>1. Held(a)[0 + 1] = Held(a)[0] \o h
    <3>1. 1 \in 1..Len(a) /\ 0 + 1 = 1 /\ 1 - 1 = 0
      BY <1>1
    <3> QED BY <3>1, HeldDefined DEF h
  <2>2. Held(a)[0] = <<>> /\ Held(t)[0] = <<>>
    BY <1>1, HeldDefined
  <2>3. <<>> \o h = h /\ h \o <<>> = h
    BY <1>2, ConcatEmptySeq DEF Bytes
  <2>4. 0 \in 0..n
    BY <1>1
  <2>5. Held(a)[0 + 1] = h \o Held(t)[0]
    BY <2>1, <2>2, <2>3
  <2> QED BY <2>4, <2>5
<1>4. ASSUME NEW k \in 1..n, k - 1 \in P PROVE k \in P
  <2>1. /\ k \in 1..Len(t) /\ k + 1 \in 1..Len(a) /\ k \in 0..n /\ k - 1 \in 0..Len(t)
        /\ (k + 1) - 1 = k /\ (k - 1) + 1 = k
    BY <1>1
  <2>2. Held(a)[k + 1] = Held(a)[k] \o Pending(t[k])
    BY <1>1, <2>1, HeldDefined
  <2>3. Held(t)[k] = Held(t)[k - 1] \o Pending(t[k]) /\ Held(t)[k - 1] \in Bytes
    BY <1>1, <2>1, HeldDefined
  <2>4. Held(a)[k] = h \o Held(t)[k - 1]
    BY <1>4, <2>1
  <2>5. Pending(t[k]) \in Bytes
    BY <1>1, PendingType
  <2>6. (h \o Held(t)[k - 1]) \o Pending(t[k]) = h \o (Held(t)[k - 1] \o Pending(t[k]))
    <3> DEFINE x == Held(t)[k - 1]
               y == Pending(t[k])
    <3>1. h \in Seq(Byte) /\ x \in Seq(Byte) /\ y \in Seq(Byte)
      BY <1>2, <2>3, <2>5 DEF Bytes
    <3> HIDE DEF x, y
    <3>2. (h \o x) \o y = h \o (x \o y)
      BY <3>1, ConcatAssociative
    <3> QED BY <3>2 DEF x, y
  <2> QED BY <2>1, <2>2, <2>3, <2>4, <2>6
<1>5. n \in P
  <2> HIDE DEF P
  <2>1. 0..n \subseteq P
    BY <1>1, <1>3, <1>4, Climb
  <2> QED BY <1>1, <2>1
<1>6. Held(a)[n + 1] = h \o Held(t)[n]
  BY <1>5
<1> QED BY <1>1, <1>6 DEF Waiting, h, t

\* What all but the last segment hold comes before what the last holds.
LEMMA HeldLast ==
  ASSUME NEW a \in Seq(Segment), a # <<>>, NEW b \in Seq(Segment), Len(b) = Len(a),
         \A k \in 1..(Len(a) - 1) : b[k] = a[k]
  PROVE  \E p \in Bytes : /\ Waiting(a) = p \o Pending(a[Len(a)])
                          /\ Waiting(b) = p \o Pending(b[Len(b)])
<1> DEFINE n == Len(a) - 1
<1>1. n \in Nat /\ n <= Len(a) /\ n <= Len(b) /\ n \in 0..Len(a) /\ n + 1 = Len(a) /\ Len(a) \in 1..Len(a)
  OBVIOUS
<1>2. Held(a)[n] = Held(b)[n] /\ Held(a)[n] \in Bytes
  BY <1>1, HeldSame, HeldDefined
<1> QED BY <1>1, <1>2, HeldDefined DEF Waiting

\* What waits is a sequence of bytes; nothing waits in no segment or in a new one.
LEMMA WaitingType ==
  /\ Waiting(<<>>) = <<>>
  /\ \A a \in Seq(Segment) : Waiting(a) \in Bytes
<1>1. ASSUME NEW a \in Seq(Segment) PROVE Waiting(a) \in Bytes
  <2>1. Len(a) \in 0..Len(a)
    OBVIOUS
  <2> QED BY <2>1, HeldDefined DEF Waiting
<1>2. Waiting(<<>>) = <<>>
  <2>1. <<>> \in Seq(Segment) /\ Len(<<>>) = 0
    OBVIOUS
  <2> QED BY <2>1, HeldDefined DEF Waiting
<1> QED BY <1>1, <1>2

\* The socket takes n bytes of the first segment.
LEMMA WaitingGoes ==
  ASSUME NEW a \in Seq(Segment), a # <<>>, NEW n \in 0..Len(Pending(a[1]))
  PROVE  LET g == a[1]
             rest == IF n = Len(Pending(g)) THEN Tail(a)
                     ELSE [a EXCEPT ![1] = [g EXCEPT !.begin = @ + n]]
             p == SubSeq(Pending(g), 1, n)
         IN /\ rest \in Seq(Segment) /\ Len(rest) <= Len(a) /\ Len(rest) \in Nat
            /\ p \in Bytes /\ Len(p) = n /\ Waiting(a) = p \o Waiting(rest)
<1> DEFINE g == a[1]
           h == [g EXCEPT !.begin = @ + n]
           b == [a EXCEPT ![1] = h]
           rest == IF n = Len(Pending(g)) THEN Tail(a) ELSE b
           p == SubSeq(Pending(g), 1, n)
           Goes(x) == x \in Seq(Segment) /\ Len(x) <= Len(a) /\ Len(x) \in Nat /\ Waiting(a) = p \o Waiting(x)
<1>1. /\ g \in Segment /\ Len(a) \in Nat /\ Len(a) >= 1 /\ Tail(a) \in Seq(Segment) /\ Len(Tail(a)) = Len(a) - 1
      /\ \A i \in 1..Len(Tail(a)) : Tail(a)[i] = a[i + 1]
  <2>1. Len(a) \in Nat /\ Len(a) >= 1
    OBVIOUS
  <2>2. a[1] \in Segment
    BY <2>1
  <2> QED BY <2>1, <2>2, HeadTailProperties
<1>2. Pending(g) \in Bytes /\ Waiting(a) = Pending(g) \o Waiting(Tail(a))
  BY <1>1, PendingType, HeldHead
<1>3. p \in Bytes /\ Len(p) = n
  BY <1>2, Parted
<1>4. ASSUME n = Len(Pending(g)) PROVE Goes(Tail(a))
  <2>1. p = Pending(g)
    BY <1>2, <1>4, SubSeqFull DEF Bytes
  <2> HIDE DEF p
  <2>2. Waiting(a) = p \o Waiting(Tail(a))
    BY <1>2, <2>1
  <2> QED BY <1>1, <2>2
<1>5. ASSUME n # Len(Pending(g)) PROVE Goes(b)
  <2>1. h \in Segment /\ Pending(g) = p \o Pending(h)
    BY <1>1, PendingGoes
  <2> HIDE DEF h
  <2>2. b \in Seq(Segment) /\ Len(b) = Len(a) /\ b # <<>> /\ b[1] = h /\ \A i \in 2..Len(a) : b[i] = a[i]
    BY <1>1, <2>1
  <2> HIDE DEF b
  <2>3. Tail(b) = Tail(a)
    <3>1. /\ Tail(b) \in Seq(Segment) /\ Len(Tail(b)) = Len(a) - 1
          /\ \A i \in 1..Len(Tail(b)) : Tail(b)[i] = b[i + 1]
      BY <2>2, HeadTailProperties
    <3>2. ASSUME NEW i \in 1..Len(Tail(a)) PROVE Tail(b)[i] = Tail(a)[i]
      <4>1. i + 1 \in 2..Len(a)
        BY <1>1
      <4> QED BY <1>1, <2>2, <3>1, <4>1
    <3> QED BY <1>1, <3>1, <3>2, SeqEqual
  <2>4. Waiting(b) = Pending(h) \o Waiting(Tail(a))
    BY <2>2, <2>3, HeldHead
  <2>5. (p \o Pending(h)) \o Waiting(Tail(a)) = p \o (Pending(h) \o Waiting(Tail(a)))
    <3> DEFINE y == Pending(h)
               z == Waiting(Tail(a))
    <3>1. p \in Seq(Byte) /\ y \in Seq(Byte) /\ z \in Seq(Byte)
      BY <1>1, <1>3, <2>1, PendingType, WaitingType DEF Bytes
    <3> HIDE DEF p, y, z
    <3>2. (p \o y) \o z = p \o (y \o z)
      BY <3>1, ConcatAssociative
    <3> QED BY <3>2 DEF y, z
  <2>6. Waiting(a) = p \o Waiting(b)
    BY <1>2, <2>1, <2>4, <2>5
  <2> HIDE DEF p
  <2> QED BY <1>1, <2>2, <2>6
<1> HIDE DEF Goes
<1>6. Goes(rest)
  BY <1>4, <1>5
<1> HIDE DEF rest
<1>7. /\ rest \in Seq(Segment) /\ Len(rest) <= Len(a) /\ Len(rest) \in Nat
      /\ p \in Bytes /\ Len(p) = n /\ Waiting(a) = p \o Waiting(rest)
  BY <1>3, <1>6 DEF Goes
<1> QED BY <1>7 DEF rest

\* Bytes are added to the last segment.
LEMMA WaitingComes ==
  ASSUME NEW a \in Seq(Segment), a # <<>>, NEW x \in Bytes,
         Len(a[Len(a)].buffer) + Len(x) <= IR_BOUTPUT_SEGMENT_SIZE
  PROVE  LET b == [a EXCEPT ![Len(a)] = [a[Len(a)] EXCEPT !.buffer = @ \o x]]
         IN b \in Seq(Segment) /\ Len(b) = Len(a) /\ Waiting(b) = Waiting(a) \o x
<1> DEFINE n == Len(a)
           g == a[n]
           h == [g EXCEPT !.buffer = @ \o x]
           b == [a EXCEPT ![n] = h]
<1>1. n \in Nat /\ n >= 1 /\ n \in 1..n
  OBVIOUS
<1>2. g \in Segment /\ Pending(g) \in Bytes
  <2>1. g \in Segment
    BY <1>1
  <2> QED BY <2>1, PendingType
<1>3. h \in Segment /\ Pending(h) = Pending(g) \o x
  BY <1>2, PendingComes
<1> HIDE DEF h
<1>4. b \in Seq(Segment) /\ Len(b) = n /\ b[n] = h /\ \A k \in 1..(n - 1) : b[k] = a[k]
  BY <1>1, <1>3
<1> HIDE DEF b
<1>5. PICK p \in Bytes : Waiting(a) = p \o Pending(g) /\ Waiting(b) = p \o Pending(h)
  BY <1>4, HeldLast
<1>6. (p \o Pending(g)) \o x = p \o (Pending(g) \o x)
  <2> DEFINE y == Pending(g)
  <2>1. p \in Seq(Byte) /\ y \in Seq(Byte) /\ x \in Seq(Byte)
    BY <1>2, <1>5 DEF Bytes
  <2> HIDE DEF y
  <2>2. (p \o y) \o x = p \o (y \o x)
    BY <2>1, ConcatAssociative
  <2> QED BY <2>2 DEF y
<1>7. b \in Seq(Segment) /\ Len(b) = n /\ Waiting(b) = Waiting(a) \o x
  BY <1>3, <1>4, <1>5, <1>6
<1> QED BY <1>7 DEF b, h

\* A new segment holds nothing.
LEMMA WaitingGrows ==
  ASSUME IR_BOUTPUT_SEGMENT_SIZE \in Nat, NEW a \in Seq(Segment)
  PROVE  LET b == Append(a, EmptySegment)
         IN /\ b \in Seq(Segment) /\ b # <<>> /\ Len(b) = Len(a) + 1 /\ Waiting(b) = Waiting(a)
            /\ b[Len(b)] = EmptySegment
<1> DEFINE b == Append(a, EmptySegment)
           n == Len(a)
<1>1. EmptySegment \in Segment /\ Pending(EmptySegment) = <<>>
  <2>1. <<>> \in Bytes /\ Len(<<>>) = 0
    BY DEF Bytes
  <2>2. EmptySegment \in Segment
    BY <2>1 DEF Segment, EmptySegment
  <2>3. Pending(EmptySegment) \in Bytes /\ Len(Pending(EmptySegment)) = 0
    BY <2>1, <2>2, PendingType DEF EmptySegment
  <2> QED BY <2>2, <2>3, EmptySeq DEF Bytes
<1>2. /\ b \in Seq(Segment) /\ b # <<>> /\ Len(b) = n + 1 /\ n \in Nat
      /\ \A i \in 1..n : b[i] = a[i] /\ b[n + 1] = EmptySegment
  BY <1>1, AppendProperties
<1>3. b[n + 1] = EmptySegment
  BY <1>1, AppendProperties
<1> HIDE DEF b
<1>4. Held(b)[n] = Held(a)[n] /\ Held(a)[n] \in Bytes
  <2>1. n <= Len(a) /\ n <= Len(b) /\ n \in 0..Len(a)
    BY <1>2
  <2> QED BY <1>2, <2>1, HeldSame, HeldDefined
<1>5. Held(b)[n + 1] = Held(b)[n] \o Pending(b[n + 1])
  <2>1. n + 1 \in 1..Len(b) /\ (n + 1) - 1 = n
    BY <1>2
  <2> QED BY <1>2, <2>1, HeldDefined
<1>6. Held(a)[n] \o <<>> = Held(a)[n]
  BY <1>4, ConcatEmptySeq DEF Bytes
<1>7. Waiting(b) = Waiting(a)
  BY <1>1, <1>2, <1>3, <1>4, <1>5, <1>6 DEF Waiting
<1> QED BY <1>2, <1>3, <1>7 DEF b

\* From s to t the bytes x came in and d more were dropped; what went out and what
\* waits is all in order.
Moved(s, t, x, d) ==
  /\ t \in OutputState /\ t.written = s.written
  /\ t.counts.written = s.counts.written + Len(x) /\ t.counts.dropped = s.counts.dropped + d
  /\ \E p \in Bytes : /\ t.out = s.out \o p /\ Waiting(s.segments) \o x = p \o Waiting(t.segments)
                      /\ t.counts.flushed = s.counts.flushed + Len(p)

\* The parts of a state of the output.
LEMMA OutputType ==
  ASSUME NEW s \in OutputState
  PROVE  /\ s.segments \in Seq(Segment) /\ Len(s.segments) \in Nat /\ s.written \in Nat /\ s.out \in Bytes
         /\ s.counts \in [written : Nat, flushed : Nat, dropped : Nat]
         /\ s.counts.written \in Nat /\ s.counts.flushed \in Nat /\ s.counts.dropped \in Nat
         /\ Waiting(s.segments) \in Bytes
         /\ NoLimit \/ Len(s.segments) <= IR_BOUTPUT_MAX_SEGMENTS
<1>1. /\ s.segments \in Seq(Segment) /\ s.written \in Nat /\ s.out \in Bytes
      /\ s.counts \in [written : Nat, flushed : Nat, dropped : Nat]
      /\ NoLimit \/ Len(s.segments) <= IR_BOUTPUT_MAX_SEGMENTS
  BY DEF OutputState
<1>2. s.counts.written \in Nat /\ s.counts.flushed \in Nat /\ s.counts.dropped \in Nat
  BY <1>1
<1>3. Waiting(s.segments) \in Bytes /\ Len(s.segments) \in Nat
  BY <1>1, WaitingType
<1> QED BY <1>1, <1>2, <1>3

\* Nothing happens.
LEMMA MovedNot ==
  ASSUME NEW s \in OutputState
  PROVE  Moved(s, s, <<>>, 0)
<1>1. <<>> \in Bytes /\ Len(<<>>) = 0
  BY DEF Bytes
<1>2. s.out = s.out \o <<>> /\ Waiting(s.segments) \o <<>> = <<>> \o Waiting(s.segments)
  BY OutputType, ConcatEmptySeq DEF Bytes
<1>3. /\ s.counts.written = s.counts.written + 0 /\ s.counts.flushed = s.counts.flushed + 0
      /\ s.counts.dropped = s.counts.dropped + 0
  BY OutputType
<1> QED BY <1>1, <1>2, <1>3 DEF Moved

\* One thing happens after another.
LEMMA MovedTwice ==
  ASSUME NEW s \in OutputState, NEW t, NEW u, NEW x \in Bytes, NEW y \in Bytes,
         NEW d \in Nat, NEW e \in Nat, Moved(s, t, x, d), Moved(t, u, y, e)
  PROVE  Moved(s, u, x \o y, d + e)
<1> DEFINE a == Waiting(s.segments)
           b == Waiting(t.segments)
           c == Waiting(u.segments)
<1>1. t \in OutputState /\ u \in OutputState /\ u.written = s.written
  BY DEF Moved
<1>2. a \in Bytes /\ b \in Bytes /\ c \in Bytes /\ s.out \in Bytes
  BY <1>1, OutputType
<1>3. PICK p \in Bytes : /\ t.out = s.out \o p /\ a \o x = p \o b
                         /\ t.counts.flushed = s.counts.flushed + Len(p)
  BY DEF Moved
<1>4. PICK q \in Bytes : /\ u.out = t.out \o q /\ b \o y = q \o c
                         /\ u.counts.flushed = t.counts.flushed + Len(q)
  BY DEF Moved
<1>5. /\ x \o y \in Bytes /\ Len(x \o y) = Len(x) + Len(y) /\ Len(x) \in Nat /\ Len(y) \in Nat
      /\ p \o q \in Bytes /\ Len(p \o q) = Len(p) + Len(q) /\ Len(p) \in Nat /\ Len(q) \in Nat
  BY Joined
<1>6. u.out = s.out \o (p \o q)
  <2> DEFINE o == s.out
  <2>1. o \in Seq(Byte) /\ p \in Seq(Byte) /\ q \in Seq(Byte)
    BY <1>2 DEF Bytes
  <2> HIDE DEF o
  <2>2. (o \o p) \o q = o \o (p \o q)
    BY <2>1, ConcatAssociative
  <2> QED BY <1>3, <1>4, <2>2 DEF o
<1> HIDE DEF a, b, c
<1>7. a \o (x \o y) = (p \o q) \o c
  <2>1. /\ a \in Bytes /\ b \in Bytes /\ c \in Bytes /\ x \in Bytes /\ y \in Bytes
        /\ p \in Bytes /\ q \in Bytes
    BY <1>2
  <2>2. Regrouped(a, x, y) /\ Regrouped(p, b, y) /\ Regrouped(p, q, c)
    BY <2>1, JoinedThrice
  <2> QED BY <1>3, <1>4, <2>2 DEF Regrouped
<1>8. /\ u.counts.written = s.counts.written + Len(x \o y) /\ u.counts.dropped = s.counts.dropped + (d + e)
      /\ u.counts.flushed = s.counts.flushed + Len(p \o q)
  <2>1. /\ s.counts.written \in Nat /\ s.counts.flushed \in Nat /\ s.counts.dropped \in Nat
        /\ t.counts.written = s.counts.written + Len(x) /\ t.counts.dropped = s.counts.dropped + d
        /\ u.counts.written = t.counts.written + Len(y) /\ u.counts.dropped = t.counts.dropped + e
    BY OutputType DEF Moved
  <2>2. u.counts.written = s.counts.written + Len(x \o y)
    BY <1>5, <2>1
  <2>3. u.counts.flushed = s.counts.flushed + Len(p \o q)
    BY <1>3, <1>4, <1>5, <2>1
  <2>4. u.counts.dropped = s.counts.dropped + (d + e)
    BY <2>1
  <2> QED BY <2>2, <2>3, <2>4
<1> QED BY <1>1, <1>5, <1>6, <1>7, <1>8 DEF Moved, a, b, c

\* The socket takes bytes of the first segment: what goes out is what waits first.
LEMMA FlushedMoves ==
  ASSUME NEW s \in OutputState, s.segments # <<>>,
         NEW n \in 0..Len(Pending(s.segments[1]))
  PROVE  LET r == Flushed(s, n)
         IN /\ Moved(s, r.state, <<>>, 0) /\ r.again \in BOOLEAN
            /\ r.again => r.state.segments # <<>>
<1> DEFINE g == s.segments[1]
           whole == n = Len(Pending(g))
           rest == IF whole THEN Tail(s.segments)
                   ELSE [s.segments EXCEPT ![1] = [g EXCEPT !.begin = @ + n]]
           p == SubSeq(Pending(g), 1, n)
           more == [s.counts EXCEPT !.flushed = @ + n]
           t == [s EXCEPT !.segments = rest, !.out = @ \o p, !.counts.flushed = @ + n]
<1>1. /\ s.segments \in Seq(Segment) /\ Len(s.segments) \in Nat /\ s.written \in Nat /\ s.out \in Bytes
      /\ s.counts \in [written : Nat, flushed : Nat, dropped : Nat]
      /\ s.counts.written \in Nat /\ s.counts.flushed \in Nat /\ s.counts.dropped \in Nat
      /\ Waiting(s.segments) \in Bytes
  BY OutputType
<1>2. /\ rest \in Seq(Segment) /\ Len(rest) <= Len(s.segments) /\ Len(rest) \in Nat
      /\ p \in Bytes /\ Len(p) = n /\ Waiting(s.segments) = p \o Waiting(rest)
  BY <1>1, WaitingGoes
<1>3. Flushed(s, n) = [state |-> t, again |-> whole /\ rest # <<>>]
  BY DEF Flushed
<1>20. whole \in BOOLEAN
  OBVIOUS
<1> HIDE DEF rest, p, whole
<1>4. n \in Nat
  <2>1. Len(p) \in Nat
    BY <1>2, Joined
  <2> QED BY <1>2, <2>1
<1>5. /\ more \in [written : Nat, flushed : Nat, dropped : Nat] /\ more.written = s.counts.written
      /\ more.flushed = s.counts.flushed + n /\ more.dropped = s.counts.dropped + 0
  BY <1>1, <1>4
<1> HIDE DEF more
<1> DEFINE o == s.out \o p
<1>6. o \in Bytes
  BY <1>1, <1>2, Joined
<1> HIDE DEF o
<1>7. /\ t \in [segments : Seq(Segment), written : Nat, out : Bytes,
                counts : [written : Nat, flushed : Nat, dropped : Nat]]
      /\ t.segments = rest /\ t.written = s.written /\ t.out = o /\ t.counts = more
  <2>1. s \in [segments : Seq(Segment), written : Nat, out : Bytes,
               counts : [written : Nat, flushed : Nat, dropped : Nat]]
    BY DEF OutputState
  <2>2. t.segments = rest /\ t.written = s.written /\ t.out = o
    BY <2>1 DEF o
  <2>3. t.counts = more
    BY <2>1 DEF more
  <2>4. t \in [segments : Seq(Segment), written : Nat, out : Bytes,
               counts : [written : Nat, flushed : Nat, dropped : Nat]]
    <3>1. s.counts.flushed + n \in Nat /\ s.out \o p \in Bytes
      BY <1>1, <1>4, <1>6 DEF o
    <3> QED BY <1>2, <2>1, <3>1
  <2> QED BY <2>2, <2>3, <2>4
<1> HIDE DEF t
<1>8. t \in OutputState
  <2>1. NoLimit \/ Len(s.segments) <= IR_BOUTPUT_MAX_SEGMENTS
    BY OutputType
  <2>2. NoLimit \/ Len(rest) <= IR_BOUTPUT_MAX_SEGMENTS
    BY <1>1, <1>2, <2>1, BoutAssumption
  <2> QED BY <1>7, <2>2 DEF OutputState
<1>9. Moved(s, t, <<>>, 0)
  <2>1. Waiting(s.segments) \o <<>> = p \o Waiting(rest)
    BY <1>1, <1>2, ConcatEmptySeq DEF Bytes
  <2>2. more.written = s.counts.written + Len(<<>>)
    BY <1>1, <1>5
  <2> QED BY <1>2, <1>5, <1>7, <1>8, <2>1, <2>2 DEF Moved, o
<1> DEFINE r == Flushed(s, n)
           again == whole /\ rest # <<>>
<1>10. again \in BOOLEAN /\ (again => rest # <<>>)
  BY <1>20
<1>11. r = [state |-> t, again |-> again]
  BY <1>3
<1> HIDE DEF again, r
<1>12. r.state = t /\ r.again = again
  BY <1>11
<1>13. Moved(s, r.state, <<>>, 0) /\ r.again \in BOOLEAN /\ (r.again => r.state.segments # <<>>)
  BY <1>7, <1>9, <1>10, <1>12
<1> QED BY <1>13 DEF r

\* Every segment holds something.
Solid(segs) == \A i \in 1..Len(segs) : segs[i].begin < Len(segs[i].buffer)
Flushes(s, t) == Solid(t.segments) /\ (t = s \/ t.counts.flushed > s.counts.flushed)

\* What the socket takes of the first segment leaves no segment empty, and when it
\* takes nothing all stays as it is.
LEMMA FlushedSolid ==
  ASSUME NEW s \in OutputState, s.segments # <<>>, Solid(s.segments),
         NEW n \in 0..Len(Pending(s.segments[1]))
  PROVE  Flushes(s, Flushed(s, n).state)
<1> DEFINE a == s.segments
           g == a[1]
           h == [g EXCEPT !.begin = @ + n]
           b == [a EXCEPT ![1] = h]
           whole == n = Len(Pending(g))
           p == SubSeq(Pending(g), 1, n)
           t == [s EXCEPT !.segments = IF whole THEN Tail(a) ELSE b, !.out = @ \o p, !.counts.flushed = @ + n]
<1>1. /\ a \in Seq(Segment) /\ Len(a) \in Nat /\ Len(a) >= 1 /\ s.counts.flushed \in Nat /\ s.out \in Bytes
  BY OutputType
<1>2. s \in [segments : Seq(Segment), written : Nat, out : Bytes,
             counts : [written : Nat, flushed : Nat, dropped : Nat]]
  BY DEF OutputState
<1>3. Flushed(s, n).state = t
  BY DEF Flushed
<1>4. g \in Segment /\ g.begin < Len(g.buffer)
  BY <1>1 DEF Solid
<1>5. Pending(g) \in Bytes /\ Len(Pending(g)) = Len(g.buffer) - g.begin /\ Len(g.buffer) \in Nat /\ g.begin \in Nat
  BY <1>4, PendingType
<1>6. n \in Nat /\ n <= Len(Pending(g))
  BY <1>5
<1>7. t.segments = (IF whole THEN Tail(a) ELSE b) /\ t.counts.flushed = s.counts.flushed + n
  BY <1>2
<1>8. Solid(t.segments)
  <2>1. CASE whole
    <3>1. /\ Tail(a) \in Seq(Segment) /\ Len(Tail(a)) = Len(a) - 1
          /\ \A i \in 1..Len(Tail(a)) : Tail(a)[i] = a[i + 1]
      BY <1>1, HeadTailProperties
    <3>2. \A i \in 1..Len(Tail(a)) : i + 1 \in 1..Len(a)
      BY <1>1, <3>1
    <3>3. Solid(Tail(a))
      BY <3>1, <3>2 DEF Solid
    <3> QED BY <1>7, <2>1, <3>3
  <2>2. CASE ~whole
    <3>1. h.begin = g.begin + n /\ h.buffer = g.buffer
      BY <1>4 DEF Segment
    <3>2. h.begin < Len(h.buffer)
      BY <1>5, <1>6, <2>2, <3>1
    <3> HIDE DEF h
    <3>3. Len(b) = Len(a) /\ b[1] = h /\ \A i \in 1..Len(a) : i # 1 => b[i] = a[i]
      BY <1>1
    <3> HIDE DEF b
    <3>4. Solid(b)
      BY <1>1, <3>2, <3>3 DEF Solid
    <3> QED BY <1>7, <2>2, <3>4
  <2> QED BY <2>1, <2>2
<1>9. t = s \/ t.counts.flushed > s.counts.flushed
  <2>1. CASE n = 0
    <3>1. ~whole
      BY <1>4, <1>5, <2>1
    <3>2. h = g
      BY <1>4, <1>5, <2>1 DEF Segment
    <3>3. b = a
      BY <1>1, <3>2
    <3>4. p = <<>> /\ s.out \o p = s.out
      <4>1. p = <<>>
        BY <1>5, <2>1, Parted, EmptySeq DEF Bytes
      <4> QED BY <1>1, <4>1, ConcatEmptySeq DEF Bytes
    <3>5. s.counts.flushed + n = s.counts.flushed
      BY <1>1, <2>1
    <3> HIDE DEF b, p, whole
    <3> QED BY <1>2, <3>1, <3>3, <3>4, <3>5
  <2>2. CASE n # 0
    BY <1>1, <1>6, <1>7, <2>2
  <2> QED BY <2>1, <2>2
<1> HIDE DEF t
<1> QED BY <1>3, <1>8, <1>9 DEF Flushes

\* A flush: what goes out is what waits first, however much the socket takes.
LEMMA FlushMoves ==
  ASSUME NEW s \in OutputState
  PROVE  \A t \in ir_boutput_attempt_flush(s) :
           Moved(s, t, <<>>, 0) /\ (Solid(s.segments) => Flushes(s, t))
<1> DEFINE more(r) == {Flushed(r.state, m) : m \in 0..Len(Pending(r.state.segments[1]))}
           R == {r \in [state : OutputState, again : BOOLEAN] :
                   /\ Moved(s, r.state, <<>>, 0) /\ (r.again => r.state.segments # <<>>)
                   /\ Solid(s.segments) => Flushes(s, r.state)}
           n == Len(s.segments)
           next(X) == UNION {IF r.again THEN more(r) ELSE {r} : r \in X}
           x == {[state |-> s, again |-> s.segments # <<>>]}
           Is(f) == f = [k \in 0..n |-> IF k = 0 THEN {[state |-> s, again |-> s.segments # <<>>]}
                                        ELSE next(f[k - 1])]
           S == SUBSET R
           D == [k \in 1..n |-> [X \in S |-> next(X)]]
           V == CHOOSE f : Is(f)
<1>1. n \in Nat
  BY OutputType
<1>2. x \in S
  <2> DEFINE again == s.segments # <<>>
             r == [state |-> s, again |-> again]
  <2>1. again \in BOOLEAN /\ (again => s.segments # <<>>)
    OBVIOUS
  <2> HIDE DEF again
  <2>2. r \in [state : OutputState, again : BOOLEAN] /\ r.state = s /\ r.again = again
    BY <2>1
  <2>3. x = {r}
    BY DEF again
  <2> HIDE DEF r, x
  <2>4. r \in R
    BY <2>1, <2>2, MovedNot DEF Flushes
  <2> QED BY <2>3, <2>4
<1>12. ASSUME NEW r \in R PROVE (IF r.again THEN more(r) ELSE {r}) \subseteq R
  <2>1. /\ r \in R /\ r.state \in OutputState /\ Moved(s, r.state, <<>>, 0)
        /\ r.again => r.state.segments # <<>>
        /\ Solid(s.segments) => Flushes(s, r.state)
    BY <1>12
  <2>2. ASSUME r.again, NEW m \in 0..Len(Pending(r.state.segments[1]))
        PROVE  Flushed(r.state, m) \in R
    <3> DEFINE u == Flushed(r.state, m)
    <3>1. /\ Moved(r.state, u.state, <<>>, 0) /\ u.again \in BOOLEAN
          /\ u.again => u.state.segments # <<>>
      BY <2>1, <2>2, FlushedMoves
    <3>2. Moved(s, u.state, <<>>, 0)
      <4>1. <<>> \in Bytes /\ <<>> \o <<>> = <<>>
        BY ConcatEmptySeq DEF Bytes
      <4>2. Moved(s, u.state, <<>> \o <<>>, 0 + 0)
        BY <2>1, <3>1, <4>1, MovedTwice
      <4> QED BY <4>1, <4>2
    <3>3. u = [state |-> u.state, again |-> u.again]
      BY DEF Flushed
    <3>6. ASSUME Solid(s.segments) PROVE Flushes(s, u.state)
      <4>1. Flushes(s, r.state) /\ Flushes(r.state, u.state)
        BY <2>1, <2>2, <3>6, FlushedSolid DEF Flushes
      <4>2. s.counts.flushed \in Nat /\ r.state.counts.flushed \in Nat /\ u.state.counts.flushed \in Nat
        BY <2>1, <3>1, OutputType DEF Moved
      <4> QED BY <4>1, <4>2 DEF Flushes
    <3> HIDE DEF u
    <3>4. u.state \in OutputState
      BY <3>1 DEF Moved
    <3>5. u \in R
      BY <3>1, <3>2, <3>3, <3>4, <3>6
    <3> QED BY <3>5 DEF u
  <2> HIDE DEF R
  <2> QED BY <2>1, <2>2
<1>3. \A X \in S : next(X) \in S
  <2> SUFFICES ASSUME NEW X, X \subseteq R PROVE next(X) \subseteq R
    OBVIOUS
  <2> DEFINE part(r) == IF r.again THEN more(r) ELSE {r}
  <2>1. \A r \in R : part(r) \subseteq R
    BY <1>12
  <2>2. next(X) = UNION {part(r) : r \in X}
    OBVIOUS
  <2> HIDE DEF R, part, next
  <2> QED BY <2>1, <2>2
<1>4. ir_boutput_attempt_flush(s) = {r.state : r \in V[n]}
  BY DEF ir_boutput_attempt_flush
<1> HIDE DEF n, next, S, x
<1>5. D \in StepsOf(n, S) /\ \A k \in 1..n : \A X \in S : D[k][X] = next(X)
  BY <1>3 DEF StepsOf
<1> HIDE DEF D
<1>6. Made(n, S, x, D)
  BY <1>1, <1>2, <1>5, Iterated
<1>7. \E f : Is(f)
  <2>1. PICK f \in [0..n -> S] : f[0] = x /\ \A k \in 1..n : f[k] = D[k][f[k - 1]]
    BY <1>6 DEF Made
  <2>2. \A k \in 1..n : f[k] = next(f[k - 1])
    <3> SUFFICES ASSUME NEW k \in 1..n PROVE f[k] = next(f[k - 1])
      OBVIOUS
    <3>1. f[k - 1] \in S
      BY <1>1, <2>1
    <3> QED BY <1>5, <2>1, <3>1
  <2>3. \A k \in 0..n : k # 0 => k \in 1..n
    BY <1>1
  <2>4. \A k \in 0..n : f[k] = IF k = 0 THEN {[state |-> s, again |-> s.segments # <<>>]}
                               ELSE next(f[k - 1])
    BY <2>1, <2>2, <2>3 DEF x
  <2>5. Is(f)
    BY <2>4
  <2> QED BY <2>5
<1>8. Is(V)
  <2> HIDE DEF Is
  <2> QED BY <1>7
<1> HIDE DEF V
<1>9. V[0] = x /\ \A k \in 1..n : V[k] = next(V[k - 1])
  <2>1. 0 \in 0..n /\ \A k \in 1..n : k \in 0..n /\ k # 0
    BY <1>1
  <2> QED BY <1>8, <2>1 DEF x
<1>10. V[n] \in S
  <2>1. \A k \in 1..n : V[k - 1] \in S => V[k] = D[k][V[k - 1]]
    BY <1>5, <1>9
  <2>2. \A k \in 0..n : V[k] \in S
    BY <1>6, <1>9, <2>1 DEF Made
  <2> QED BY <1>1, <2>2
<1> QED BY <1>4, <1>10 DEF S

\* Bytes go to the last segment as far as they fit.
LEMMA FilledMoves ==
  ASSUME NEW s \in OutputState, s.segments # <<>>, NEW bytes \in Bytes
  PROVE  LET r == Filled(s, bytes)
         IN r.left \in Bytes /\ \E x \in Bytes : bytes = x \o r.left /\ Moved(s, r.state, x, 0)
<1> DEFINE last == Len(s.segments)
           g == s.segments[last]
           room == IR_BOUTPUT_SEGMENT_SIZE - Len(g.buffer)
           k == IF room < Len(bytes) THEN room ELSE Len(bytes)
           x == SubSeq(bytes, 1, k)
           left == SubSeq(bytes, k + 1, Len(bytes))
           h == [g EXCEPT !.buffer = @ \o x]
           b == [s.segments EXCEPT ![last] = h]
           more == [s.counts EXCEPT !.written = @ + k]
           t == [s EXCEPT !.segments[last] = h, !.counts.written = @ + k]
<1>1. /\ s.segments \in Seq(Segment) /\ last \in Nat /\ s.written \in Nat /\ s.out \in Bytes
      /\ s.counts \in [written : Nat, flushed : Nat, dropped : Nat]
      /\ s.counts.written \in Nat /\ s.counts.flushed \in Nat /\ s.counts.dropped \in Nat
      /\ NoLimit \/ last <= IR_BOUTPUT_MAX_SEGMENTS
  BY OutputType
<1>2. g \in Segment /\ Len(g.buffer) \in Nat /\ Len(g.buffer) <= IR_BOUTPUT_SEGMENT_SIZE
  <2>1. last \in 1..Len(s.segments)
    BY <1>1
  <2>2. g \in Segment
    BY <1>1, <2>1
  <2> QED BY <2>2, PendingType DEF Segment
<1>3. Len(bytes) \in Nat
  BY DEF Bytes
<1> HIDE DEF g
<1>4. k \in 0..Len(bytes) /\ k \in Nat /\ Len(g.buffer) + k <= IR_BOUTPUT_SEGMENT_SIZE
  <2> DEFINE size == IR_BOUTPUT_SEGMENT_SIZE
  <2>1. size \in Nat
    BY BoutAssumption
  <2>2. Len(g.buffer) \in Nat /\ Len(g.buffer) <= size /\ room = size - Len(g.buffer)
    BY <1>2
  <2> HIDE DEF size, room
  <2>3. k \in 0..Len(bytes) /\ k \in Nat /\ Len(g.buffer) + k <= size
    <3> DEFINE all == Len(bytes)
               had == Len(g.buffer)
    <3>1. /\ all \in Nat /\ had \in Nat /\ size \in Nat /\ had <= size /\ room = size - had
          /\ k = IF room < all THEN room ELSE all
      BY <1>3, <2>1, <2>2
    <3> HIDE DEF all, had, k
    <3>2. k \in 0..all /\ k \in Nat /\ had + k <= size
      BY <3>1
    <3> QED BY <3>2 DEF all, had
  <2> QED BY <2>3 DEF size
<1>5. Filled(s, bytes) = [state |-> t, left |-> left]
  BY DEF Filled, g
<1> HIDE DEF k, room
<1>6. x \in Bytes /\ Len(x) = k /\ left \in Bytes /\ bytes = x \o left
  BY <1>4, Parted
<1> HIDE DEF x, left
<1>7. b \in Seq(Segment) /\ Len(b) = last /\ Waiting(b) = Waiting(s.segments) \o x
  <2>1. Len(s.segments[Len(s.segments)].buffer) + Len(x) <= IR_BOUTPUT_SEGMENT_SIZE
    BY <1>4, <1>6 DEF g
  <2> QED BY <1>1, <1>6, <2>1, WaitingComes DEF g
<1> HIDE DEF last, h
<1>8. /\ more \in [written : Nat, flushed : Nat, dropped : Nat] /\ more.written = s.counts.written + k
      /\ more.flushed = s.counts.flushed /\ more.dropped = s.counts.dropped + 0
  BY <1>1, <1>4
<1>9. /\ t \in [segments : Seq(Segment), written : Nat, out : Bytes,
                counts : [written : Nat, flushed : Nat, dropped : Nat]]
      /\ t.segments = b /\ t.written = s.written /\ t.out = s.out /\ t.counts = more
  <2>1. s \in [segments : Seq(Segment), written : Nat, out : Bytes,
               counts : [written : Nat, flushed : Nat, dropped : Nat]]
    BY DEF OutputState
  <2>2. t.segments = b /\ t.written = s.written /\ t.out = s.out
    BY <2>1
  <2>3. t.counts = more
    BY <2>1
  <2>4. t \in [segments : Seq(Segment), written : Nat, out : Bytes,
               counts : [written : Nat, flushed : Nat, dropped : Nat]]
    <3>1. s.counts.written + k \in Nat /\ [s.segments EXCEPT ![last] = h] \in Seq(Segment)
      BY <1>1, <1>4, <1>7
    <3> QED BY <2>1, <3>1
  <2> QED BY <2>2, <2>3, <2>4
<1> HIDE DEF t, b, more
<1>10. t \in OutputState
  BY <1>1, <1>7, <1>9 DEF OutputState, last
<1>11. Moved(s, t, x, 0)
  <2>1. Waiting(s.segments) \o x = <<>> \o Waiting(b)
    BY <1>7, WaitingType, ConcatEmptySeq DEF Bytes
  <2>2. <<>> \in Bytes /\ Len(<<>>) = 0 /\ s.out = s.out \o <<>> /\ s.counts.flushed = s.counts.flushed + 0
    BY <1>1, ConcatEmptySeq DEF Bytes
  <2> QED BY <1>6, <1>8, <1>9, <1>10, <2>1, <2>2 DEF Moved
<1> DEFINE r == Filled(s, bytes)
<1>12. r.state = t /\ r.left = left
  BY <1>5
<1> HIDE DEF r
<1>13. r.left \in Bytes /\ bytes = x \o r.left /\ Moved(s, r.state, x, 0)
  BY <1>6, <1>11, <1>12
<1> QED BY <1>6, <1>13 DEF r

\* A new segment changes nothing that was written, waits or went out.
LEMMA GrownMoves ==
  ASSUME NEW s \in OutputState, s.segments = <<>> \/ MayGrow(s)
  PROVE  Moved(s, Grown(s), <<>>, 0) /\ Grown(s).segments # <<>>
<1> DEFINE b == Append(s.segments, EmptySegment)
           t == Grown(s)
<1>1. /\ s.segments \in Seq(Segment) /\ Len(s.segments) \in Nat /\ s.written \in Nat /\ s.out \in Bytes
      /\ s.counts \in [written : Nat, flushed : Nat, dropped : Nat]
      /\ s.counts.written \in Nat /\ s.counts.flushed \in Nat /\ s.counts.dropped \in Nat
      /\ Waiting(s.segments) \in Bytes
  BY OutputType
<1>2. /\ b \in Seq(Segment) /\ b # <<>> /\ Len(b) = Len(s.segments) + 1
      /\ Waiting(b) = Waiting(s.segments)
  <2>1. IR_BOUTPUT_SEGMENT_SIZE \in Nat
    BY BoutAssumption
  <2> QED BY <1>1, <2>1, WaitingGrows
<1>3. NoLimit \/ Len(b) <= IR_BOUTPUT_MAX_SEGMENTS
  <2>1. IR_BOUTPUT_MAX_SEGMENTS \in Nat \ {0}
    BY BoutAssumption
  <2>2. CASE s.segments = <<>>
    BY <1>1, <1>2, <2>1, <2>2
  <2>3. CASE MayGrow(s)
    BY <1>1, <1>2, <2>1, <2>3 DEF MayGrow
  <2> QED BY <2>2, <2>3
<1>4. t = [s EXCEPT !.segments = b]
  BY DEF Grown
<1> HIDE DEF b
<1>5. /\ t \in [segments : Seq(Segment), written : Nat, out : Bytes,
                counts : [written : Nat, flushed : Nat, dropped : Nat]]
      /\ t.segments = b /\ t.written = s.written /\ t.out = s.out /\ t.counts = s.counts
  <2>1. s \in [segments : Seq(Segment), written : Nat, out : Bytes,
               counts : [written : Nat, flushed : Nat, dropped : Nat]]
    BY DEF OutputState
  <2> QED BY <1>2, <1>4, <2>1
<1> HIDE DEF t
<1>6. t \in OutputState
  BY <1>3, <1>5 DEF OutputState
<1>7. Moved(s, t, <<>>, 0)
  <2>1. Waiting(s.segments) \o <<>> = <<>> \o Waiting(b)
    BY <1>1, <1>2, ConcatEmptySeq DEF Bytes
  <2>2. <<>> \in Bytes /\ Len(<<>>) = 0 /\ s.out = s.out \o <<>>
    BY <1>1, ConcatEmptySeq DEF Bytes
  <2>3. /\ s.counts.written = s.counts.written + 0 /\ s.counts.flushed = s.counts.flushed + 0
        /\ s.counts.dropped = s.counts.dropped + 0
    BY <1>1
  <2> QED BY <1>5, <1>6, <2>1, <2>2, <2>3 DEF Moved
<1> QED BY <1>2, <1>5, <1>7 DEF t

\* d bytes are dropped.
LEMMA DroppedMoves ==
  ASSUME NEW s \in OutputState, NEW d \in Nat
  PROVE  Moved(s, [s EXCEPT !.counts.dropped = @ + d], <<>>, d)
<1> DEFINE more == [s.counts EXCEPT !.dropped = @ + d]
           t == [s EXCEPT !.counts.dropped = @ + d]
<1>1. /\ s.segments \in Seq(Segment) /\ s.out \in Bytes
      /\ s.counts \in [written : Nat, flushed : Nat, dropped : Nat]
      /\ s.counts.written \in Nat /\ s.counts.flushed \in Nat /\ s.counts.dropped \in Nat
      /\ Waiting(s.segments) \in Bytes
      /\ NoLimit \/ Len(s.segments) <= IR_BOUTPUT_MAX_SEGMENTS
  BY OutputType
<1>2. /\ more.written = s.counts.written + 0 /\ more.flushed = s.counts.flushed + 0
      /\ more.dropped = s.counts.dropped + d
  BY <1>1
<1>3. /\ t \in [segments : Seq(Segment), written : Nat, out : Bytes,
                counts : [written : Nat, flushed : Nat, dropped : Nat]]
      /\ t.segments = s.segments /\ t.written = s.written /\ t.out = s.out /\ t.counts = more
  <2>1. s \in [segments : Seq(Segment), written : Nat, out : Bytes,
               counts : [written : Nat, flushed : Nat, dropped : Nat]]
    BY DEF OutputState
  <2>2. s.counts.dropped + d \in Nat
    BY <1>1
  <2> QED BY <2>1, <2>2
<1> HIDE DEF t, more
<1>4. t \in OutputState
  BY <1>1, <1>3 DEF OutputState
<1>5. Moved(s, t, <<>>, d)
  <2>1. Waiting(s.segments) \o <<>> = <<>> \o Waiting(s.segments)
    BY <1>1, ConcatEmptySeq DEF Bytes
  <2>2. <<>> \in Bytes /\ Len(<<>>) = 0 /\ s.out = s.out \o <<>>
    BY <1>1, ConcatEmptySeq DEF Bytes
  <2> QED BY <1>2, <1>3, <1>4, <2>1, <2>2 DEF Moved
<1> QED BY <1>5 DEF t

\* How far the writing of the bytes has come: some are in, and the others are left or
\* were dropped.
Ran(s, bytes, r) ==
  \E x \in Bytes : \E y \in Bytes :
    /\ bytes = x \o y
    /\ \/ r.left = y /\ Moved(s, r.state, x, 0)
       \/ r.left = <<>> /\ Moved(s, r.state, x, Len(y)) /\ y # <<>>
Writing(s, bytes) == {r \in [state : OutputState, left : Bytes] : Ran(s, bytes, r)}

\* A turn of a write takes it further.
LEMMA TurnRuns ==
  ASSUME NEW s \in OutputState, NEW bytes \in Bytes, NEW r \in Writing(s, bytes)
  PROVE  Turn(r) \subseteq Writing(s, bytes)
<1> DEFINE u == r.state
           left == r.left
           dropped(f) == [state |-> [f EXCEPT !.counts.dropped = @ + Len(left)], left |-> <<>>]
<1>1. /\ r \in [state : OutputState, left : Bytes] /\ u \in OutputState /\ left \in Bytes
      /\ r = [state |-> u, left |-> left]
  BY DEF Writing
<1>2. CASE left = <<>>
  BY <1>2 DEF Turn
<1>3. CASE left # <<>>
  <2>1. PICK x \in Bytes : bytes = x \o left /\ Moved(s, u, x, 0)
    BY <1>3 DEF Writing, Ran
  <2>2. <<>> \in Bytes /\ x \o <<>> = x /\ Len(left) \in Nat
    BY ConcatEmptySeq DEF Bytes
  <2>3. ASSUME NEW v \in OutputState, Moved(u, v, <<>>, 0), v.segments # <<>>
        PROVE  Filled(v, left) \in Writing(s, bytes)
    <3> DEFINE w == Filled(v, left)
    <3>1. w = [state |-> w.state, left |-> w.left]
      BY DEF Filled
    <3>2. w.left \in Bytes /\ \E y \in Bytes : left = y \o w.left /\ Moved(v, w.state, y, 0)
      BY <1>1, <2>3, FilledMoves
    <3> HIDE DEF w
    <3>3. PICK y \in Bytes : left = y \o w.left /\ Moved(v, w.state, y, 0)
      BY <3>2
    <3>4. Moved(s, v, x, 0)
      <4>1. Moved(s, v, x \o <<>>, 0 + 0)
        BY <2>1, <2>2, <2>3, MovedTwice
      <4> QED BY <2>2, <4>1
    <3>5. Moved(s, w.state, x \o y, 0)
      <4>1. Moved(s, w.state, x \o y, 0 + 0)
        BY <3>3, <3>4, MovedTwice
      <4> QED BY <4>1
    <3>6. x \o y \in Bytes /\ bytes = (x \o y) \o w.left
      <4>1. Regrouped(x, y, w.left)
        BY <3>2, JoinedThrice
      <4> QED BY <2>1, <3>3, <4>1, Joined DEF Regrouped
    <3>7. w \in [state : OutputState, left : Bytes]
      BY <3>1, <3>2, <3>5 DEF Moved
    <3>8. w \in Writing(s, bytes)
      BY <3>2, <3>5, <3>6, <3>7 DEF Writing, Ran
    <3> QED BY <3>8 DEF w
  <2>4. ASSUME NEW f \in ir_boutput_attempt_flush(u)
        PROVE  dropped(f) \in Writing(s, bytes) /\ [r EXCEPT !.state = f] \in Writing(s, bytes)
    <3>1. Moved(u, f, <<>>, 0) /\ f \in OutputState
      <4>1. Moved(u, f, <<>>, 0)
        BY <1>1, FlushMoves
      <4> QED BY <4>1 DEF Moved
    <3>2. Moved(s, f, x, 0)
      <4>1. Moved(s, f, x \o <<>>, 0 + 0)
        BY <2>1, <2>2, <3>1, MovedTwice
      <4> QED BY <2>2, <4>1
    <3>3. [r EXCEPT !.state = f] \in Writing(s, bytes)
      <4> DEFINE w == [r EXCEPT !.state = f]
      <4>1. w \in [state : OutputState, left : Bytes] /\ w.state = f /\ w.left = left
        BY <1>1, <3>1
      <4> HIDE DEF w
      <4>2. w \in Writing(s, bytes)
        BY <1>1, <2>1, <3>2, <4>1 DEF Writing, Ran
      <4> QED BY <4>2 DEF w
    <3>4. dropped(f) \in Writing(s, bytes)
      <4> DEFINE g == [f EXCEPT !.counts.dropped = @ + Len(left)]
      <4>1. Moved(f, g, <<>>, Len(left))
        BY <2>2, <3>1, DroppedMoves
      <4> HIDE DEF g
      <4>2. Moved(s, g, x, Len(left))
        <5>1. Moved(s, g, x \o <<>>, 0 + Len(left))
          BY <2>2, <3>2, <4>1, MovedTwice
        <5>2. 0 + Len(left) = Len(left)
          BY <2>2
        <5> QED BY <2>2, <5>1, <5>2
      <4>3. g \in OutputState
        BY <4>1 DEF Moved
      <4> DEFINE w == [state |-> g, left |-> <<>>]
      <4>4. w \in [state : OutputState, left : Bytes] /\ w.state = g /\ w.left = <<>>
        BY <2>2, <4>3
      <4>5. w = dropped(f)
        BY DEF g
      <4> HIDE DEF w, dropped
      <4>6. w \in Writing(s, bytes)
        BY <1>1, <1>3, <2>1, <4>2, <4>4 DEF Writing, Ran
      <4> QED BY <4>5, <4>6
    <3> QED BY <3>3, <3>4
  <2>5. CASE u.segments = <<>> \/ (Full(u) /\ MayGrow(u))
    <3>1. Moved(u, Grown(u), <<>>, 0) /\ Grown(u).segments # <<>> /\ Grown(u) \in OutputState
      <4>1. Moved(u, Grown(u), <<>>, 0) /\ Grown(u).segments # <<>>
        BY <1>1, <2>5, GrownMoves
      <4> QED BY <4>1 DEF Moved
    <3>2. Filled(Grown(u), left) \in Writing(s, bytes)
      BY <2>3, <3>1
    <3>3. Turn(r) = {Filled(Grown(u), left)}
      BY <1>3, <2>5 DEF Turn
    <3> QED BY <3>2, <3>3
  <2>6. CASE u.segments # <<>> /\ ~Full(u)
    <3>1. Filled(u, left) \in Writing(s, bytes)
      BY <1>1, <2>3, <2>6, MovedNot
    <3>2. Turn(r) = {Filled(u, left)}
      BY <1>3, <2>6 DEF Turn
    <3> QED BY <3>1, <3>2
  <2>7. CASE u.segments # <<>> /\ Full(u) /\ ~MayGrow(u)
    <3> DEFINE out1 == {dropped(f) : f \in ir_boutput_attempt_flush(u)}
               out2 == {[r EXCEPT !.state = f] : f \in ir_boutput_attempt_flush(u) \ {u}}
    <3>1. Turn(r) = out1 \cup out2
      BY <1>3, <2>7 DEF Turn
    <3>2. out1 \subseteq Writing(s, bytes)
      BY <2>4
    <3>3. out2 \subseteq Writing(s, bytes)
      BY <2>4
    <3> HIDE DEF out1, out2
    <3> QED BY <3>1, <3>2, <3>3
  <2> QED BY <2>5, <2>6, <2>7
<1> QED BY <1>2, <1>3

\* The bytes that are written are the next numbers.
LEMMA NumbersType ==
  ASSUME NEW m \in Nat, NEW n \in Nat, m + n <= MaxBytes, MaxBytes \in Nat
  PROVE  [i \in 1..n |-> m + i] \in Bytes /\ Len([i \in 1..n |-> m + i]) = n
<1>1. \A i \in 1..n : m + i \in Byte
  BY DEF Byte
<1> QED BY <1>1 DEF Bytes

\* The first numbers that are written.
LEMMA NumbersFirst ==
  ASSUME NEW m \in Nat, NEW n \in Nat, m + n <= MaxBytes, MaxBytes \in Nat,
         NEW x \in Bytes, NEW y \in Bytes, [i \in 1..n |-> m + i] = x \o y
  PROVE  Len(x) \in 0..n /\ x = Promise!Numbers(m, Len(x))
<1> DEFINE b == [i \in 1..n |-> m + i]
           k == Len(x)
           c == [i \in 1..k |-> m + i]
<1>1. b \in Bytes /\ Len(b) = n /\ \A i \in 1..n : b[i] = m + i
  BY NumbersType
<1>2. Len(x) \in Nat /\ Len(y) \in Nat /\ Len(x \o y) = Len(x) + Len(y) /\ SubSeq(x \o y, 1, Len(x)) = x
  BY Joined
<1>3. b = x \o y
  OBVIOUS
<1> HIDE DEF b
<1>4. k \in 0..n /\ k \in Nat
  BY <1>1, <1>2, <1>3
<1>5. c \in Bytes /\ Len(c) = k /\ \A i \in 1..k : c[i] = m + i
  <2>1. m + k <= MaxBytes
    BY <1>4
  <2> HIDE DEF k
  <2> QED BY <1>4, <2>1, NumbersType
<1>6. x = SubSeq(b, 1, k)
  BY <1>2, <1>3
<1>7. \A i \in 1..k : x[i] = c[i]
  <2> SUFFICES ASSUME NEW i \in 1..k PROVE x[i] = c[i]
    OBVIOUS
  <2>1. 1 \in Int /\ k \in Int /\ \A j \in 1..k : b[j] \in Byte
    BY <1>1, <1>4 DEF Bytes
  <2>2. i \in 1..(k - 1 + 1) /\ 1 + i - 1 = i /\ i \in 1..n
    BY <1>4
  <2>3. SubSeq(b, 1, k)[i] = b[1 + i - 1]
    BY <2>1, <2>2, SubSeqProperties
  <2> QED BY <1>1, <1>5, <1>6, <2>2, <2>3
<1>8. x = c
  <2>1. x \in Seq(Byte) /\ c \in Seq(Byte) /\ Len(x) = Len(c)
    BY <1>5 DEF Bytes
  <2> HIDE DEF c, k
  <2>2. \A i \in 1..Len(x) : x[i] = c[i]
    BY <1>7 DEF k
  <2> QED BY <2>1, <2>2, SeqEqual
<1> QED BY <1>4, <1>8 DEF Promise!Numbers

\* Bytes that find room, perhaps in a new segment, leave no segment empty.
LEMMA FilledSolid ==
  ASSUME NEW s \in OutputState, s.segments # <<>>, NEW bytes \in Bytes, bytes # <<>>,
         ~Full(s), \A i \in 1..(Len(s.segments) - 1) : s.segments[i].begin < Len(s.segments[i].buffer)
  PROVE  /\ Solid(Filled(s, bytes).state.segments)
         /\ Filled(s, bytes).state.counts.written > s.counts.written
<1> DEFINE last == Len(s.segments)
           g == s.segments[last]
           room == IR_BOUTPUT_SEGMENT_SIZE - Len(g.buffer)
           k == IF room < Len(bytes) THEN room ELSE Len(bytes)
           x == SubSeq(bytes, 1, k)
           h == [g EXCEPT !.buffer = @ \o x]
           b == [s.segments EXCEPT ![last] = h]
           t == [s EXCEPT !.segments[last] = h, !.counts.written = @ + k]
<1>1. /\ s.segments \in Seq(Segment) /\ last \in Nat /\ last \in 1..last /\ s.counts.written \in Nat
  BY OutputType
<1>2. /\ g \in Segment /\ g.buffer \in Bytes /\ Len(g.buffer) \in Nat /\ g.begin \in 0..Len(g.buffer)
      /\ Len(g.buffer) <= IR_BOUTPUT_SEGMENT_SIZE
  <2>1. g \in Segment
    BY <1>1
  <2> QED BY <2>1, PendingType DEF Segment
<1>3. Len(g.buffer) # IR_BOUTPUT_SEGMENT_SIZE
  BY DEF Full
<1>4. Len(bytes) \in Nat /\ Len(bytes) > 0
  BY DEF Bytes
<1>5. k \in 0..Len(bytes) /\ k >= 1 /\ k \in Nat
  <2> DEFINE size == IR_BOUTPUT_SEGMENT_SIZE
             all == Len(bytes)
             had == Len(g.buffer)
  <2>1. /\ all \in Nat /\ all > 0 /\ had \in Nat /\ size \in Nat /\ had < size /\ room = size - had
        /\ k = IF room < all THEN room ELSE all
    BY <1>2, <1>3, <1>4, BoutAssumption
  <2> HIDE DEF all, had, k, size, room
  <2>2. k \in 0..all /\ k >= 1 /\ k \in Nat
    BY <2>1
  <2> QED BY <2>2 DEF all
<1>6. Filled(s, bytes).state = t
  BY DEF Filled
<1> HIDE DEF k
<1>7. x \in Bytes /\ Len(x) = k
  BY <1>5, Parted
<1> HIDE DEF x
<1>8. h.begin < Len(h.buffer)
  <2>1. h.buffer = g.buffer \o x /\ h.begin = g.begin
    BY <1>2 DEF Segment
  <2>2. Len(g.buffer \o x) = Len(g.buffer) + Len(x)
    BY <1>2, <1>7, Joined
  <2> HIDE DEF h, g
  <2> QED BY <1>2, <1>5, <1>7, <2>1, <2>2
<1> HIDE DEF h
<1>9. t.segments = b /\ t.counts.written = s.counts.written + k
  <2>1. s \in [segments : Seq(Segment), written : Nat, out : Bytes,
               counts : [written : Nat, flushed : Nat, dropped : Nat]]
    BY DEF OutputState
  <2> QED BY <2>1
<1>10. Solid(b)
  <2>1. Len(b) = last /\ b[last] = h /\ \A i \in 1..last : i # last => b[i] = s.segments[i]
    BY <1>1
  <2>2. \A i \in 1..last : i # last => i \in 1..(last - 1)
    BY <1>1
  <2> HIDE DEF b
  <2> QED BY <1>8, <2>1, <2>2 DEF Solid
<1> HIDE DEF t
<1> QED BY <1>1, <1>5, <1>6, <1>9, <1>10

\* What is in and what went out.
Measure(s) == s.counts.written + s.counts.flushed

\* A turn of a write leaves no segment empty; it takes a byte, sends one or is the last.
LEMMA TurnSolid ==
  ASSUME NEW s \in OutputState, NEW bytes \in Bytes, NEW r \in Writing(s, bytes),
         Solid(r.state.segments), NEW q \in Turn(r)
  PROVE  /\ Solid(q.state.segments) /\ Measure(q.state) \in Nat
         /\ q.left = <<>> \/ Measure(q.state) >= Measure(r.state) + 1
<1> DEFINE u == r.state
           left == r.left
           dropped(f) == [state |-> [f EXCEPT !.counts.dropped = @ + Len(left)], left |-> <<>>]
<1>1. /\ r \in [state : OutputState, left : Bytes] /\ u \in OutputState /\ left \in Bytes
      /\ q \in Writing(s, bytes) /\ q.state \in OutputState
  BY TurnRuns DEF Writing
<1>2. /\ Measure(q.state) \in Nat /\ q.state.counts.written \in Nat /\ q.state.counts.flushed \in Nat
      /\ u.counts.written \in Nat /\ u.counts.flushed \in Nat
  BY <1>1, OutputType DEF Measure
<1>3. CASE left = <<>>
  BY <1>2, <1>3 DEF Turn
<1>4. CASE left # <<>>
  <2>1. ASSUME u.segments = <<>> \/ (Full(u) /\ MayGrow(u))
        PROVE  Solid(q.state.segments) /\ Measure(q.state) >= Measure(u) + 1
    <3> DEFINE v == Grown(u)
               b == Append(u.segments, EmptySegment)
    <3>1. Moved(u, v, <<>>, 0) /\ v.segments # <<>> /\ v \in OutputState
      <4>1. Moved(u, v, <<>>, 0) /\ v.segments # <<>>
        BY <1>1, <2>1, GrownMoves
      <4> QED BY <4>1 DEF Moved
    <3>2. v.segments = b /\ v.counts = u.counts
      BY <1>1 DEF Grown, OutputState
    <3>3. u.segments \in Seq(Segment) /\ Len(u.segments) \in Nat
      BY <1>1, OutputType
    <3>4. IR_BOUTPUT_SEGMENT_SIZE \in Nat \ {0}
      BY BoutAssumption
    <3>5. Len(b) = Len(u.segments) + 1 /\ b[Len(b)] = EmptySegment
      BY <3>3, <3>4, WaitingGrows
    <3>6. \A i \in 1..(Len(b) - 1) : b[i] = u.segments[i]
      <4>1. b = Append(u.segments, EmptySegment)
        OBVIOUS
      <4> QED BY <3>3, <3>5
    <3> HIDE DEF b, v
    <3>7. ~Full(v)
      BY <3>2, <3>4, <3>5 DEF Full, EmptySegment
    <3>8. \A i \in 1..(Len(v.segments) - 1) : v.segments[i].begin < Len(v.segments[i].buffer)
      BY <3>2, <3>3, <3>5, <3>6 DEF Solid
    <3>9. Solid(Filled(v, left).state.segments) /\ Filled(v, left).state.counts.written > v.counts.written
      BY <1>1, <1>4, <3>1, <3>7, <3>8, FilledSolid
    <3>10. q = Filled(v, left)
      BY <1>4, <2>1 DEF Turn, v
    <3>11. PICK y \in Bytes : Moved(v, q.state, y, 0)
      BY <1>1, <3>1, <3>10, FilledMoves
    <3>12. q.state.counts.flushed >= v.counts.flushed
      <4>1. PICK p \in Bytes : q.state.counts.flushed = v.counts.flushed + Len(p)
        BY <3>11 DEF Moved
      <4>2. Len(p) \in Nat
        BY DEF Bytes
      <4> QED BY <1>2, <3>2, <4>1, <4>2
    <3> QED BY <1>2, <3>2, <3>9, <3>10, <3>12 DEF Measure
  <2>2. ASSUME u.segments # <<>>, ~Full(u)
        PROVE  Solid(q.state.segments) /\ Measure(q.state) >= Measure(u) + 1
    <3>1. \A i \in 1..(Len(u.segments) - 1) : u.segments[i].begin < Len(u.segments[i].buffer)
      <4>1. Len(u.segments) \in Nat
        BY <1>1, OutputType
      <4> QED BY <4>1 DEF Solid
    <3>2. Solid(Filled(u, left).state.segments) /\ Filled(u, left).state.counts.written > u.counts.written
      BY <1>1, <1>4, <2>2, <3>1, FilledSolid
    <3>3. q = Filled(u, left)
      BY <1>4, <2>2 DEF Turn
    <3>4. PICK y \in Bytes : Moved(u, q.state, y, 0)
      BY <1>1, <2>2, <3>3, FilledMoves
    <3>5. q.state.counts.flushed >= u.counts.flushed
      <4>1. PICK p \in Bytes : q.state.counts.flushed = u.counts.flushed + Len(p)
        BY <3>4 DEF Moved
      <4>2. Len(p) \in Nat
        BY DEF Bytes
      <4> QED BY <1>2, <4>1, <4>2
    <3> QED BY <1>2, <3>2, <3>3, <3>5 DEF Measure
  <2>3. ASSUME u.segments # <<>>, Full(u), ~MayGrow(u)
        PROVE  /\ Solid(q.state.segments)
               /\ q.left = <<>> \/ Measure(q.state) >= Measure(u) + 1
    <3>1. \/ \E f \in ir_boutput_attempt_flush(u) : q = dropped(f)
          \/ \E f \in ir_boutput_attempt_flush(u) \ {u} : q = [r EXCEPT !.state = f]
      BY <1>4, <2>3 DEF Turn
    <3>2. ASSUME NEW f \in ir_boutput_attempt_flush(u)
          PROVE  Moved(u, f, <<>>, 0) /\ f \in OutputState /\ Flushes(u, f)
      <4>1. Moved(u, f, <<>>, 0) /\ Flushes(u, f)
        BY <1>1, FlushMoves
      <4> QED BY <4>1 DEF Moved
    <3>3. CASE \E f \in ir_boutput_attempt_flush(u) : q = dropped(f)
      <4>1. PICK f \in ir_boutput_attempt_flush(u) : q = dropped(f)
        BY <3>3
      <4>2. q.left = <<>> /\ q.state.segments = f.segments
        BY <3>2, <4>1 DEF OutputState
      <4> QED BY <3>2, <4>2 DEF Flushes
    <3>4. CASE \E f \in ir_boutput_attempt_flush(u) \ {u} : q = [r EXCEPT !.state = f]
      <4>1. PICK f \in ir_boutput_attempt_flush(u) : f # u /\ q = [r EXCEPT !.state = f]
        BY <3>4
      <4>2. q.state = f
        BY <1>1, <4>1
      <4>3. Solid(f.segments) /\ f.counts.flushed > u.counts.flushed
        BY <3>2, <4>1 DEF Flushes
      <4>4. f.counts.written = u.counts.written + 0
        BY <3>2 DEF Moved
      <4> QED BY <1>2, <4>2, <4>3, <4>4 DEF Measure
    <3> QED BY <3>1, <3>3, <3>4
  <2> QED BY <1>2, <2>1, <2>2, <2>3
<1> QED BY <1>3, <1>4

\* A write: some of the bytes come in, in order, and what goes out is what waits first.
LEMMA WriteMoves ==
  ASSUME NEW s \in OutputState, NEW n \in Nat, s.written + n <= MaxBytes,
         NEW t \in ir_boutput_write(s, n)
  PROVE  LET start == [s EXCEPT !.written = @ + n]
         IN \E x \in Bytes : \E y \in Bytes : \E d \in Nat :
              /\ [i \in 1..n |-> s.written + i] = x \o y /\ Moved(start, t, x, d)
              /\ Solid(s.segments) /\ Len(Waiting(s.segments)) <= s.written
                   => Solid(t.segments) /\ d = Len(y)
<1> DEFINE start == [s EXCEPT !.written = @ + n]
           bytes == [i \in 1..n |-> s.written + i]
           first == [state |-> start, left |-> bytes]
           n2 == 2 * MaxBytes
           next(X) == UNION {Turn(r) : r \in X}
           z == {first}
           Is(f) == f = [k \in 0..n2 |-> IF k = 0 THEN {first} ELSE next(f[k - 1])]
           S == SUBSET Writing(start, bytes)
           D == [k \in 1..n2 |-> [X \in S |-> next(X)]]
           V == CHOOSE f : Is(f)
<1>1. n2 \in Nat /\ MaxBytes \in Nat
  BY BoutAssumption
<1>2. bytes \in Bytes /\ s.written \in Nat /\ Len(bytes) = n
  BY <1>1, OutputType, NumbersType
<1>3. start \in OutputState /\ start.counts = s.counts /\ start.segments = s.segments
  <2>1. s.written + n \in Nat
    BY <1>2
  <2> HIDE DEF bytes, first, n2, next, z, Is, S, D, V
  <2>2. start \in OutputState
    BY <2>1 DEF OutputState
  <2>3. start.counts = s.counts /\ start.segments = s.segments
    BY DEF OutputState
  <2> QED BY <2>2, <2>3
<1>4. \E u : /\ \E r \in V[n2] : u = r.state
             /\ t \in IF u.counts.dropped > s.counts.dropped THEN {u} ELSE ir_boutput_attempt_flush(u)
  BY DEF ir_boutput_write
<1> HIDE DEF start, bytes
<1>5. z \in S
  <2>1. <<>> \in Bytes /\ bytes = <<>> \o bytes
    BY <1>2, ConcatEmptySeq DEF Bytes
  <2>2. first \in [state : OutputState, left : Bytes] /\ first.state = start /\ first.left = bytes
    BY <1>2, <1>3
  <2> HIDE DEF first
  <2>3. first \in Writing(start, bytes)
    BY <1>2, <1>3, <2>1, <2>2, MovedNot DEF Writing, Ran
  <2> QED BY <2>3
<1>6. \A X \in S : next(X) \in S
  BY <1>2, <1>3, TurnRuns
<1>18. first \in z /\ z = {first} /\ first.state = start /\ first.left = bytes
  OBVIOUS
<1>19. \A X : \A q \in next(X) : \E r \in X : q \in Turn(r)
  OBVIOUS
<1>20. n2 = 2 * MaxBytes
  OBVIOUS
<1> HIDE DEF n2, next, S, z, first
<1>7. D \in StepsOf(n2, S) /\ \A k \in 1..n2 : \A X \in S : D[k][X] = next(X)
  BY <1>6 DEF StepsOf
<1> HIDE DEF D
<1>8. Made(n2, S, z, D)
  BY <1>1, <1>5, <1>7, Iterated
<1>9. \E f : Is(f)
  <2>1. PICK f \in [0..n2 -> S] : f[0] = z /\ \A k \in 1..n2 : f[k] = D[k][f[k - 1]]
    BY <1>8 DEF Made
  <2>2. \A k \in 1..n2 : f[k] = next(f[k - 1])
    <3> SUFFICES ASSUME NEW k \in 1..n2 PROVE f[k] = next(f[k - 1])
      OBVIOUS
    <3>1. f[k - 1] \in S
      BY <1>1, <2>1
    <3> QED BY <1>7, <2>1, <3>1
  <2>3. \A k \in 0..n2 : k # 0 => k \in 1..n2
    BY <1>1
  <2>4. \A k \in 0..n2 : f[k] = IF k = 0 THEN {first} ELSE next(f[k - 1])
    BY <2>1, <2>2, <2>3 DEF z
  <2>5. Is(f)
    BY <2>4
  <2> QED BY <2>5
<1>10. Is(V)
  <2> HIDE DEF Is
  <2> QED BY <1>9
<1> HIDE DEF V
<1>11. V[0] = z /\ \A k \in 1..n2 : V[k] = next(V[k - 1])
  <2>1. 0 \in 0..n2 /\ \A k \in 1..n2 : k \in 0..n2 /\ k # 0
    BY <1>1
  <2> QED BY <1>10, <2>1 DEF z
<1>21. \A k \in 0..n2 : V[k] \in S
  <2>1. \A k \in 1..n2 : V[k - 1] \in S => V[k] = D[k][V[k - 1]]
    BY <1>7, <1>11
  <2> QED BY <1>8, <1>11, <2>1 DEF Made
<1>12. V[n2] \in S
  BY <1>1, <1>21
<1>22. ASSUME Solid(s.segments), NEW r \in V[n2]
       PROVE  /\ Solid(r.state.segments)
              /\ r.left = <<>> \/ Measure(r.state) >= Measure(start) + n2
  <2> DEFINE Far(k, v) == /\ Solid(v.state.segments) /\ Measure(v.state) \in Nat
                          /\ v.left = <<>> \/ Measure(v.state) >= Measure(start) + k
             P == {k \in 0..n2 : \A v \in V[k] : Far(k, v)}
  <2>1. Measure(start) \in Nat
    BY <1>3, OutputType DEF Measure
  <2>2. 0 \in P
    <3>1. Far(0, first)
      BY <1>3, <1>18, <1>22, <2>1
    <3> HIDE DEF Far
    <3> QED BY <1>1, <1>11, <1>18, <3>1
  <2>3. ASSUME NEW k \in 1..n2, k - 1 \in P PROVE k \in P
    <3>1. k \in 0..n2 /\ k - 1 \in 0..n2 /\ k \in Nat
      BY <1>1
    <3> SUFFICES ASSUME NEW q \in V[k] PROVE Far(k, q)
      BY <3>1
    <3>2. PICK v \in V[k - 1] : q \in Turn(v)
      BY <1>11, <1>19
    <3>3. v \in Writing(start, bytes) /\ Far(k - 1, v)
      BY <1>21, <2>3, <3>1 DEF S
    <3>4. /\ Solid(q.state.segments) /\ Measure(q.state) \in Nat
          /\ q.left = <<>> \/ Measure(q.state) >= Measure(v.state) + 1
      BY <1>2, <1>3, <3>2, <3>3, TurnSolid
    <3>5. v.left = <<>> => q = v
      BY <3>2 DEF Turn
    <3> QED BY <2>1, <3>1, <3>3, <3>4, <3>5
  <2>4. n2 \in P
    <3> HIDE DEF P
    <3>1. 0..n2 \subseteq P
      BY <1>1, <2>2, <2>3, Climb
    <3> QED BY <1>1, <3>1
  <2> QED BY <2>4
<1>13. PICK r \in V[n2] : \/ t = r.state
                          \/ t \in ir_boutput_attempt_flush(r.state)
  BY <1>4
<1>14. r \in Writing(start, bytes) /\ r.state \in OutputState
  BY <1>12, <1>13 DEF S, Writing
<1>15. PICK x \in Bytes, y \in Bytes, d \in Nat :
         /\ bytes = x \o y /\ Moved(start, r.state, x, d)
         /\ (r.left = y /\ d = 0) \/ (r.left = <<>> /\ d = Len(y))
  <2>1. \A y \in Bytes : Len(y) \in Nat
    BY DEF Bytes
  <2> QED BY <1>14, <2>1 DEF Writing, Ran
<1>23. ASSUME Solid(s.segments), Len(Waiting(s.segments)) <= s.written
       PROVE  r.left = <<>> /\ d = Len(y)
  <2>1. Len(<<>>) = 0
    OBVIOUS
  <2>2. ASSUME r.left # <<>> PROVE FALSE
    <3>1. Measure(r.state) >= Measure(start) + n2
      BY <1>22, <1>23, <2>2
    <3>2. PICK p \in Bytes : /\ Waiting(start.segments) \o x = p \o Waiting(r.state.segments)
                             /\ r.state.counts.flushed = start.counts.flushed + Len(p)
      BY <1>15 DEF Moved
    <3>3. r.state.counts.written = start.counts.written + Len(x)
      BY <1>15 DEF Moved
    <3>4. start.counts.written \in Nat /\ start.counts.flushed \in Nat /\ Waiting(start.segments) \in Bytes
      BY <1>3, OutputType
    <3>5. Waiting(r.state.segments) \in Bytes
      BY <1>14, OutputType
    <3>6. Len(p) \in Nat /\ Len(x) \in Nat /\ Len(p) <= Len(Waiting(start.segments)) + Len(x)
      <4>1. /\ Len(Waiting(start.segments) \o x) = Len(Waiting(start.segments)) + Len(x)
            /\ Len(x) \in Nat /\ Len(Waiting(start.segments)) \in Nat
        BY <3>4, Joined
      <4>2. /\ Len(p \o Waiting(r.state.segments)) = Len(p) + Len(Waiting(r.state.segments))
            /\ Len(p) \in Nat /\ Len(Waiting(r.state.segments)) \in Nat
        BY <3>5, Joined
      <4> QED BY <3>2, <4>1, <4>2
    <3>7. Len(y) \in Nat /\ Len(y) # 0 /\ Len(bytes) = Len(x) + Len(y)
      <4>1. y # <<>>
        BY <1>15, <2>2
      <4>2. Len(x \o y) = Len(x) + Len(y)
        BY Joined
      <4>3. Len(y) \in Nat /\ Len(y) # 0
        BY <4>1, EmptySeq DEF Bytes
      <4> QED BY <1>15, <4>2, <4>3
    <3> DEFINE a == Len(x)
               c == Len(y)
               e == Len(p)
               w == Len(Waiting(start.segments))
               f == start.counts.written
               g == start.counts.flushed
    <3>8. /\ (f + a) + (g + e) >= (f + g) + n2 /\ f \in Nat /\ g \in Nat /\ a \in Nat /\ e \in Nat
          /\ e <= w + a /\ c \in Nat /\ c # 0 /\ n = a + c /\ w <= s.written /\ w \in Nat
      <4>1. Len(Waiting(start.segments)) \in Nat
        BY <3>4, Joined
      <4> QED BY <1>2, <1>3, <1>23, <3>1, <3>2, <3>3, <3>4, <3>6, <3>7, <4>1 DEF Measure
    <3> HIDE DEF a, c, e, w, f, g
    <3> QED BY <1>1, <1>2, <1>20, <3>8
  <2>3. y = <<>> => Len(y) = 0
    OBVIOUS
  <2> QED BY <1>15, <2>2, <2>3
<1>16. Moved(start, t, x, d)
  <2>1. CASE t = r.state
    BY <1>15, <2>1
  <2>2. CASE t \in ir_boutput_attempt_flush(r.state)
    <3>1. Moved(r.state, t, <<>>, 0)
      BY <1>14, <2>2, FlushMoves
    <3>2. <<>> \in Bytes /\ x \o <<>> = x /\ d + 0 = d
      BY ConcatEmptySeq DEF Bytes
    <3>3. Moved(start, t, x \o <<>>, d + 0)
      BY <1>3, <1>15, <3>1, <3>2, MovedTwice
    <3> QED BY <3>2, <3>3
  <2> QED BY <1>13, <2>1, <2>2
<1>24. ASSUME Solid(s.segments), Len(Waiting(s.segments)) <= s.written
       PROVE  Solid(t.segments)
  <2>1. Solid(r.state.segments)
    BY <1>22, <1>24
  <2> QED BY <1>13, <1>14, <2>1, FlushMoves DEF Flushes
<1>17. \E v \in Bytes : \E w \in Bytes : \E e \in Nat :
         /\ bytes = v \o w /\ Moved(start, t, v, e)
         /\ Solid(s.segments) /\ Len(Waiting(s.segments)) <= s.written
              => Solid(t.segments) /\ e = Len(w)
  BY <1>15, <1>16, <1>23, <1>24
<1> QED BY <1>17 DEF start, bytes

\* A change of the output is a step of the queue of bytes.
LEMMA MovedSteps ==
  ASSUME Bout \in OutputState, NEW n \in 0..MaxBytes, written + n <= MaxBytes,
         written' = written + n, NEW x \in Bytes, NEW y \in Bytes, NEW d \in Nat,
         [i \in 1..n |-> written + i] = x \o y,
         Moved([Bout EXCEPT !.written = @ + n], Bout', x, d)
  PROVE  Promise!FifoNext
<1> DEFINE w == Waiting(segments)
           v == Waiting(segments')
           all == w \o x
           k == Len(x)
           start == [Bout EXCEPT !.written = @ + n]
<1>1. /\ written \in Nat /\ n \in Nat /\ MaxBytes \in Nat /\ w \in Bytes /\ out \in Bytes
      /\ Bout.written = written /\ Bout.segments = segments /\ Bout.out = out
  BY OutputType, BoutAssumption DEF Bout
<1>2. /\ start.segments = segments /\ start.out = out
      /\ Bout'.segments = segments' /\ Bout'.out = out'
  BY DEF Bout
<1>3. k \in 0..n /\ x = Promise!Numbers(written, k)
  BY <1>1, NumbersFirst
<1>4. Bout' \in OutputState /\ v \in Bytes
  <2>1. Bout' \in OutputState
    BY DEF Moved
  <2>2. Bout'.segments \in Seq(Segment)
    BY <2>1, OutputType
  <2> QED BY <1>2, <2>1, <2>2, WaitingType
<1> HIDE DEF start
<1>5. PICK p \in Bytes : out' = out \o p /\ w \o x = p \o v
  <2>1. PICK p \in Bytes : /\ Bout'.out = start.out \o p
                           /\ Waiting(start.segments) \o x = p \o Waiting(Bout'.segments)
    BY DEF Moved, start
  <2> QED BY <1>2, <2>1
<1> HIDE DEF w, v, k
<1>6. /\ SubSeq(all, 1, Len(p)) = p /\ SubSeq(all, Len(p) + 1, Len(all)) = v
      /\ Len(p) \in Nat /\ Len(p) <= Len(w) + k /\ Len(w) + k \in Nat
  <2>1. /\ SubSeq(p \o v, 1, Len(p)) = p /\ SubSeq(p \o v, Len(p) + 1, Len(p \o v)) = v
        /\ Len(p) \in Nat /\ Len(v) \in Nat /\ Len(p \o v) = Len(p) + Len(v)
    BY <1>4, Joined
  <2>2. Len(all) = Len(w) + k /\ Len(w) \in Nat /\ k \in Nat
    BY <1>1, Joined DEF k
  <2>3. all = p \o v
    BY <1>5
  <2> HIDE DEF all
  <2> QED BY <2>1, <2>2, <2>3
<1> DEFINE j == Len(p)
<1>7. Promise!FifoStep(n, k, j)
  BY <1>3, <1>5, <1>6 DEF Promise!FifoStep, w, v
<1>8. j \in 0..(Len(w) + k)
  BY <1>6
<1> HIDE DEF j
<1> QED BY <1>3, <1>7, <1>8 DEF Promise!FifoNext, w

OutputInv == Bout \in OutputState /\ written <= MaxBytes

\* What the output may be at first and what it becomes.
LEMMA OutputStep ==
  ASSUME OutputInv, BoutNext
  PROVE  OutputInv' /\ Promise!FifoNext
<1>1. Bout \in OutputState /\ written \in Nat /\ MaxBytes \in Nat /\ written <= MaxBytes /\ Bout.written = written
  BY OutputType, BoutAssumption DEF OutputInv, Bout
<1>3. CASE writedccchat
  <2>1. PICK n \in 0..(MaxBytes - written) : OneOf(ir_boutput_write(Bout, n))
    BY <1>3 DEF writedccchat
  <2>2. PICK s \in ir_boutput_write(Bout, n) :
          segments' = s.segments /\ written' = s.written /\ out' = s.out /\ counts' = s.counts
    BY <2>1 DEF OneOf
  <2>3. n \in Nat /\ n \in 0..MaxBytes /\ written + n <= MaxBytes
    BY <1>1
  <2> DEFINE start == [Bout EXCEPT !.written = @ + n]
  <2>4. PICK x \in Bytes, y \in Bytes, d \in Nat :
          [i \in 1..n |-> Bout.written + i] = x \o y /\ Moved(start, s, x, d)
    BY <1>1, <2>2, <2>3, WriteMoves
  <2>5. start.written = written + n
    BY <1>1 DEF Bout
  <2> HIDE DEF start
  <2>6. s \in OutputState /\ s.written = written + n
    BY <2>4, <2>5 DEF Moved
  <2>7. Bout' = s
    BY <2>2, <2>6 DEF OutputState, Bout
  <2>8. OutputInv'
    BY <2>2, <2>3, <2>6, <2>7 DEF OutputInv
  <2>9. Promise!FifoNext
    BY <1>1, <2>2, <2>3, <2>4, <2>6, <2>7, MovedSteps DEF start
  <2> QED BY <2>8, <2>9
<1>4. CASE flushdccchat
  <2>1. PICK s \in ir_boutput_attempt_flush(Bout) :
          segments' = s.segments /\ written' = s.written /\ out' = s.out /\ counts' = s.counts
    BY <1>4 DEF flushdccchat, OneOf
  <2>2. Moved(Bout, s, <<>>, 0)
    BY <1>1, <2>1, FlushMoves
  <2>3. s \in OutputState /\ s.written = written
    BY <1>1, <2>2 DEF Moved
  <2>4. Bout' = s
    BY <2>1, <2>3 DEF OutputState, Bout
  <2>5. OutputInv'
    BY <1>1, <2>1, <2>3, <2>4 DEF OutputInv
  <2>6. [Bout EXCEPT !.written = @ + 0] = Bout
    BY <1>1 DEF Bout
  <2>7. <<>> \in Bytes /\ [i \in 1..0 |-> written + i] = <<>> \o <<>>
    BY DEF Bytes
  <2>8. written' = written + 0 /\ written + 0 <= MaxBytes /\ 0 \in 0..MaxBytes /\ 0 \in Nat
    BY <1>1, <2>1, <2>3
  <2>9. Promise!FifoNext
    BY <1>1, <2>2, <2>4, <2>6, <2>7, <2>8, MovedSteps
  <2> QED BY <2>5, <2>9
<1> QED BY <1>3, <1>4 DEF BoutNext

\* What the output is at first.
LEMMA OutputInit ==
  ASSUME BoutInit
  PROVE  OutputInv /\ Promise!FifoInit
<1>1. MaxBytes \in Nat
  BY BoutAssumption
<1>2. <<>> \in Bytes /\ <<>> \in Seq(Segment) /\ Len(<<>>) = 0 /\ Waiting(<<>>) = <<>>
  BY WaitingType DEF Bytes
<1>3. NoLimit \/ 0 <= IR_BOUTPUT_MAX_SEGMENTS
  BY BoutAssumption
<1> QED BY <1>1, <1>2, <1>3 DEF BoutInit, OutputInv, OutputState, Bout, Promise!FifoInit

\* The output of a chat implements the queue of bytes: whatever each write takes or
\* drops and whenever the socket takes some, what arrives is in order, each byte once.
THEOREM OutputInOrder == BoutSpec => InOrder
<1>1. BoutInit => OutputInv /\ Promise!FifoInit
  BY OutputInit
<1>2. OutputInv /\ [BoutNext]_boutVars =>
        OutputInv' /\ [Promise!FifoNext]_<<written, Waiting(segments), out>>
  <2>1. ASSUME OutputInv, UNCHANGED boutVars
        PROVE  OutputInv' /\ UNCHANGED <<written, Waiting(segments), out>>
    BY <2>1 DEF OutputInv, boutVars, Bout
  <2> QED BY <2>1, OutputStep
<1> QED BY <1>1, <1>2, PTL DEF BoutSpec, InOrder, Promise!FifoSpec

\* The counters account for what moves.
Sums(s) == s.counts.written = Len(s.out) + Len(Waiting(s.segments)) /\ s.counts.flushed = Len(s.out)
LEMMA MovedSums ==
  ASSUME NEW s \in OutputState, Sums(s), NEW t, NEW x \in Bytes, NEW d \in Nat, Moved(s, t, x, d)
  PROVE  Sums(t)
<1>1. PICK p \in Bytes : /\ t.out = s.out \o p /\ Waiting(s.segments) \o x = p \o Waiting(t.segments)
                         /\ t.counts.flushed = s.counts.flushed + Len(p)
  BY DEF Moved
<1>2. t \in OutputState /\ t.counts.written = s.counts.written + Len(x)
  BY DEF Moved
<1> DEFINE w == Waiting(s.segments)
           v == Waiting(t.segments)
<1>3. w \in Bytes /\ v \in Bytes /\ s.out \in Bytes
  BY <1>2, OutputType
<1> HIDE DEF w, v
<1>4. /\ Len(w \o x) = Len(w) + Len(x) /\ Len(p \o v) = Len(p) + Len(v) /\ Len(s.out \o p) = Len(s.out) + Len(p)
      /\ Len(w) \in Nat /\ Len(x) \in Nat /\ Len(p) \in Nat /\ Len(v) \in Nat /\ Len(s.out) \in Nat
  BY <1>3, Joined
<1>5. Len(w) + Len(x) = Len(p) + Len(v)
  BY <1>1, <1>4 DEF w, v
<1>6. s.counts.written = Len(s.out) + Len(w) /\ s.counts.flushed = Len(s.out)
  BY DEF Sums, w
<1>7. Len(t.out) = Len(s.out) + Len(p)
  BY <1>1, <1>4
<1>8. t.counts.written = Len(t.out) + Len(v)
  BY <1>2, <1>4, <1>5, <1>6, <1>7
<1>9. t.counts.flushed = Len(t.out)
  BY <1>1, <1>6, <1>7
<1> QED BY <1>8, <1>9 DEF Sums, v

CountedInv == OutputInv /\ Solid(segments) /\ Counted

\* The accounts stay right.
LEMMA CountedStep ==
  ASSUME CountedInv, BoutNext
  PROVE  CountedInv'
<1>1. /\ Bout \in OutputState /\ written \in Nat /\ MaxBytes \in Nat /\ written <= MaxBytes
      /\ Bout.written = written /\ Bout.segments = segments /\ Bout.counts = counts /\ Bout.out = out
      /\ counts.written \in Nat /\ counts.flushed \in Nat /\ counts.dropped \in Nat
      /\ Waiting(segments) \in Bytes /\ out \in Bytes
  BY OutputType, BoutAssumption DEF CountedInv, OutputInv, Bout
<1>2. OutputInv'
  BY OutputStep DEF CountedInv
<1>3. Sums(Bout) /\ Solid(segments) /\ counts.written + counts.dropped = written
  BY <1>1 DEF CountedInv, Counted, Sums
<1>4. Len(Waiting(Bout.segments)) <= Bout.written
  <2>1. counts.written = Len(out) + Len(Waiting(segments))
    BY <1>1, <1>3 DEF Sums
  <2>2. Len(out) \in Nat /\ Len(Waiting(segments)) \in Nat
    BY <1>1, Joined
  <2>3. counts.written <= written /\ Len(Waiting(segments)) <= counts.written
    BY <1>1, <1>3, <2>1, <2>2
  <2>4. Len(Waiting(segments)) <= written
    BY <1>1, <2>2, <2>3
  <2> QED BY <1>1, <2>4
<1>5. ASSUME NEW s \in OutputState, Sums(s), Solid(s.segments), s.counts.written + s.counts.dropped = s.written,
             segments' = s.segments, written' = s.written, out' = s.out, counts' = s.counts
      PROVE  CountedInv'
  BY <1>2, <1>5 DEF CountedInv, Counted, Sums
<1>6. CASE writedccchat
  <2>1. PICK n \in 0..(MaxBytes - written) : OneOf(ir_boutput_write(Bout, n))
    BY <1>6 DEF writedccchat
  <2>2. PICK s \in ir_boutput_write(Bout, n) :
          segments' = s.segments /\ written' = s.written /\ out' = s.out /\ counts' = s.counts
    BY <2>1 DEF OneOf
  <2>3. n \in Nat /\ Bout.written + n <= MaxBytes
    BY <1>1
  <2> DEFINE start == [Bout EXCEPT !.written = @ + n]
             bytes == [i \in 1..n |-> Bout.written + i]
  <2>4. PICK x \in Bytes, y \in Bytes, d \in Nat :
          /\ bytes = x \o y /\ Moved(start, s, x, d)
          /\ Solid(Bout.segments) /\ Len(Waiting(Bout.segments)) <= Bout.written
               => Solid(s.segments) /\ d = Len(y)
    BY <1>1, <2>2, <2>3, WriteMoves
  <2>5. Solid(s.segments) /\ d = Len(y)
    BY <1>1, <1>3, <1>4, <2>4
  <2>6. Len(bytes) = n
    BY <1>1, <2>3, NumbersType
  <2>7. /\ start \in OutputState /\ start.written = written + n /\ start.segments = segments
        /\ start.counts = counts /\ start.out = out
    BY <1>1, <2>3 DEF OutputState, Bout
  <2>8. Sums(start)
    BY <1>1, <1>3, <2>7 DEF Sums
  <2> HIDE DEF start, bytes
  <2>9. Sums(s) /\ s \in OutputState
    BY <2>4, <2>7, <2>8, MovedSums DEF Moved
  <2>10. Len(x \o y) = Len(x) + Len(y) /\ Len(x) \in Nat /\ Len(y) \in Nat
    BY Joined
  <2>11. n = Len(x) + Len(y)
    BY <2>4, <2>6, <2>10
  <2>12. /\ s.counts.written = counts.written + Len(x) /\ s.counts.dropped = counts.dropped + d
         /\ s.written = written + n
    BY <2>4, <2>7 DEF Moved
  <2>13. s.counts.written + s.counts.dropped = s.written
    <3> DEFINE a == counts.written
               b == counts.dropped
               e == Len(x)
               f == Len(y)
    <3>1. /\ a \in Nat /\ b \in Nat /\ e \in Nat /\ f \in Nat /\ written = a + b /\ n = e + f
          /\ s.counts.written = a + e /\ s.counts.dropped = b + f /\ s.written = written + n
      BY <1>1, <1>3, <2>5, <2>10, <2>11, <2>12
    <3> HIDE DEF a, b, e, f
    <3> QED BY <3>1
  <2> QED BY <1>5, <2>2, <2>5, <2>9, <2>13
<1>7. CASE flushdccchat
  <2>1. PICK s \in ir_boutput_attempt_flush(Bout) :
          segments' = s.segments /\ written' = s.written /\ out' = s.out /\ counts' = s.counts
    BY <1>7 DEF flushdccchat, OneOf
  <2>2. Moved(Bout, s, <<>>, 0) /\ Solid(s.segments)
    BY <1>1, <1>3, <2>1, FlushMoves DEF Flushes
  <2>3. <<>> \in Bytes /\ Len(<<>>) = 0
    BY DEF Bytes
  <2>4. Sums(s) /\ s \in OutputState
    BY <1>1, <1>3, <2>2, <2>3, MovedSums DEF Moved
  <2>5. s.counts.written = counts.written + 0 /\ s.counts.dropped = counts.dropped + 0 /\ s.written = written
    BY <1>1, <2>2, <2>3 DEF Moved
  <2>6. s.counts.written + s.counts.dropped = s.written
    BY <1>1, <1>3, <2>5
  <2> QED BY <1>5, <2>1, <2>2, <2>4, <2>6
<1> QED BY <1>6, <1>7 DEF BoutNext

\* The accounts are right, and no segment of the output is ever empty.
LEMMA CountedInvariant ==
  BoutSpec => []CountedInv
<1>1. BoutInit => CountedInv
  <2> SUFFICES ASSUME BoutInit PROVE CountedInv
    OBVIOUS
  <2>1. Waiting(<<>>) = <<>> /\ Len(<<>>) = 0
    BY WaitingType
  <2> QED BY <2>1, OutputInit DEF BoutInit, CountedInv, Counted, Solid
<1>2. CountedInv /\ [BoutNext]_boutVars => CountedInv'
  <2>1. ASSUME CountedInv, UNCHANGED boutVars PROVE CountedInv'
    BY <2>1 DEF CountedInv, OutputInv, Counted, boutVars, Bout
  <2> QED BY <2>1, CountedStep
<1> QED BY <1>1, <1>2, PTL DEF BoutSpec

\* The counters account for every byte of the output: what is counted as written went
\* out or waits, and with what is counted as dropped it is all that callers had.
THEOREM OutputCounted == BoutSpec => []Counted
<1>1. CountedInv => Counted
  BY DEF CountedInv
<1> QED BY <1>1, CountedInvariant, PTL

\* The output keeps its types: segments do not overflow, and neither does their number.
THEOREM OutputTypes == BoutSpec => []BoutTypeOK
<1>1. CountedInv => BoutTypeOK
  <2> SUFFICES ASSUME CountedInv PROVE BoutTypeOK
    OBVIOUS
  <2>1. /\ Bout \in OutputState /\ written \in Nat /\ MaxBytes \in Nat /\ written <= MaxBytes
        /\ Bout.segments = segments /\ Bout.counts = counts /\ Bout.out = out
    BY OutputType, BoutAssumption DEF CountedInv, OutputInv, Bout
  <2>2. /\ segments \in Seq(Segment) /\ out \in Bytes /\ Waiting(segments) \in Bytes
        /\ counts \in [written : Nat, flushed : Nat, dropped : Nat]
        /\ counts.written \in Nat /\ counts.flushed \in Nat /\ counts.dropped \in Nat
        /\ NoLimit \/ Len(segments) <= IR_BOUTPUT_MAX_SEGMENTS
    BY <2>1, OutputType
  <2>3. /\ counts.written = Len(out) + Len(Waiting(segments)) /\ counts.flushed = Len(out)
        /\ counts.written + counts.dropped = written
    BY DEF CountedInv, Counted
  <2>4. Len(out) \in Nat /\ Len(Waiting(segments)) \in Nat
    BY <2>2, Joined
  <2>5. counts \in [written : 0..MaxBytes, flushed : 0..MaxBytes, dropped : 0..MaxBytes]
    <3>1. /\ counts.written \in 0..MaxBytes /\ counts.flushed \in 0..MaxBytes
          /\ counts.dropped \in 0..MaxBytes
      BY <2>1, <2>2, <2>3, <2>4
    <3> QED BY <2>2, <3>1
  <2>6. ASSUME NEW k \in DOMAIN segments
        PROVE  /\ segments[k].begin \in 0..Len(segments[k].buffer)
               /\ Len(segments[k].buffer) <= IR_BOUTPUT_SEGMENT_SIZE
    <3>1. segments[k] \in Segment
      BY <2>2
    <3> QED BY <3>1, PendingType DEF Segment
  <2> QED BY <2>1, <2>2, <2>5, <2>6 DEF BoutTypeOK, Bytes, Byte
<1> QED BY <1>1, CountedInvariant, PTL
-----------------------------------------------------------------------------
(* LinkedList *)

\* The lists of the bot and the one of irlist_sort2.
AllLists == List \cup {Scratch}
ItemOrNone == Item \cup {NoItem}
Heaps == [next : [Item -> ItemOrNone], head : [AllLists -> ItemOrNone],
          tail : [AllLists -> ItemOrNone], size : [AllLists -> Int]]

\* The k-th item of a list, if it has one.
ItemAt(s, k) == IF k \in 1..Len(s) THEN s[k] ELSE NoItem

\* An item is in one place at most.
Apart(S) ==
  \A l, m \in AllLists : \A j \in DOMAIN S[l], k \in DOMAIN S[m] : S[l][j] = S[m][k] => l = m /\ j = k
Nowhere(S, i) == \A l \in AllLists : i \notin Elems(S[l])

\* The heap has the sequences S in its lists: each chain, its ends and its length.
Holds(h, S) ==
  /\ h \in Heaps /\ S \in [AllLists -> Seq(Item)] /\ Apart(S)
  /\ \A l \in AllLists :
       /\ h.head[l] = ItemAt(S[l], 1) /\ h.tail[l] = ItemAt(S[l], Len(S[l])) /\ h.size[l] = Len(S[l])
       /\ \A k \in DOMAIN S[l] : h.next[S[l][k]] = ItemAt(S[l], k + 1)
  /\ \A i \in Item : Nowhere(S, i) => h.next[i] = NoItem

\* What is in the lists, with nothing in irlist_sort2's own.
HeapInv == \E S : Holds(heap, S) /\ S[Scratch] = <<>>
-----------------------------------------------------------------------------
\* A list is not longer than there are items.
LEMMA ChainFits ==
  ASSUME NEW S \in [AllLists -> Seq(Item)], Apart(S), NEW l \in AllLists
  PROVE  Len(S[l]) <= Cardinality(Item) /\ Cardinality(Item) \in Nat
<1> DEFINE s == S[l]
           n == Len(s)
           f == [k \in 1..n |-> s[k]]
<1>1. s \in Seq(Item) /\ n \in Nat /\ DOMAIN s = 1..n /\ \A k \in 1..n : s[k] \in Item
  OBVIOUS
<1>2. \A j, k \in 1..n : s[j] = s[k] => j = k
  BY <1>1 DEF Apart
<1> HIDE DEF s, n
<1>3. f \in Injection(1..n, Item)
  <2>1. f \in [1..n -> Item]
    BY <1>1
  <2> QED BY <1>2, <2>1 DEF Injection, IsInjective
<1>4. IsFiniteSet(Item)
  BY ListsAssumption
<1> HIDE DEF f
<1>5. Cardinality(1..n) <= Cardinality(Item)
  BY <1>3, <1>4, FS_Injection
<1> QED BY <1>1, <1>4, <1>5, IntervalSize, FS_CardinalityType DEF n, s

\* The walk from the head finds the items of the list.
LEMMA ChainIs ==
  ASSUME NEW h, NEW S, Holds(h, S), NEW l \in AllLists
  PROVE  Chain(h, l) = S[l]
<1> DEFINE N == Cardinality(Item)
           s == S[l]
           n == Len(s)
           Is(f) == f = [k \in 0..N |-> IF k = 0 THEN h.head[l]
                                        ELSE LET cur == f[k - 1] IN IF cur = NoItem THEN NoItem ELSE h.next[cur]]
           W == CHOOSE f : Is(f)
           g == [k \in 0..N |-> ItemAt(s, k + 1)]
<1>1. /\ s \in Seq(Item) /\ n \in Nat /\ DOMAIN s = 1..n /\ n <= N /\ N \in Nat
      /\ \A k \in 1..n : s[k] \in Item /\ s[k] # NoItem
  <2>1. S \in [AllLists -> Seq(Item)] /\ Apart(S)
    BY DEF Holds
  <2>2. s \in Seq(Item)
    BY <2>1
  <2>3. n <= N /\ N \in Nat
    BY <2>1, ChainFits
  <2> HIDE DEF s
  <2> QED BY <2>2, <2>3, ListsAssumption
<1>2. h.head[l] = ItemAt(s, 1) /\ \A k \in 1..n : h.next[s[k]] = ItemAt(s, k + 1)
  BY <1>1 DEF Holds
<1>3. Chain(h, l) = [k \in 1..Cardinality({j \in 0..N : W[j] # NoItem}) |-> W[k - 1]]
  BY DEF Chain
<1> HIDE DEF N, s, n
<1>4. ItemAt(s, 1) = IF n = 0 THEN NoItem ELSE s[1]
  BY <1>1 DEF ItemAt, n
<1>5. \A k \in 0..N : ItemAt(s, k + 1) = IF k + 1 \in 1..n THEN s[k + 1] ELSE NoItem
  BY DEF ItemAt, n
<1>6. \A k \in 1..N : ItemAt(s, k + 1) = IF ItemAt(s, k) = NoItem THEN NoItem ELSE h.next[ItemAt(s, k)]
  <2> SUFFICES ASSUME NEW k \in 1..N
               PROVE  ItemAt(s, k + 1) = IF ItemAt(s, k) = NoItem THEN NoItem ELSE h.next[ItemAt(s, k)]
    OBVIOUS
  <2>1. k - 1 \in 0..N /\ (k - 1) + 1 = k /\ k \in 0..N
    BY <1>1
  <2>2. ItemAt(s, k) = IF k \in 1..n THEN s[k] ELSE NoItem
    BY <1>5, <2>1
  <2>3. CASE k \in 1..n
    BY <1>1, <1>2, <2>2, <2>3
  <2>4. CASE k \notin 1..n
    <3>1. k + 1 \notin 1..n
      BY <1>1, <2>4
    <3> QED BY <1>5, <2>1, <2>2, <2>4, <3>1
  <2> QED BY <2>3, <2>4
<1>7. \E f : Is(f)
  <2>1. g[0] = h.head[l]
    BY <1>1, <1>2
  <2>2. \A k \in 1..N : g[k] = IF g[k - 1] = NoItem THEN NoItem ELSE h.next[g[k - 1]]
    <3> SUFFICES ASSUME NEW k \in 1..N PROVE g[k] = IF g[k - 1] = NoItem THEN NoItem ELSE h.next[g[k - 1]]
      OBVIOUS
    <3>1. k \in 0..N /\ k - 1 \in 0..N /\ (k - 1) + 1 = k
      BY <1>1
    <3>2. g[k] = ItemAt(s, k + 1) /\ g[k - 1] = ItemAt(s, k)
      BY <3>1
    <3> HIDE DEF g
    <3> QED BY <1>6, <3>2
  <2>3. g = [k \in 0..N |-> g[k]]
    OBVIOUS
  <2>4. \A k \in 0..N : k = 0 \/ k \in 1..N
    BY <1>1
  <2> HIDE DEF g
  <2>5. \A k \in 0..N : g[k] = IF k = 0 THEN h.head[l]
                               ELSE LET cur == g[k - 1] IN IF cur = NoItem THEN NoItem ELSE h.next[cur]
    BY <2>1, <2>2, <2>4
  <2>6. Is(g)
    BY <2>3, <2>5
  <2> QED BY <2>6
<1>8. Is(W)
  <2> HIDE DEF Is
  <2> QED BY <1>7
<1> HIDE DEF W
<1>9. W[0] = h.head[l] /\ \A k \in 1..N : W[k] = IF W[k - 1] = NoItem THEN NoItem ELSE h.next[W[k - 1]]
  <2>1. 0 \in 0..N /\ \A k \in 1..N : k \in 0..N /\ k # 0
    BY <1>1
  <2> QED BY <1>8, <2>1
<1>10. \A k \in 0..N : W[k] = ItemAt(s, k + 1)
  <2> DEFINE P == {k \in 0..N : W[k] = ItemAt(s, k + 1)}
  <2>1. 0 \in P
    <3>1. 0 \in 0..N /\ 0 + 1 = 1
      BY <1>1
    <3> QED BY <1>2, <1>9, <3>1
  <2>2. ASSUME NEW k \in 1..N, k - 1 \in P PROVE k \in P
    <3>1. k \in 0..N /\ (k - 1) + 1 = k
      BY <1>1
    <3> QED BY <1>6, <1>9, <2>2, <3>1
  <2>3. 0..N \subseteq P
    <3> HIDE DEF P
    <3> QED BY <1>1, <2>1, <2>2, Climb
  <2> QED BY <2>3
<1>11. {j \in 0..N : W[j] # NoItem} = 0..(n - 1)
  <2>1. ASSUME NEW j \in 0..N PROVE W[j] # NoItem <=> j \in 0..(n - 1)
    <3>1. W[j] = IF j + 1 \in 1..n THEN s[j + 1] ELSE NoItem
      BY <1>5, <1>10
    <3>2. j + 1 \in 1..n <=> j \in 0..(n - 1)
      BY <1>1
    <3> QED BY <1>1, <3>1, <3>2
  <2>2. 0..(n - 1) \subseteq 0..N
    BY <1>1
  <2> QED BY <2>1, <2>2
<1>12. Cardinality(0..(n - 1)) = n
  <2>1. Cardinality(0..(n - 1)) = IF 0 > n - 1 THEN 0 ELSE (n - 1) - 0 + 1
    BY <1>1, FS_Interval
  <2> QED BY <1>1, <2>1
<1>13. Chain(h, l) = [k \in 1..n |-> W[k - 1]]
  BY <1>3, <1>11, <1>12
<1>14. \A k \in 1..n : W[k - 1] = s[k]
  <2> SUFFICES ASSUME NEW k \in 1..n PROVE W[k - 1] = s[k]
    OBVIOUS
  <2>1. k - 1 \in 0..N /\ (k - 1) + 1 = k
    BY <1>1
  <2> QED BY <1>5, <1>10, <2>1
<1>15. s = [k \in 1..n |-> s[k]]
  BY <1>1
<1> QED BY <1>13, <1>14, <1>15 DEF s
-----------------------------------------------------------------------------
\* What holds of a heap with the sequences S.
LEMMA HoldsFacts ==
  ASSUME NEW h, NEW S, Holds(h, S)
  PROVE  /\ \A l \in AllLists : S[l] \in Seq(Item) /\ Len(S[l]) \in Nat /\ DOMAIN S[l] = 1..Len(S[l])
         /\ \A l \in AllLists : \A k \in 1..Len(S[l]) : S[l][k] \in Item /\ S[l][k] # NoItem
         /\ \A l, m \in AllLists : \A j \in 1..Len(S[l]), k \in 1..Len(S[m]) : S[l][j] = S[m][k] => l = m /\ j = k
         /\ \A l \in AllLists : /\ h.head[l] = ItemAt(S[l], 1) /\ h.tail[l] = ItemAt(S[l], Len(S[l]))
                                /\ h.size[l] = Len(S[l])
         /\ \A l \in AllLists : \A k \in 1..Len(S[l]) : h.next[S[l][k]] = ItemAt(S[l], k + 1)
<1>1. \A l \in AllLists : S[l] \in Seq(Item) /\ Len(S[l]) \in Nat /\ DOMAIN S[l] = 1..Len(S[l])
  <2> SUFFICES ASSUME NEW l \in AllLists
               PROVE  S[l] \in Seq(Item) /\ Len(S[l]) \in Nat /\ DOMAIN S[l] = 1..Len(S[l])
    OBVIOUS
  <2>1. S[l] \in Seq(Item)
    BY DEF Holds
  <2> QED BY <2>1
<1>2. \A l \in AllLists : \A k \in 1..Len(S[l]) : S[l][k] \in Item /\ S[l][k] # NoItem
  <2> SUFFICES ASSUME NEW l \in AllLists, NEW k \in 1..Len(S[l]) PROVE S[l][k] \in Item /\ S[l][k] # NoItem
    OBVIOUS
  <2>1. S[l] \in Seq(Item)
    BY <1>1
  <2> QED BY <2>1, ListsAssumption
<1> QED BY <1>1, <1>2 DEF Holds, Apart

\* An item that is nowhere is no item of a list.
LEMMA NowhereIs ==
  ASSUME NEW S, \A l \in AllLists : DOMAIN S[l] = 1..Len(S[l]), NEW i
  PROVE  Nowhere(S, i) <=> \A l \in AllLists : \A k \in 1..Len(S[l]) : S[l][k] # i
BY DEF Nowhere, Elems

\* The heap g is h with the item i as the n-th of the list l, that held s.
Inserts(h, g, s, l, n, i) ==
  /\ g \in Heaps
  /\ \A x \in Item : g.next[x] = IF x = i THEN ItemAt(s, n)
                                 ELSE IF n > 1 /\ x = s[n - 1] THEN i ELSE h.next[x]
  /\ \A m \in AllLists : /\ g.head[m] = IF m = l /\ n = 1 THEN i ELSE h.head[m]
                         /\ g.tail[m] = IF m = l /\ n = Len(s) + 1 THEN i ELSE h.tail[m]
                         /\ g.size[m] = IF m = l THEN h.size[m] + 1 ELSE h.size[m]

\* Then g holds what h does and i as the n-th.
LEMMA Inserted ==
  ASSUME NEW h, NEW S, Holds(h, S), NEW l \in AllLists, NEW i \in Item, Nowhere(S, i),
         NEW n \in 1..(Len(S[l]) + 1), NEW g, Inserts(h, g, S[l], l, n, i)
  PROVE  Holds(g, [S EXCEPT ![l] = InsertAt(@, n, i)])
<1> DEFINE s == S[l]
           c == Len(s)
           t == InsertAt(s, n, i)
           T == [S EXCEPT ![l] = t]
<1>1. /\ s \in Seq(Item) /\ c \in Nat /\ n \in 1..(c + 1) /\ S \in [AllLists -> Seq(Item)]
      /\ \A k \in 1..c : s[k] \in Item /\ s[k] # NoItem
      /\ \A j, k \in 1..c : s[j] = s[k] => j = k
  <2>1. S \in [AllLists -> Seq(Item)]
    BY DEF Holds
  <2>2. s \in Seq(Item) /\ c \in Nat
    BY HoldsFacts
  <2>3. \A k \in 1..c : s[k] \in Item /\ s[k] # NoItem
    BY HoldsFacts
  <2>4. \A j, k \in 1..c : s[j] = s[k] => j = k
    BY HoldsFacts
  <2> QED BY ONLY <2>1, <2>2, <2>3, <2>4, n \in 1..(c + 1)
<1>2. /\ t \in Seq(Item) /\ Len(t) = c + 1 /\ DOMAIN t = 1..(c + 1)
      /\ \A j \in 1..(c + 1) : t[j] = IF j < n THEN s[j] ELSE IF j = n THEN i ELSE s[j - 1]
  BY <1>1, InsertIndex
<1>3. /\ \A k \in 1..c : s[k] # i
      /\ \A m \in AllLists : \A k \in 1..Len(S[m]) : S[m][k] # i
  BY HoldsFacts, NowhereIs
<1>4. \A m \in AllLists \ {l} : \A k \in 1..Len(S[m]), j \in 1..c : S[m][k] # s[j]
  BY HoldsFacts
<1>5. /\ T \in [AllLists -> Seq(Item)] /\ T[l] = t /\ \A m \in AllLists \ {l} : T[m] = S[m]
  <2> HIDE DEF t
  <2> QED BY <1>1, <1>2
<1>6. i # NoItem
  BY ListsAssumption
<1> HIDE DEF T, t, s, c
<1>14. ASSUME NEW j \in 1..(c + 1) PROVE t[j] = i \/ \E x \in 1..c : t[j] = s[x]
  <2>1. CASE j < n
    <3>1. j \in 1..c
      BY <1>1, <2>1
    <3>2. t[j] = s[j]
      BY <1>2, <2>1
    <3> QED BY <3>1, <3>2
  <2>2. CASE j = n
    BY <1>2, <2>2
  <2>3. CASE j > n
    <3>1. j - 1 \in 1..c /\ t[j] = s[j - 1]
      BY <1>1, <1>2, <2>3
    <3> QED BY <3>1
  <2> QED BY <1>1, <2>1, <2>2, <2>3
<1>7. Apart(T)
  <2> SUFFICES ASSUME NEW a \in AllLists, NEW b \in AllLists, NEW j \in DOMAIN T[a], NEW k \in DOMAIN T[b],
                      T[a][j] = T[b][k]
               PROVE  a = b /\ j = k
    BY DEF Apart
  <2>1. CASE a = l /\ b = l
    <3>1. j \in 1..(c + 1) /\ k \in 1..(c + 1) /\ t[j] = t[k]
      BY <1>2, <1>5, <2>1
    <3>2. /\ j < n => j \in 1..c /\ t[j] = s[j]
          /\ j > n => j - 1 \in 1..c /\ t[j] = s[j - 1]
          /\ j = n => t[j] = i
      BY <1>1, <1>2, <3>1
    <3>3. /\ k < n => k \in 1..c /\ t[k] = s[k]
          /\ k > n => k - 1 \in 1..c /\ t[k] = s[k - 1]
          /\ k = n => t[k] = i
      BY <1>1, <1>2, <3>1
    <3>4. j = k
      BY <1>1, <1>3, <3>1, <3>2, <3>3
    <3> QED BY <2>1, <3>4
  <2>2. CASE a = l /\ b # l
    <3>1. j \in 1..(c + 1) /\ k \in 1..Len(S[b]) /\ t[j] = S[b][k]
      BY <1>2, <1>5, <2>2, HoldsFacts
    <3>2. \/ t[j] = i
          \/ \E x \in 1..c : t[j] = s[x]
      BY <1>14, <3>1
    <3> QED BY <1>3, <1>4, <2>2, <3>1, <3>2
  <2>3. CASE a # l /\ b = l
    <3>1. k \in 1..(c + 1) /\ j \in 1..Len(S[a]) /\ t[k] = S[a][j]
      BY <1>2, <1>5, <2>3, HoldsFacts
    <3>2. \/ t[k] = i
          \/ \E x \in 1..c : t[k] = s[x]
      BY <1>14, <3>1
    <3> QED BY <1>3, <1>4, <2>3, <3>1, <3>2
  <2>4. CASE a # l /\ b # l
    <3>1. T[a] = S[a] /\ T[b] = S[b]
      BY <1>5, <2>4
    <3>2. j \in DOMAIN S[a] /\ k \in DOMAIN S[b] /\ S[a][j] = S[b][k] /\ Apart(S)
      BY <3>1 DEF Holds
    <3> QED BY <3>2 DEF Apart
  <2> QED BY <2>1, <2>2, <2>3, <2>4
<1>8. ASSUME NEW m \in AllLists
      PROVE  g.head[m] = ItemAt(T[m], 1) /\ g.tail[m] = ItemAt(T[m], Len(T[m])) /\ g.size[m] = Len(T[m])
  <2>1. CASE m = l
    <3>1. /\ g.head[l] = IF n = 1 THEN i ELSE h.head[l]
          /\ g.tail[l] = IF n = c + 1 THEN i ELSE h.tail[l]
          /\ g.size[l] = h.size[l] + 1
      BY DEF Inserts, s, c
    <3>2. h.head[l] = ItemAt(s, 1) /\ h.tail[l] = ItemAt(s, c) /\ h.size[l] = c
      BY HoldsFacts DEF s, c
    <3>3. ItemAt(t, 1) = t[1] /\ ItemAt(t, c + 1) = t[c + 1]
      BY <1>1, <1>2 DEF ItemAt
    <3>4. t[1] = (IF n = 1 THEN i ELSE s[1]) /\ t[c + 1] = IF n = c + 1 THEN i ELSE s[c]
      <4>1. 1 \in 1..(c + 1) /\ c + 1 \in 1..(c + 1) /\ (c + 1) - 1 = c
        BY <1>1
      <4> QED BY <1>1, <1>2, <4>1
    <3>5. n # 1 \/ n # c + 1 => c \in 1..c /\ 1 \in 1..c
      BY <1>1
    <3>6. c \in 1..c => ItemAt(s, 1) = s[1] /\ ItemAt(s, c) = s[c]
      BY <1>1 DEF ItemAt, c
    <3> QED BY <1>2, <1>5, <2>1, <3>1, <3>2, <3>3, <3>4, <3>5, <3>6
  <2>2. CASE m # l
    BY <1>5, <2>2, HoldsFacts DEF Inserts
  <2> QED BY <2>1, <2>2
<1>9. ASSUME NEW x \in Item
      PROVE  g.next[x] = IF x = i THEN ItemAt(s, n) ELSE IF n > 1 /\ x = s[n - 1] THEN i ELSE h.next[x]
  BY DEF Inserts, s
<1>10. ASSUME NEW m \in AllLists, NEW k \in DOMAIN T[m] PROVE g.next[T[m][k]] = ItemAt(T[m], k + 1)
  <2>1. CASE m = l
    <3>1. k \in 1..(c + 1) /\ k + 1 \in Nat
      BY <1>2, <1>5, <2>1
    <3>2. ItemAt(t, k + 1) = IF k + 1 \in 1..(c + 1) THEN t[k + 1] ELSE NoItem
      BY <1>2 DEF ItemAt
    <3>3. \A j \in Nat : ItemAt(s, j) = IF j \in 1..c THEN s[j] ELSE NoItem
      BY DEF ItemAt, c
    <3>4. \A j \in 1..c : h.next[s[j]] = ItemAt(s, j + 1)
      BY HoldsFacts DEF s, c
    <3>5. CASE k = n
      <4>1. t[k] = i
        BY <1>2, <3>1, <3>5
      <4>2. g.next[i] = ItemAt(s, n)
        BY <1>9
      <4>3. n \in 1..c <=> k + 1 \in 1..(c + 1)
        BY <1>1, <3>5
      <4>4. n \in 1..c => t[k + 1] = s[n]
        BY <1>1, <1>2, <3>5
      <4>5. n \in Nat
        BY <1>1
      <4> QED BY <1>5, <2>1, <3>2, <3>3, <4>1, <4>2, <4>3, <4>4, <4>5
    <3>6. CASE k < n
      <4>1. k \in 1..c /\ t[k] = s[k] /\ s[k] \in Item /\ s[k] # i
        BY <1>1, <1>2, <1>3, <3>1, <3>6
      <4>2. CASE k = n - 1
        <5>1. n > 1 /\ k + 1 = n /\ k + 1 \in 1..(c + 1)
          BY <1>1, <3>1, <4>2
        <5>2. g.next[s[k]] = i
          BY <1>9, <4>1, <4>2, <5>1
        <5>3. t[k + 1] = i
          BY <1>2, <5>1
        <5> QED BY <1>5, <2>1, <3>2, <4>1, <5>1, <5>2, <5>3
      <4>3. CASE k # n - 1
        <5>1. k + 1 < n /\ k + 1 \in 1..(c + 1) /\ k + 1 \in 1..c /\ (n > 1 => n - 1 \in 1..c)
          BY <1>1, <3>1, <3>6, <4>3
        <5>2. ~(n > 1 /\ s[k] = s[n - 1])
          BY <1>1, <4>1, <4>3, <5>1
        <5>3. g.next[s[k]] = h.next[s[k]]
          BY <1>9, <4>1, <5>2
        <5>4. t[k + 1] = s[k + 1]
          BY <1>2, <5>1
        <5> QED BY <1>5, <2>1, <3>1, <3>2, <3>3, <3>4, <4>1, <5>1, <5>3, <5>4
      <4> QED BY <4>2, <4>3
    <3>7. CASE k > n
      <4>1. k - 1 \in 1..c /\ t[k] = s[k - 1] /\ (k - 1) + 1 = k /\ k \in Nat
        BY <1>1, <1>2, <3>1, <3>7
      <4>2. s[k - 1] \in Item /\ s[k - 1] # i
        BY <1>1, <1>3, <4>1
      <4>3. ~(n > 1 /\ s[k - 1] = s[n - 1])
        <5>1. n > 1 => n - 1 \in 1..c /\ n - 1 # k - 1
          BY <1>1, <3>1, <3>7
        <5> QED BY <1>1, <4>1, <5>1
      <4>4. g.next[s[k - 1]] = ItemAt(s, k)
        BY <1>9, <3>4, <4>1, <4>2, <4>3
      <4>5. k + 1 \in 1..(c + 1) <=> k \in 1..c
        BY <1>1, <3>1
      <4>6. k + 1 \in 1..(c + 1) => t[k + 1] = s[k]
        <5>1. ~(k + 1 < n) /\ k + 1 # n /\ (k + 1) - 1 = k
          BY <1>1, <3>1, <3>7
        <5> QED BY <1>2, <5>1
      <4> QED BY <1>5, <2>1, <3>2, <3>3, <4>1, <4>4, <4>5, <4>6
    <3> QED BY <1>1, <3>1, <3>5, <3>6, <3>7
  <2>2. CASE m # l
    <3>1. T[m] = S[m] /\ k \in 1..Len(S[m])
      BY <1>5, <2>2, HoldsFacts
    <3>2. S[m][k] \in Item /\ S[m][k] # i /\ h.next[S[m][k]] = ItemAt(S[m], k + 1)
      BY <1>3, <3>1, HoldsFacts
    <3>3. ~(n > 1 /\ S[m][k] = s[n - 1])
      <4>1. n > 1 => n - 1 \in 1..c
        BY <1>1
      <4> QED BY <1>4, <2>2, <3>1, <4>1
    <3> QED BY <1>9, <3>1, <3>2, <3>3
  <2> QED BY <2>1, <2>2
<1>11. ASSUME NEW x \in Item, Nowhere(T, x) PROVE g.next[x] = NoItem
  <2>1. \A m \in AllLists : \A k \in DOMAIN T[m] : T[m][k] # x
    BY <1>11 DEF Nowhere, Elems
  <2>2. x # i
    <3>1. n \in DOMAIN t /\ t[n] = i
      BY <1>1, <1>2
    <3> QED BY <1>5, <2>1, <3>1
  <2>3. ASSUME NEW k \in 1..c PROVE s[k] # x
    <3>1. \E j \in DOMAIN t : t[j] = s[k]
      <4>1. CASE k < n
        <5>1. k \in 1..(c + 1)
          BY <1>1
        <5> QED BY <1>2, <4>1, <5>1
      <4>2. CASE ~(k < n)
        <5>1. k + 1 \in 1..(c + 1) /\ ~(k + 1 < n) /\ k + 1 # n /\ (k + 1) - 1 = k
          BY <1>1, <4>2
        <5>2. t[k + 1] = s[k]
          BY <1>2, <5>1
        <5> QED BY <1>2, <5>1, <5>2
      <4> QED BY <4>1, <4>2
    <3> QED BY <1>5, <2>1, <3>1
  <2>4. Nowhere(S, x)
    <3> SUFFICES ASSUME NEW m \in AllLists, NEW k \in DOMAIN S[m] PROVE S[m][k] # x
      BY DEF Nowhere, Elems
    <3>1. CASE m = l
      <4>1. k \in 1..c
        BY <3>1, HoldsFacts DEF s, c
      <4> QED BY <2>3, <3>1, <4>1 DEF s
    <3>2. CASE m # l
      BY <1>5, <2>1, <3>2
    <3> QED BY <3>1, <3>2
  <2>5. ~(n > 1 /\ x = s[n - 1])
    <3>1. n > 1 => n - 1 \in 1..c
      BY <1>1
    <3> QED BY <2>3, <3>1
  <2> QED BY <1>9, <2>2, <2>4, <2>5 DEF Holds
<1>12. g \in Heaps
  BY DEF Inserts
<1>13. Holds(g, T)
  BY <1>5, <1>7, <1>8, <1>10, <1>11, <1>12 DEF Holds
<1> QED BY <1>13 DEF T, t, s

\* The heap g is h without the item i, that was the n-th of the list l, that held s.
Removes(h, g, s, l, n, i) ==
  /\ g \in Heaps
  /\ \A x \in Item : g.next[x] = IF x = i THEN NoItem
                                 ELSE IF n > 1 /\ x = s[n - 1] THEN ItemAt(s, n + 1) ELSE h.next[x]
  /\ \A m \in AllLists : /\ g.head[m] = IF m = l /\ n = 1 THEN ItemAt(s, 2) ELSE h.head[m]
                         /\ g.tail[m] = IF m = l /\ n = Len(s) THEN ItemAt(s, n - 1) ELSE h.tail[m]
                         /\ g.size[m] = IF m = l THEN h.size[m] - 1 ELSE h.size[m]

\* Then g holds what h does without its n-th.
LEMMA Removed ==
  ASSUME NEW h, NEW S, Holds(h, S), NEW l \in AllLists, NEW n \in 1..Len(S[l]),
         NEW g, Removes(h, g, S[l], l, n, S[l][n])
  PROVE  Holds(g, [S EXCEPT ![l] = Drop(@, n)])
<1> DEFINE s == S[l]
           c == Len(s)
           i == s[n]
           t == Drop(s, n)
           T == [S EXCEPT ![l] = t]
<1>1. /\ s \in Seq(Item) /\ c \in Nat /\ n \in 1..c /\ S \in [AllLists -> Seq(Item)]
      /\ \A k \in 1..c : s[k] \in Item /\ s[k] # NoItem
      /\ \A j, k \in 1..c : s[j] = s[k] => j = k
  <2>1. S \in [AllLists -> Seq(Item)]
    BY DEF Holds
  <2>2. s \in Seq(Item) /\ c \in Nat
    BY HoldsFacts
  <2>3. \A k \in 1..c : s[k] \in Item /\ s[k] # NoItem
    BY HoldsFacts
  <2>4. \A j, k \in 1..c : s[j] = s[k] => j = k
    BY HoldsFacts
  <2> QED BY ONLY <2>1, <2>2, <2>3, <2>4, n \in 1..c
<1>2. /\ t \in Seq(Item) /\ Len(t) = c - 1 /\ DOMAIN t = 1..(c - 1)
      /\ \A j \in 1..(c - 1) : t[j] = s[IF j < n THEN j ELSE j + 1]
  <2>1. n \in DOMAIN s
    BY <1>1
  <2> QED BY <1>1, <2>1, DropIndex
<1>3. i \in Item /\ i # NoItem /\ \A m \in AllLists \ {l} : \A k \in 1..Len(S[m]), j \in 1..c : S[m][k] # s[j]
  BY <1>1, HoldsFacts
<1>4. /\ T \in [AllLists -> Seq(Item)] /\ T[l] = t /\ \A m \in AllLists \ {l} : T[m] = S[m]
  <2> HIDE DEF t
  <2> QED BY <1>1, <1>2
<1>5. /\ \A x \in Item : g.next[x] = IF x = i THEN NoItem
                                     ELSE IF n > 1 /\ x = s[n - 1] THEN ItemAt(s, n + 1) ELSE h.next[x]
      /\ g.head[l] = IF n = 1 THEN ItemAt(s, 2) ELSE h.head[l]
      /\ g.tail[l] = IF n = c THEN ItemAt(s, n - 1) ELSE h.tail[l]
      /\ g.size[l] = h.size[l] - 1 /\ g \in Heaps
  BY DEF Removes
<1>6. /\ h.head[l] = ItemAt(s, 1) /\ h.tail[l] = ItemAt(s, c) /\ h.size[l] = c
      /\ \A j \in 1..c : h.next[s[j]] = ItemAt(s, j + 1)
  BY HoldsFacts
<1> HIDE DEF T, t, s, c, i
<1>7. /\ \A j \in Nat : ItemAt(s, j) = IF j \in 1..c THEN s[j] ELSE NoItem
      /\ \A j \in Nat : ItemAt(t, j) = IF j \in 1..(c - 1) THEN t[j] ELSE NoItem
  BY <1>2 DEF ItemAt, c
<1>8. ASSUME NEW j \in 1..(c - 1)
      PROVE  /\ j < n => j \in 1..c /\ t[j] = s[j]
             /\ j >= n => j + 1 \in 1..c /\ t[j] = s[j + 1]
  <2>1. j \in 1..c /\ j + 1 \in 1..c /\ (j >= n <=> ~(j < n))
    BY <1>1
  <2> QED BY <1>2, <2>1
<1>9. Apart(T)
  <2> SUFFICES ASSUME NEW a \in AllLists, NEW b \in AllLists, NEW j \in DOMAIN T[a], NEW k \in DOMAIN T[b],
                      T[a][j] = T[b][k]
               PROVE  a = b /\ j = k
    BY DEF Apart
  <2>1. CASE a = l /\ b = l
    <3>1. j \in 1..(c - 1) /\ k \in 1..(c - 1) /\ t[j] = t[k]
      BY <1>2, <1>4, <2>1
    <3>2. /\ j < n => j \in 1..c /\ t[j] = s[j]
          /\ j >= n => j + 1 \in 1..c /\ t[j] = s[j + 1]
          /\ k < n => k \in 1..c /\ t[k] = s[k]
          /\ k >= n => k + 1 \in 1..c /\ t[k] = s[k + 1]
      BY <1>8, <3>1
    <3>3. j = k
      BY <1>1, <3>1, <3>2
    <3> QED BY <2>1, <3>3
  <2>2. CASE a = l /\ b # l
    <3>1. j \in 1..(c - 1) /\ k \in 1..Len(S[b]) /\ t[j] = S[b][k]
      BY <1>2, <1>4, <2>2, HoldsFacts
    <3>2. \E x \in 1..c : t[j] = s[x]
      <4>1. j < n \/ j >= n
        BY <1>1, <3>1
      <4> QED BY <1>8, <3>1, <4>1
    <3> QED BY <1>3, <2>2, <3>1, <3>2
  <2>3. CASE a # l /\ b = l
    <3>1. k \in 1..(c - 1) /\ j \in 1..Len(S[a]) /\ t[k] = S[a][j]
      BY <1>2, <1>4, <2>3, HoldsFacts
    <3>2. \E x \in 1..c : t[k] = s[x]
      <4>1. k < n \/ k >= n
        BY <1>1, <3>1
      <4> QED BY <1>8, <3>1, <4>1
    <3> QED BY <1>3, <2>3, <3>1, <3>2
  <2>4. CASE a # l /\ b # l
    <3>1. T[a] = S[a] /\ T[b] = S[b]
      BY <1>4, <2>4
    <3>2. j \in DOMAIN S[a] /\ k \in DOMAIN S[b] /\ S[a][j] = S[b][k] /\ Apart(S)
      BY <3>1 DEF Holds
    <3> QED BY <3>2 DEF Apart
  <2> QED BY <2>1, <2>2, <2>3, <2>4
<1>10. ASSUME NEW m \in AllLists
       PROVE  g.head[m] = ItemAt(T[m], 1) /\ g.tail[m] = ItemAt(T[m], Len(T[m])) /\ g.size[m] = Len(T[m])
  <2>1. CASE m = l
    <3>1. g.head[l] = ItemAt(t, 1)
      <4>1. 1 \in Nat /\ 2 \in Nat /\ (1 \in 1..(c - 1) <=> 2 \in 1..c) /\ 1 \in 1..c
        BY <1>1
      <4>2. 1 \in 1..(c - 1) => t[1] = IF n = 1 THEN s[2] ELSE s[1]
        <5> SUFFICES ASSUME 1 \in 1..(c - 1) PROVE t[1] = IF n = 1 THEN s[2] ELSE s[1]
          OBVIOUS
        <5>1. (n = 1 => 1 >= n) /\ (n # 1 => 1 < n) /\ 1 + 1 = 2
          BY <1>1
        <5> QED BY <1>8, <5>1
      <4>3. n # 1 => 1 \in 1..(c - 1)
        BY <1>1
      <4> QED BY <1>5, <1>6, <1>7, <4>1, <4>2, <4>3
    <3>2. g.tail[l] = ItemAt(t, c - 1)
      <4>1. /\ c - 1 \in Nat /\ n - 1 \in Nat /\ c \in Nat /\ c \in 1..c
            /\ (n = c => (n - 1 \in 1..c <=> c - 1 \in 1..(c - 1)))
            /\ (n # c => c - 1 \in 1..(c - 1))
        BY <1>1
      <4>2. n = c /\ c - 1 \in 1..(c - 1) => t[c - 1] = s[n - 1]
        <5>1. n = c => c - 1 < n
          BY <1>1
        <5> QED BY <1>8, <5>1
      <4>3. n # c => t[c - 1] = s[c]
        <5>1. n # c => c - 1 >= n /\ (c - 1) + 1 = c
          BY <1>1
        <5> QED BY <1>8, <4>1, <5>1
      <4>4. ItemAt(t, c - 1) = IF c - 1 \in 1..(c - 1) THEN t[c - 1] ELSE NoItem
        BY <1>7, <4>1
      <4>5. ItemAt(s, n - 1) = IF n - 1 \in 1..c THEN s[n - 1] ELSE NoItem
        BY <1>7, <4>1
      <4>6. ItemAt(s, c) = s[c]
        BY <1>7, <4>1
      <4> QED BY <1>5, <1>6, <4>1, <4>2, <4>3, <4>4, <4>5, <4>6
    <3> QED BY <1>2, <1>4, <1>5, <1>6, <2>1, <3>1, <3>2
  <2>2. CASE m # l
    BY <1>4, <2>2, HoldsFacts DEF Removes
  <2> QED BY <2>1, <2>2
<1>11. ASSUME NEW m \in AllLists, NEW k \in DOMAIN T[m] PROVE g.next[T[m][k]] = ItemAt(T[m], k + 1)
  <2>1. CASE m = l
    <3>1. k \in 1..(c - 1) /\ k + 1 \in Nat /\ k + 2 \in Nat
      BY <1>2, <1>4, <2>1
    <3>2. ItemAt(t, k + 1) = IF k + 1 \in 1..(c - 1) THEN t[k + 1] ELSE NoItem
      BY <1>7, <3>1
    <3>3. CASE k < n
      <4>1. k \in 1..c /\ t[k] = s[k] /\ s[k] \in Item
        BY <1>1, <1>8, <3>1, <3>3
      <4>2. s[k] # i
        BY <1>1, <3>3, <4>1 DEF i
      <4>3. CASE k = n - 1
        <5>1. n > 1 /\ n + 1 = k + 2 /\ (k + 2 \in 1..c <=> k + 1 \in 1..(c - 1))
          BY <1>1, <3>1, <4>3
        <5>2. g.next[s[k]] = ItemAt(s, k + 2)
          BY <1>5, <4>1, <4>2, <4>3, <5>1
        <5>3. k + 1 \in 1..(c - 1) => t[k + 1] = s[k + 2]
          <6>1. k + 1 >= n /\ (k + 1) + 1 = k + 2
            BY <1>1, <3>1, <4>3
          <6> QED BY <1>8, <6>1
        <5>4. ItemAt(s, k + 2) = IF k + 2 \in 1..c THEN s[k + 2] ELSE NoItem
          BY <1>7, <3>1
        <5> QED BY <1>4, <2>1, <3>2, <4>1, <5>1, <5>2, <5>3, <5>4
      <4>4. CASE k # n - 1
        <5>1. k + 1 < n /\ k + 1 \in 1..(c - 1) /\ k + 1 \in 1..c /\ (n > 1 => n - 1 \in 1..c)
          BY <1>1, <3>1, <3>3, <4>4
        <5>2. ~(n > 1 /\ s[k] = s[n - 1])
          BY <1>1, <4>1, <4>4, <5>1
        <5>3. g.next[s[k]] = ItemAt(s, k + 1)
          BY <1>5, <1>6, <4>1, <4>2, <5>2
        <5>4. t[k + 1] = s[k + 1]
          BY <1>8, <5>1
        <5>5. ItemAt(s, k + 1) = s[k + 1]
          BY <1>7, <3>1, <5>1
        <5> QED BY <1>4, <2>1, <3>2, <4>1, <5>1, <5>3, <5>4, <5>5
      <4> QED BY <4>3, <4>4
    <3>4. CASE k >= n
      <4>1. k + 1 \in 1..c /\ t[k] = s[k + 1] /\ s[k + 1] \in Item /\ (k + 1) + 1 = k + 2
        <5>1. k + 1 \in 1..c /\ t[k] = s[k + 1]
          BY <1>8, <3>1, <3>4
        <5>2. (k + 1) + 1 = k + 2
          BY <3>1
        <5> QED BY <1>1, <5>1, <5>2
      <4>2. k + 1 # n /\ (n > 1 => n - 1 \in 1..c /\ n - 1 # k + 1)
        BY <1>1, <3>1, <3>4
      <4>3. s[k + 1] # i /\ ~(n > 1 /\ s[k + 1] = s[n - 1])
        BY <1>1, <4>1, <4>2 DEF i
      <4>4. g.next[s[k + 1]] = ItemAt(s, k + 2)
        BY <1>5, <1>6, <4>1, <4>3
      <4>5. k + 1 \in 1..(c - 1) <=> k + 2 \in 1..c
        BY <1>1, <3>1
      <4>6. k + 1 \in 1..(c - 1) => t[k + 1] = s[k + 2]
        <5>1. k + 1 >= n
          BY <1>1, <3>1, <3>4
        <5> QED BY <1>8, <4>1, <5>1
      <4>7. ItemAt(s, k + 2) = IF k + 2 \in 1..c THEN s[k + 2] ELSE NoItem
        BY <1>7, <3>1
      <4> QED BY <1>4, <2>1, <3>2, <4>1, <4>4, <4>5, <4>6, <4>7
    <3>5. k < n \/ k >= n
      BY <1>1, <3>1
    <3> QED BY <3>3, <3>4, <3>5
  <2>2. CASE m # l
    <3>1. T[m] = S[m] /\ k \in 1..Len(S[m])
      BY <1>4, <2>2, HoldsFacts
    <3>2. S[m][k] \in Item /\ h.next[S[m][k]] = ItemAt(S[m], k + 1)
      BY <3>1, HoldsFacts
    <3>3. S[m][k] # i /\ ~(n > 1 /\ S[m][k] = s[n - 1])
      <4>1. n \in 1..c /\ (n > 1 => n - 1 \in 1..c)
        BY <1>1
      <4> QED BY <1>3, <2>2, <3>1, <4>1 DEF i
    <3> QED BY <1>5, <3>1, <3>2, <3>3
  <2> QED BY <2>1, <2>2
<1>12. ASSUME NEW x \in Item, Nowhere(T, x) PROVE g.next[x] = NoItem
  <2>1. \A m \in AllLists : \A k \in DOMAIN T[m] : T[m][k] # x
    BY <1>12 DEF Nowhere, Elems
  <2>2. CASE x = i
    BY <1>5, <2>2
  <2>3. CASE x # i
    <3>1. ASSUME NEW k \in 1..c PROVE s[k] # x
      <4>1. CASE k < n
        <5>1. k \in 1..(c - 1)
          BY <1>1, <4>1
        <5>2. t[k] = s[k]
          BY <1>8, <4>1, <5>1
        <5> QED BY <1>2, <1>4, <2>1, <5>1, <5>2
      <4>2. CASE k = n
        BY <2>3, <4>2 DEF i
      <4>3. CASE k > n
        <5>1. k - 1 \in 1..(c - 1) /\ k - 1 >= n /\ (k - 1) + 1 = k
          BY <1>1, <4>3
        <5>2. t[k - 1] = s[k]
          BY <1>8, <5>1
        <5> QED BY <1>2, <1>4, <2>1, <5>1, <5>2
      <4> QED BY <1>1, <4>1, <4>2, <4>3
    <3>2. Nowhere(S, x)
      <4> SUFFICES ASSUME NEW m \in AllLists, NEW k \in DOMAIN S[m] PROVE S[m][k] # x
        BY DEF Nowhere, Elems
      <4>1. CASE m = l
        <5>1. k \in 1..c
          BY <4>1, HoldsFacts DEF s, c
        <5> QED BY <3>1, <4>1, <5>1 DEF s
      <4>2. CASE m # l
        BY <1>4, <2>1, <4>2
      <4> QED BY <4>1, <4>2
    <3>3. ~(n > 1 /\ x = s[n - 1])
      <4>1. n > 1 => n - 1 \in 1..c
        BY <1>1
      <4> QED BY <3>1, <4>1
    <3> QED BY <1>5, <2>3, <3>2, <3>3 DEF Holds
  <2> QED BY <2>2, <2>3
<1>13. Holds(g, T)
  BY <1>4, <1>5, <1>9, <1>10, <1>11, <1>12 DEF Holds
<1> QED BY <1>13 DEF T, t, s
-----------------------------------------------------------------------------
(* What the functions do to the heap *)

\* A heap has four parts.
LEMMA HeapParts ==
  ASSUME NEW h, NEW S, Holds(h, S)
  PROVE  /\ h = [next |-> h.next, head |-> h.head, tail |-> h.tail, size |-> h.size]
         /\ h.next \in [Item -> ItemOrNone] /\ h.head \in [AllLists -> ItemOrNone]
         /\ h.tail \in [AllLists -> ItemOrNone] /\ h.size \in [AllLists -> Int]
BY DEF Holds, Heaps

\* What In finds is an item of the list.
LEMMA InIs ==
  ASSUME NEW h, NEW S, Holds(h, S), NEW l \in AllLists, NEW i
  PROVE  In(h, l, i) <=> \E k \in 1..Len(S[l]) : S[l][k] = i
<1>1. Chain(h, l) = S[l] /\ DOMAIN S[l] = 1..Len(S[l])
  BY ChainIs, HoldsFacts
<1> QED BY <1>1 DEF In

\* irlist_insert_head puts the item first.
LEMMA InsertedHead ==
  ASSUME NEW h, NEW S, Holds(h, S), NEW l \in AllLists, NEW i \in Item, Nowhere(S, i)
  PROVE  Holds(irlist_insert_head(h, l, i), [S EXCEPT ![l] = InsertAt(@, 1, i)])
<1> DEFINE g == irlist_insert_head(h, l, i)
           s == S[l]
<1>1. Len(s) \in Nat /\ h.size[l] = Len(s) /\ h.head[l] = ItemAt(s, 1)
  BY HoldsFacts
<1>2. /\ h = [next |-> h.next, head |-> h.head, tail |-> h.tail, size |-> h.size]
      /\ h.next \in [Item -> ItemOrNone] /\ h.head \in [AllLists -> ItemOrNone]
      /\ h.tail \in [AllLists -> ItemOrNone] /\ h.size \in [AllLists -> Int]
  BY HeapParts
<1> HIDE DEF s
<1>3. /\ g.next = [h.next EXCEPT ![i] = h.head[l]] /\ g.head = [h.head EXCEPT ![l] = i]
      /\ g.tail = [h.tail EXCEPT ![l] = IF h.size[l] = 0 THEN i ELSE @]
      /\ g.size = [h.size EXCEPT ![l] = @ + 1]
      /\ g = [next |-> g.next, head |-> g.head, tail |-> g.tail, size |-> g.size]
  <2>1. g = [h EXCEPT !.next[i] = h.head[l], !.head[l] = i, !.size[l] = @ + 1,
                      !.tail[l] = IF h.size[l] = 0 THEN i ELSE @]
    BY DEF irlist_insert_head
  <2> HIDE DEF g
  <2> QED BY <1>2, <2>1
<1> HIDE DEF g
<1>4. g \in Heaps
  <2>1. i \in ItemOrNone /\ h.head[l] \in ItemOrNone /\ h.size[l] \in Int
    BY <1>2 DEF ItemOrNone
  <2>2. g.next \in [Item -> ItemOrNone] /\ g.head \in [AllLists -> ItemOrNone]
    BY <1>2, <1>3, <2>1
  <2>3. g.tail \in [AllLists -> ItemOrNone] /\ g.size \in [AllLists -> Int]
    BY <1>2, <1>3, <2>1
  <2> QED BY <1>3, <2>2, <2>3 DEF Heaps
<1>5. Inserts(h, g, s, l, 1, i)
  <2>1. \A x \in Item : g.next[x] = IF x = i THEN ItemAt(s, 1) ELSE h.next[x]
    BY <1>1, <1>2, <1>3
  <2>2. \A m \in AllLists : /\ g.head[m] = IF m = l THEN i ELSE h.head[m]
                            /\ g.tail[m] = IF m = l /\ Len(s) = 0 THEN i ELSE h.tail[m]
                            /\ g.size[m] = IF m = l THEN h.size[m] + 1 ELSE h.size[m]
    BY <1>1, <1>2, <1>3
  <2>3. (1 = Len(s) + 1 <=> Len(s) = 0) /\ ~(1 > 1)
    BY <1>1
  <2> QED BY <1>4, <2>1, <2>2, <2>3 DEF Inserts
<1>6. 1 \in 1..(Len(s) + 1)
  BY <1>1
<1> QED BY <1>5, <1>6, Inserted DEF g, s

\* irlist_insert_tail puts it last.
LEMMA InsertedTail ==
  ASSUME NEW h, NEW S, Holds(h, S), NEW l \in AllLists, NEW i \in Item, Nowhere(S, i)
  PROVE  Holds(irlist_insert_tail(h, l, i), [S EXCEPT ![l] = InsertAt(@, Len(@) + 1, i)])
<1> DEFINE g == irlist_insert_tail(h, l, i)
           s == S[l]
           n == Len(s) + 1
           last == s[Len(s)]
<1>1. Len(s) \in Nat /\ h.size[l] = Len(s) /\ h.tail[l] = ItemAt(s, Len(s))
      /\ (Len(s) > 0 => Len(s) \in 1..Len(s) /\ last \in Item /\ last # i)
  BY HoldsFacts, NowhereIs
<1>2. /\ h = [next |-> h.next, head |-> h.head, tail |-> h.tail, size |-> h.size]
      /\ h.next \in [Item -> ItemOrNone] /\ h.head \in [AllLists -> ItemOrNone]
      /\ h.tail \in [AllLists -> ItemOrNone] /\ h.size \in [AllLists -> Int]
  BY HeapParts
<1>3. ItemAt(s, n) = NoItem /\ (Len(s) > 0 => ItemAt(s, Len(s)) = last)
  BY <1>1 DEF ItemAt
<1> HIDE DEF s, last
<1>4. i \in ItemOrNone /\ NoItem \in ItemOrNone /\ h.size[l] \in Int
  BY <1>2 DEF ItemOrNone
<1>5. /\ g = [next |-> g.next, head |-> g.head, tail |-> g.tail, size |-> g.size]
      /\ g.tail = [h.tail EXCEPT ![l] = i] /\ g.size = [h.size EXCEPT ![l] = @ + 1]
      /\ g.next = [(IF h.size[l] = 0 THEN h.next ELSE [h.next EXCEPT ![h.tail[l]] = i]) EXCEPT ![i] = NoItem]
      /\ g.head = IF h.size[l] = 0 THEN [h.head EXCEPT ![l] = i] ELSE h.head
  <2> DEFINE linked == IF h.size[l] = 0 THEN [h EXCEPT !.head[l] = i] ELSE [h EXCEPT !.next[h.tail[l]] = i]
  <2>0. g = [linked EXCEPT !.next[i] = NoItem, !.tail[l] = i, !.size[l] = @ + 1]
    BY DEF irlist_insert_tail
  <2> HIDE DEF g
  <2>1. CASE h.size[l] = 0
    BY <1>2, <2>0, <2>1
  <2>2. CASE h.size[l] # 0
    BY <1>2, <2>0, <2>2
  <2> QED BY <2>1, <2>2
<1> HIDE DEF g
<1>6. /\ \A x \in Item : g.next[x] = IF x = i THEN NoItem
                                     ELSE IF Len(s) > 0 /\ x = last THEN i ELSE h.next[x]
      /\ g.next \in [Item -> ItemOrNone]
  <2>1. CASE Len(s) = 0
    <3>1. g.next = [h.next EXCEPT ![i] = NoItem]
      BY <1>1, <1>5, <2>1
    <3> QED BY <1>2, <1>4, <2>1, <3>1
  <2>2. CASE Len(s) > 0
    <3>1. g.next = [[h.next EXCEPT ![last] = i] EXCEPT ![i] = NoItem]
      BY <1>1, <1>3, <1>5, <2>2
    <3> QED BY <1>1, <1>2, <1>4, <2>2, <3>1
  <2> QED BY <1>1, <2>1, <2>2
<1>7. /\ \A m \in AllLists : /\ g.head[m] = IF m = l /\ Len(s) = 0 THEN i ELSE h.head[m]
                             /\ g.tail[m] = IF m = l THEN i ELSE h.tail[m]
                             /\ g.size[m] = IF m = l THEN h.size[m] + 1 ELSE h.size[m]
      /\ g.head \in [AllLists -> ItemOrNone] /\ g.tail \in [AllLists -> ItemOrNone]
      /\ g.size \in [AllLists -> Int]
  BY <1>1, <1>2, <1>4, <1>5
<1>8. Inserts(h, g, s, l, n, i)
  <2>1. g \in Heaps
    BY <1>5, <1>6, <1>7 DEF Heaps
  <2>2. (n = 1 <=> Len(s) = 0) /\ (n > 1 <=> Len(s) > 0) /\ s[n - 1] = last /\ n = Len(s) + 1
    BY <1>1 DEF last
  <2> HIDE DEF n
  <2> QED BY <1>3, <1>6, <1>7, <2>1, <2>2 DEF Inserts
<1>9. n \in 1..(Len(s) + 1)
  BY <1>1
<1> QED BY <1>8, <1>9, Inserted DEF g, s

\* irlist_insert_after puts it after the n-th.
LEMMA InsertedAfter ==
  ASSUME NEW h, NEW S, Holds(h, S), NEW l \in AllLists, NEW i \in Item, Nowhere(S, i), NEW n \in 1..Len(S[l])
  PROVE  Holds(irlist_insert_after(h, l, i, S[l][n]), [S EXCEPT ![l] = InsertAt(@, n + 1, i)])
<1> DEFINE s == S[l]
           j == s[n]
           g == irlist_insert_after(h, l, i, j)
<1>1. /\ Len(s) \in Nat /\ h.size[l] = Len(s) /\ j \in Item /\ j # i /\ h.next[j] = ItemAt(s, n + 1)
      /\ \A k \in 1..Len(s) : s[k] # NoItem
  BY HoldsFacts, NowhereIs
<1>2. /\ h = [next |-> h.next, head |-> h.head, tail |-> h.tail, size |-> h.size]
      /\ h.next \in [Item -> ItemOrNone] /\ h.head \in [AllLists -> ItemOrNone]
      /\ h.tail \in [AllLists -> ItemOrNone] /\ h.size \in [AllLists -> Int]
  BY HeapParts
<1>3. n \in 1..Len(s)
  OBVIOUS
<1> HIDE DEF s, j
<1>4. h.next[j] = NoItem <=> n + 1 = Len(s) + 1
  <2>1. n + 1 = Len(s) + 1 <=> n + 1 \notin 1..Len(s)
    BY <1>1, <1>3
  <2> QED BY <1>1, <2>1 DEF ItemAt
<1>5. i \in ItemOrNone /\ h.next[j] \in ItemOrNone /\ h.size[l] \in Int
  BY <1>1, <1>2 DEF ItemOrNone
<1>6. /\ g = [next |-> g.next, head |-> g.head, tail |-> g.tail, size |-> g.size]
      /\ g.next = [h.next EXCEPT ![i] = h.next[j], ![j] = i] /\ g.size = [h.size EXCEPT ![l] = @ + 1]
      /\ g.head = h.head /\ g.tail = [h.tail EXCEPT ![l] = IF h.next[j] = NoItem THEN i ELSE @]
  <2>1. g = [h EXCEPT !.next = [@ EXCEPT ![i] = h.next[j], ![j] = i], !.size[l] = @ + 1,
                      !.tail[l] = IF h.next[j] = NoItem THEN i ELSE @]
    BY DEF irlist_insert_after
  <2> HIDE DEF g
  <2> QED BY <1>2, <2>1
<1> HIDE DEF g
<1>7. /\ \A x \in Item : g.next[x] = IF x = i THEN h.next[j] ELSE IF x = j THEN i ELSE h.next[x]
      /\ g.next \in [Item -> ItemOrNone]
  BY <1>1, <1>2, <1>5, <1>6
<1>8. /\ \A m \in AllLists : /\ g.head[m] = h.head[m]
                             /\ g.tail[m] = IF m = l /\ h.next[j] = NoItem THEN i ELSE h.tail[m]
                             /\ g.size[m] = IF m = l THEN h.size[m] + 1 ELSE h.size[m]
      /\ g.head \in [AllLists -> ItemOrNone] /\ g.tail \in [AllLists -> ItemOrNone]
      /\ g.size \in [AllLists -> Int]
  BY <1>1, <1>2, <1>5, <1>6
<1>9. Inserts(h, g, s, l, n + 1, i)
  <2>1. g \in Heaps
    BY <1>6, <1>7, <1>8 DEF Heaps
  <2>2. n + 1 > 1 /\ n + 1 # 1 /\ s[(n + 1) - 1] = j
    BY <1>1, <1>3 DEF j
  <2> QED BY <1>1, <1>4, <1>7, <1>8, <2>1, <2>2 DEF Inserts
<1>10. n + 1 \in 1..(Len(s) + 1)
  BY <1>1, <1>3
<1> QED BY <1>9, <1>10, Inserted DEF g, s, j

\* irlist_remove takes the n-th item gone.
LEMMA RemovedItem ==
  ASSUME NEW h, NEW S, Holds(h, S), NEW l \in AllLists, NEW n \in 1..Len(S[l])
  PROVE  Holds(irlist_remove(h, l, S[l][n]), [S EXCEPT ![l] = Drop(@, n)])
<1> DEFINE s == S[l]
           c == Len(s)
           i == s[n]
           g == irlist_remove(h, l, i)
           before == {j \in Item : In(h, l, j) /\ h.next[j] = i}
           prev == IF before = {} THEN NoItem ELSE CHOOSE j \in before : TRUE
<1>1. /\ c \in Nat /\ h.size[l] = c /\ h.head[l] = ItemAt(s, 1) /\ h.tail[l] = ItemAt(s, c)
      /\ \A k \in 1..c : s[k] \in Item /\ s[k] # NoItem /\ h.next[s[k]] = ItemAt(s, k + 1)
      /\ \A j, k \in 1..c : s[j] = s[k] => j = k
  BY HoldsFacts
<1>2. /\ h = [next |-> h.next, head |-> h.head, tail |-> h.tail, size |-> h.size]
      /\ h.next \in [Item -> ItemOrNone] /\ h.head \in [AllLists -> ItemOrNone]
      /\ h.tail \in [AllLists -> ItemOrNone] /\ h.size \in [AllLists -> Int]
  BY HeapParts
<1>3. n \in 1..c /\ \A j : In(h, l, j) <=> \E k \in 1..c : s[k] = j
  BY InIs
<1> HIDE DEF s, c
<1>4. \A k \in Nat : ItemAt(s, k) = IF k \in 1..c THEN s[k] ELSE NoItem
  BY DEF ItemAt, c
<1>5. prev = ItemAt(s, n - 1)
  <2>1. \A k \in 1..c : h.next[s[k]] = i <=> k + 1 = n
    <3> SUFFICES ASSUME NEW k \in 1..c PROVE h.next[s[k]] = i <=> k + 1 = n
      OBVIOUS
    <3>1. k + 1 \in Nat /\ h.next[s[k]] = ItemAt(s, k + 1)
      BY <1>1
    <3>2. ItemAt(s, k + 1) = IF k + 1 \in 1..c THEN s[k + 1] ELSE NoItem
      BY <1>4, <3>1
    <3> QED BY <1>1, <1>3, <3>1, <3>2
  <2>2. \A j : j \in before <=> \E k \in 1..c : j = s[k] /\ k + 1 = n
    BY <1>1, <1>3, <2>1
  <2> HIDE DEF before
  <2>3. CASE n = 1
    <3>1. before = {}
      BY <2>2, <2>3
    <3>2. ItemAt(s, n - 1) = NoItem
      BY <1>4, <2>3
    <3> QED BY <3>1, <3>2
  <2>4. CASE n # 1
    <3>1. n - 1 \in 1..c /\ (n - 1) + 1 = n /\ n - 1 \in Nat /\ \A k \in 1..c : k + 1 = n => k = n - 1
      BY <1>1, <1>3, <2>4
    <3>2. before = {s[n - 1]}
      BY <2>2, <3>1
    <3>3. ItemAt(s, n - 1) = s[n - 1]
      BY <1>4, <3>1
    <3> QED BY <3>2, <3>3
  <2> QED BY <2>3, <2>4
<1>6. /\ n - 1 \in Nat /\ n + 1 \in Nat /\ (n > 1 => n - 1 \in 1..c /\ n - 1 # n) /\ 1 \in 1..c
      /\ h.next[i] = ItemAt(s, n + 1) /\ i \in Item /\ (h.head[l] = i <=> n = 1)
      /\ (h.tail[l] = i <=> n = c)
  <2>1. n - 1 \in Nat /\ n + 1 \in Nat /\ (n > 1 => n - 1 \in 1..c /\ n - 1 # n) /\ 1 \in 1..c /\ c \in 1..c
    BY <1>1, <1>3
  <2>2. h.head[l] = s[1] /\ h.tail[l] = s[c]
    BY <1>1, <1>4, <2>1
  <2> QED BY <1>1, <1>3, <2>1, <2>2
<1>7. n > 1 => prev = s[n - 1] /\ prev \in Item /\ prev # i
  <2> SUFFICES ASSUME n > 1 PROVE prev = s[n - 1] /\ prev \in Item /\ prev # i
    OBVIOUS
  <2>1. prev = s[n - 1]
    BY <1>4, <1>5, <1>6
  <2> QED BY <1>1, <1>3, <1>6, <2>1
<1>8. prev \in ItemOrNone /\ h.next[i] \in ItemOrNone /\ NoItem \in ItemOrNone /\ h.size[l] \in Int
  <2>1. prev \in ItemOrNone
    BY <1>1, <1>4, <1>5, <1>6 DEF ItemOrNone
  <2> QED BY <1>2, <1>6, <2>1 DEF ItemOrNone
<1> HIDE DEF i
<1>9. /\ g = [next |-> g.next, head |-> g.head, tail |-> g.tail, size |-> g.size]
      /\ g.next = [(IF h.head[l] = i THEN h.next ELSE [h.next EXCEPT ![prev] = h.next[i]]) EXCEPT ![i] = NoItem]
      /\ g.head = IF h.head[l] = i THEN [h.head EXCEPT ![l] = h.next[i]] ELSE h.head
      /\ g.tail = [h.tail EXCEPT ![l] = IF @ = i THEN prev ELSE @]
      /\ g.size = [h.size EXCEPT ![l] = @ - 1]
  <2> DEFINE unlinked == IF h.head[l] = i THEN [h EXCEPT !.head[l] = h.next[i]] ELSE [h EXCEPT !.next[prev] = h.next[i]]
  <2>1. g = [unlinked EXCEPT !.next[i] = NoItem, !.size[l] = @ - 1, !.tail[l] = IF @ = i THEN prev ELSE @]
    BY DEF irlist_remove
  <2> HIDE DEF prev, g
  <2>2. CASE h.head[l] = i
    BY <1>2, <2>1, <2>2
  <2>3. CASE h.head[l] # i
    BY <1>2, <2>1, <2>3
  <2> QED BY <2>2, <2>3
<1> HIDE DEF g, prev
<1>10. /\ \A x \in Item : g.next[x] = IF x = i THEN NoItem
                                      ELSE IF n > 1 /\ x = prev THEN ItemAt(s, n + 1) ELSE h.next[x]
       /\ g.next \in [Item -> ItemOrNone]
  <2>1. CASE n = 1
    <3>1. g.next = [h.next EXCEPT ![i] = NoItem]
      BY <1>6, <1>9, <2>1
    <3>2. ~(n > 1) /\ \A x \in Item : g.next[x] = IF x = i THEN NoItem ELSE h.next[x]
      BY <1>2, <2>1, <3>1
    <3>3. g.next \in [Item -> ItemOrNone]
      BY <1>2, <1>8, <3>1
    <3> QED BY <3>2, <3>3
  <2>2. CASE n > 1
    <3>1. g.next = [[h.next EXCEPT ![prev] = h.next[i]] EXCEPT ![i] = NoItem]
      BY <1>6, <1>9, <2>2
    <3> QED BY <1>2, <1>6, <1>7, <1>8, <2>2, <3>1
  <2> QED BY <1>3, <2>1, <2>2
<1>11. /\ \A m \in AllLists : /\ g.head[m] = IF m = l /\ n = 1 THEN h.next[i] ELSE h.head[m]
                              /\ g.tail[m] = IF m = l /\ n = c THEN prev ELSE h.tail[m]
                              /\ g.size[m] = IF m = l THEN h.size[m] - 1 ELSE h.size[m]
       /\ g.head \in [AllLists -> ItemOrNone] /\ g.tail \in [AllLists -> ItemOrNone]
       /\ g.size \in [AllLists -> Int]
  BY <1>2, <1>6, <1>8, <1>9
<1>12. Removes(h, g, s, l, n, i)
  <2>1. g \in Heaps
    BY <1>9, <1>10, <1>11 DEF Heaps
  <2>2. n > 1 => prev = s[n - 1]
    BY <1>7
  <2>3. n = 1 => h.next[i] = ItemAt(s, 2)
    BY <1>6
  <2> QED BY <1>5, <1>10, <1>11, <2>1, <2>2, <2>3 DEF Removes, c
<1> QED BY <1>3, <1>12, Removed DEF g, s, i, c

\* irlist_move gives an empty list what another has.
LEMMA MovedItems ==
  ASSUME NEW h, NEW S, Holds(h, S), NEW to \in AllLists, NEW from \in AllLists, to # from, S[to] = <<>>
  PROVE  Holds(irlist_move(h, to, from), [S EXCEPT ![to] = S[from], ![from] = <<>>])
<1> DEFINE g == irlist_move(h, to, from)
           T == [S EXCEPT ![to] = S[from], ![from] = <<>>]
<1>1. /\ h = [next |-> h.next, head |-> h.head, tail |-> h.tail, size |-> h.size]
      /\ h.next \in [Item -> ItemOrNone] /\ h.head \in [AllLists -> ItemOrNone]
      /\ h.tail \in [AllLists -> ItemOrNone] /\ h.size \in [AllLists -> Int]
  BY HeapParts
<1>2. /\ S \in [AllLists -> Seq(Item)] /\ Apart(S)
      /\ \A m \in AllLists : DOMAIN S[m] = 1..Len(S[m]) /\ S[m] \in Seq(Item)
  BY HoldsFacts DEF Holds
<1>3. /\ T \in [AllLists -> Seq(Item)] /\ T[to] = S[from] /\ T[from] = <<>>
      /\ \A m \in AllLists \ {to, from} : T[m] = S[m]
  BY <1>2
<1>4. /\ \A m \in AllLists : h.head[m] = ItemAt(S[m], 1) /\ h.tail[m] = ItemAt(S[m], Len(S[m])) /\ h.size[m] = Len(S[m])
      /\ \A m \in AllLists : \A k \in 1..Len(S[m]) : h.next[S[m][k]] = ItemAt(S[m], k + 1)
      /\ \A i \in Item : Nowhere(S, i) => h.next[i] = NoItem
  BY HoldsFacts DEF Holds
<1>5. /\ g = [next |-> g.next, head |-> g.head, tail |-> g.tail, size |-> g.size]
      /\ g.next = h.next
      /\ g.head = [h.head EXCEPT ![to] = h.head[from], ![from] = NoItem]
      /\ g.tail = [h.tail EXCEPT ![to] = h.tail[from], ![from] = NoItem]
      /\ g.size = [h.size EXCEPT ![to] = h.size[from], ![from] = 0]
  <2>1. g = [h EXCEPT !.head = [@ EXCEPT ![to] = h.head[from], ![from] = NoItem],
                      !.tail = [@ EXCEPT ![to] = h.tail[from], ![from] = NoItem],
                      !.size = [@ EXCEPT ![to] = h.size[from], ![from] = 0]]
    BY DEF irlist_move
  <2> HIDE DEF g
  <2> QED BY <1>1, <2>1
<1> HIDE DEF g, T
<1>6. g \in Heaps
  <2>1. h.head[from] \in ItemOrNone /\ h.tail[from] \in ItemOrNone /\ h.size[from] \in Int /\ NoItem \in ItemOrNone
    BY <1>1 DEF ItemOrNone
  <2>2. ASSUME NEW f \in [AllLists -> ItemOrNone], NEW x \in ItemOrNone
        PROVE  [f EXCEPT ![to] = x, ![from] = NoItem] \in [AllLists -> ItemOrNone]
    BY <2>1
  <2>3. [h.head EXCEPT ![to] = h.head[from], ![from] = NoItem] \in [AllLists -> ItemOrNone]
    BY <1>1, <2>1, <2>2
  <2>4. [h.tail EXCEPT ![to] = h.tail[from], ![from] = NoItem] \in [AllLists -> ItemOrNone]
    BY <1>1, <2>1, <2>2
  <2>5. [h.size EXCEPT ![to] = h.size[from], ![from] = 0] \in [AllLists -> Int]
    BY <1>1, <2>1
  <2>6. /\ g.head \in [AllLists -> ItemOrNone] /\ g.tail \in [AllLists -> ItemOrNone]
        /\ g.size \in [AllLists -> Int]
    BY <1>5, <2>3, <2>4, <2>5
  <2> QED BY <1>1, <1>5, <2>6 DEF Heaps
<1>7. Apart(T)
  <2> SUFFICES ASSUME NEW a \in AllLists, NEW b \in AllLists, NEW j \in DOMAIN T[a], NEW k \in DOMAIN T[b],
                      T[a][j] = T[b][k]
               PROVE  a = b /\ j = k
    BY DEF Apart
  <2>1. DOMAIN <<>> = {}
    OBVIOUS
  <2>2. a # from /\ b # from
    BY <1>3, <2>1
  <2> DEFINE c == IF a = to THEN from ELSE a
             d == IF b = to THEN from ELSE b
  <2>3. c \in AllLists /\ d \in AllLists /\ T[a] = S[c] /\ T[b] = S[d] /\ (c = d => a = b)
    BY <1>3, <2>2
  <2> HIDE DEF c, d
  <2> QED BY <1>2, <2>3 DEF Apart
<1>8. ASSUME NEW m \in AllLists
      PROVE  g.head[m] = ItemAt(T[m], 1) /\ g.tail[m] = ItemAt(T[m], Len(T[m])) /\ g.size[m] = Len(T[m])
  <2>1. Len(<<>>) = 0 /\ \A k : ItemAt(<<>>, k) = NoItem
    BY DEF ItemAt
  <2>2. /\ g.head[m] = IF m = to THEN h.head[from] ELSE IF m = from THEN NoItem ELSE h.head[m]
        /\ g.tail[m] = IF m = to THEN h.tail[from] ELSE IF m = from THEN NoItem ELSE h.tail[m]
        /\ g.size[m] = IF m = to THEN h.size[from] ELSE IF m = from THEN 0 ELSE h.size[m]
    BY <1>1, <1>5
  <2>3. CASE m = to
    BY <1>3, <1>4, <2>2, <2>3
  <2>4. CASE m = from
    BY <1>3, <2>1, <2>2, <2>4
  <2>5. CASE m \notin {to, from}
    BY <1>3, <1>4, <2>2, <2>5
  <2> QED BY <2>3, <2>4, <2>5
<1>9. ASSUME NEW m \in AllLists, NEW k \in DOMAIN T[m] PROVE g.next[T[m][k]] = ItemAt(T[m], k + 1)
  <2>1. DOMAIN <<>> = {}
    OBVIOUS
  <2>2. \E c \in AllLists : T[m] = S[c]
    <3>1. m # from
      BY <1>3, <2>1
    <3> QED BY <1>3, <3>1
  <2>3. PICK c \in AllLists : T[m] = S[c]
    BY <2>2
  <2>4. k \in 1..Len(S[c])
    BY <1>2, <2>3
  <2>5. h.next[S[c][k]] = ItemAt(S[c], k + 1)
    BY <1>4, <2>4
  <2> QED BY <1>5, <2>3, <2>5
<1>10. ASSUME NEW x \in Item, Nowhere(T, x) PROVE g.next[x] = NoItem
  <2>1. Nowhere(S, x)
    <3> SUFFICES ASSUME NEW m \in AllLists PROVE x \notin Elems(S[m])
      BY DEF Nowhere
    <3>1. CASE m = from
      BY <1>3, <1>10, <3>1 DEF Nowhere
    <3>2. CASE m = to
      BY <3>2 DEF Elems
    <3>3. CASE m \notin {to, from}
      BY <1>3, <1>10, <3>3 DEF Nowhere
    <3> QED BY <3>1, <3>2, <3>3
  <2> QED BY <1>4, <1>5, <2>1
<1>11. Holds(g, T)
  <2>1. \A m \in AllLists : \A k \in DOMAIN T[m] : g.next[T[m][k]] = ItemAt(T[m], k + 1)
    BY <1>9
  <2> QED BY <1>3, <1>6, <1>7, <1>8, <1>10, <2>1 DEF Holds
<1> QED BY <1>11 DEF g, T
-----------------------------------------------------------------------------
(* A list that is cleaned *)

\* A position that is kept is the Nth for the number of those up to it.
LEMMA NthPlace ==
  ASSUME NEW n \in Nat, NEW K, K \subseteq 1..n, NEW i \in K
  PROVE  /\ IsFiniteSet(K) /\ Cardinality(K) \in Nat
         /\ Cardinality(K \cap (1..i)) \in 1..Cardinality(K)
         /\ Nth(K, Cardinality(K \cap (1..i))) = i
<1> DEFINE p == Cardinality(K \cap (1..i))
<1>1. IsFiniteSet(K) /\ IsFiniteSet(K \cap (1..i)) /\ Cardinality(K) \in Nat /\ p \in Nat /\ p <= Cardinality(K)
  <2>1. IsFiniteSet(K)
    BY IntervalSize, FS_Subset
  <2>2. K \cap (1..i) \in SUBSET K
    OBVIOUS
  <2> QED BY <2>1, <2>2, FS_Subset, FS_CardinalityType
<1>2. p >= 1
  <2>1. {i} \in SUBSET (K \cap (1..i))
    OBVIOUS
  <2>2. Cardinality({i}) <= p
    BY <1>1, <2>1, FS_Subset
  <2> QED BY <1>1, <2>2, FS_Singleton
<1>3. p \in 1..Cardinality(K)
  BY <1>1, <1>2
<1>4. Nth(K, p) \in K /\ Cardinality(K \cap (1..Nth(K, p))) = p
  <2> HIDE DEF p
  <2> QED BY <1>3, NthExists
<1>5. Nth(K, p) = i
  <2> DEFINE k == Nth(K, p)
  <2>1. k \in K /\ Cardinality(K \cap (1..k)) = Cardinality(K \cap (1..i))
    BY <1>4
  <2> HIDE DEF k
  <2> QED BY <2>1, NthUnique DEF k
<1> QED BY <1>1, <1>3, <1>5

\* Without one of the kept: Keep without its position, or Drop after Keep.
LEMMA KeepDrop ==
  ASSUME NEW T, NEW q \in Seq(T), NEW K, K \subseteq DOMAIN q, NEW i \in K
  PROVE  Keep(q, K \ {i}) = Drop(Keep(q, K), Cardinality(K \cap (1..i)))
<1> DEFINE n == Len(q)
           c == Cardinality(K)
           p == Cardinality(K \cap (1..i))
           M == K \ {i}
           t == Keep(q, K)
           u == Keep(q, M)
           d == Drop(t, p)
<1>1. n \in Nat /\ K \subseteq 1..n /\ M \subseteq 1..n /\ i \in 1..n
  OBVIOUS
<1>2. IsFiniteSet(K) /\ c \in Nat /\ p \in 1..c /\ Nth(K, p) = i
  BY <1>1, NthPlace
<1>3. Cardinality(M) = c - 1
  BY <1>2, FS_RemoveElement
<1>4. t \in Seq(T) /\ Len(t) = c /\ \A j \in 1..c : t[j] = q[Nth(K, j)]
  BY KeepType DEF Keep
<1>5. d \in Seq(T) /\ DOMAIN d = 1..(c - 1) /\ \A j \in 1..(c - 1) : d[j] = t[IF j < p THEN j ELSE j + 1]
  <2>1. p \in DOMAIN t
    BY <1>2, <1>4
  <2> HIDE DEF t, p, c
  <2> QED BY <1>4, <2>1, DropIndex
<1>6. u = [j \in 1..(c - 1) |-> q[Nth(M, j)]]
  BY <1>3 DEF Keep
<1>7. ASSUME NEW j \in 1..(c - 1) PROVE d[j] = q[Nth(M, j)]
  <2> DEFINE k == IF j < p THEN j ELSE j + 1
             y == Nth(K, k)
  <2>1. k \in 1..c /\ k \in Nat /\ j \in Nat /\ k # p
    BY <1>2
  <2>2. y \in K /\ Cardinality(K \cap (1..y)) = k
    <3> HIDE DEF k
    <3> QED BY <1>1, <2>1, NthExists
  <2>3. y # i
    <3> HIDE DEF y, k, p
    <3> QED BY <2>1, <2>2 DEF p
  <2>4. y \in M /\ y \in 1..n
    <3> HIDE DEF y
    <3> QED BY <1>1, <2>2, <2>3
  <2>5. IsFiniteSet(K \cap (1..y)) /\ IsFiniteSet(K \cap (1..i))
    <3>1. K \cap (1..y) \in SUBSET K /\ K \cap (1..i) \in SUBSET K
      OBVIOUS
    <3> QED BY <1>2, <3>1, FS_Subset
  <2> HIDE DEF y
  <2>6. Cardinality(M \cap (1..y)) = j
    <3>1. CASE j < p
      <4>1. k = j
        BY <3>1
      <4>2. y < i
        <5>1. SUFFICES ASSUME y >= i PROVE FALSE
          BY <1>1, <2>4
        <5>2. K \cap (1..i) \in SUBSET (K \cap (1..y))
          BY <1>1, <2>4, <5>1
        <5>3. p <= k
          BY <2>2, <2>5, <5>2, FS_Subset
        <5> QED BY <1>2, <2>1, <3>1, <4>1, <5>3
      <4>3. M \cap (1..y) = K \cap (1..y)
        BY <1>1, <2>4, <4>2
      <4> HIDE DEF k, M
      <4> QED BY <2>2, <4>1, <4>3
    <3>2. CASE ~(j < p)
      <4>1. k = j + 1
        BY <3>2
      <4>2. y > i
        <5>1. SUFFICES ASSUME y <= i PROVE FALSE
          BY <1>1, <2>4
        <5>2. K \cap (1..y) \in SUBSET (K \cap (1..i))
          BY <1>1, <2>4, <5>1
        <5>3. k <= p
          BY <2>2, <2>5, <5>2, FS_Subset
        <5> QED BY <1>2, <2>1, <3>2, <4>1, <5>3
      <4>3. M \cap (1..y) = (K \cap (1..y)) \ {i} /\ i \in K \cap (1..y)
        BY <1>1, <2>4, <4>2
      <4> DEFINE A == K \cap (1..y)
      <4>4. IsFiniteSet(A) /\ i \in A /\ Cardinality(A) = k
        BY <2>2, <2>5, <4>3
      <4> HIDE DEF A
      <4>5. Cardinality(A \ {i}) = Cardinality(A) - 1
        BY <4>4, FS_RemoveElement
      <4>6. M \cap (1..y) = A \ {i}
        BY <4>3 DEF A
      <4> HIDE DEF k, M
      <4>7. Cardinality(M \cap (1..y)) = k - 1
        BY <4>4, <4>5, <4>6
      <4> QED BY <2>1, <4>1, <4>7
    <3> QED BY <3>1, <3>2
  <2>7. Nth(M, j) \in M /\ Cardinality(M \cap (1..Nth(M, j))) = j
    <3>1. j \in 1..Cardinality(M)
      BY <1>3
    <3> HIDE DEF M
    <3> QED BY <1>1, <3>1, NthExists
  <2>8. Nth(M, j) = y
    <3> DEFINE z == Nth(M, j)
    <3>1. z \in M /\ Cardinality(M \cap (1..z)) = Cardinality(M \cap (1..y))
      BY <2>6, <2>7
    <3> HIDE DEF z, M
    <3> QED BY <1>1, <2>4, <3>1, NthUnique DEF z
  <2>9. d[j] = q[y]
    <3> HIDE DEF d, t
    <3> QED BY <1>4, <1>5, <2>1 DEF y
  <2> QED BY <2>8, <2>9
<1>8. d = [j \in 1..(c - 1) |-> d[j]]
  <2> HIDE DEF d
  <2> QED BY <1>5
<1> HIDE DEF d, u, M, p
<1>9. u = d
  BY <1>6, <1>7, <1>8
<1> QED BY <1>9 DEF d, u, M, p

\* What is kept goes on with the next one, when all that follow are kept.
LEMMA KeepNext ==
  ASSUME NEW q \in Seq(Item), NEW K, K \subseteq DOMAIN q, NEW i \in K, \A j \in DOMAIN q : j > i => j \in K
  PROVE  LET p == Cardinality(K \cap (1..i))
         IN  /\ p \in 1..Len(Keep(q, K)) /\ Keep(q, K)[p] = q[i]
             /\ ItemAt(Keep(q, K), p + 1) = ItemAt(q, i + 1)
<1> DEFINE n == Len(q)
           c == Cardinality(K)
           p == Cardinality(K \cap (1..i))
           t == Keep(q, K)
<1>1. n \in Nat /\ K \subseteq 1..n /\ i \in 1..n /\ DOMAIN q = 1..n
  OBVIOUS
<1>2. c \in Nat /\ p \in 1..c /\ Nth(K, p) = i /\ IsFiniteSet(K)
  BY <1>1, NthPlace
<1>3. t \in Seq(Item) /\ Len(t) = c /\ \A j \in 1..c : t[j] = q[Nth(K, j)]
  BY KeepType DEF Keep
<1>4. p \in 1..Len(t) /\ t[p] = q[i]
  <2> HIDE DEF t, p
  <2> QED BY <1>2, <1>3
<1>5. ItemAt(t, p + 1) = IF p + 1 \in 1..c THEN t[p + 1] ELSE NoItem
  <2> HIDE DEF t, p
  <2> QED BY <1>3 DEF ItemAt
<1>6. ItemAt(q, i + 1) = IF i + 1 \in 1..n THEN q[i + 1] ELSE NoItem
  BY DEF ItemAt
<1>7. CASE i = n
  <2>1. K \cap (1..i) = K
    BY <1>1, <1>7
  <2>2. p = c /\ p + 1 \notin 1..c /\ i + 1 \notin 1..n
    <3>1. p = c
      BY <2>1
    <3>2. i + 1 \notin 1..n
      BY <1>1, <1>7
    <3> HIDE DEF p, c
    <3> QED BY <1>2, <3>1, <3>2
  <2> HIDE DEF t, p
  <2> QED BY <1>4, <1>5, <1>6, <2>2 DEF t, p
<1>8. CASE i # n
  <2>1. i + 1 \in K /\ i + 1 \in 1..n /\ i + 1 > i
    BY <1>1, <1>8
  <2>2. K \cap (1..(i + 1)) = (K \cap (1..i)) \cup {i + 1} /\ i + 1 \notin K \cap (1..i)
    BY <1>1, <2>1
  <2>3. IsFiniteSet(K \cap (1..i))
    <3>1. K \cap (1..i) \in SUBSET K
      OBVIOUS
    <3> QED BY <1>2, <3>1, FS_Subset
  <2>4. Cardinality(K \cap (1..(i + 1))) = p + 1
    BY <2>2, <2>3, FS_AddElement
  <2>5. p + 1 \in 1..c /\ Nth(K, p + 1) = i + 1
    BY <1>1, <2>1, <2>4, NthPlace
  <2>6. t[p + 1] = q[i + 1]
    <3> HIDE DEF t, p
    <3> QED BY <1>3, <2>5
  <2> HIDE DEF t, p
  <2> QED BY <1>4, <1>5, <1>6, <2>1, <2>5, <2>6 DEF t, p
<1> QED BY <1>7, <1>8

\* All that is kept is the list.
LEMMA KeepAll ==
  ASSUME NEW q \in Seq(Item)
  PROVE  Keep(q, DOMAIN q) = q
<1> DEFINE n == Len(q)
<1>1. n \in Nat /\ DOMAIN q = 1..n /\ q = [j \in 1..n |-> q[j]]
  OBVIOUS
<1>2. Cardinality(1..n) = n
  BY <1>1, IntervalSize
<1>3. ASSUME NEW j \in 1..n PROVE Nth(1..n, j) = j
  <2>1. (1..n) \cap (1..j) = 1..j /\ j \in Nat
    BY <1>1
  <2>2. Cardinality(1..j) = j
    BY <2>1, IntervalSize
  <2>3. Nth(1..n, Cardinality((1..n) \cap (1..j))) = j
    BY <1>1, NthPlace
  <2> QED BY <2>1, <2>2, <2>3
<1> HIDE DEF n
<1> QED BY <1>1, <1>2, <1>3 DEF Keep

\* What Cleaned does at an item, and what it has after k of them: the ones it left and
\* the ones to come are in the list, and the next one is at hand.
VisitItem(v, l, gone) ==
  IF v.cur = NoItem THEN v
  ELSE [heap |-> IF v.cur \in gone THEN irlist_remove(v.heap, l, v.cur) ELSE v.heap,
        cur |-> v.heap.next[v.cur]]
Left(s, gone, k) == {j \in DOMAIN s : s[j] \notin gone \/ j > k}
Visited(S, l, gone, k, v) ==
  /\ v.cur = ItemAt(S[l], k + 1)
  /\ Holds(v.heap, [S EXCEPT ![l] = Keep(@, Left(@, gone, k))])

\* One item more is visited.
LEMMA VisitedNext ==
  ASSUME NEW h, NEW S, Holds(h, S), NEW l \in AllLists, NEW gone, NEW k \in Nat, k > 0,
         NEW v, Visited(S, l, gone, k - 1, v)
  PROVE  Visited(S, l, gone, k, VisitItem(v, l, gone))
<1> DEFINE s == S[l]
           n == Len(s)
           K == Left(s, gone, k - 1)
           M == Left(s, gone, k)
           T == [S EXCEPT ![l] = Keep(s, K)]
<1>1. /\ s \in Seq(Item) /\ n \in Nat /\ DOMAIN s = 1..n /\ S \in [AllLists -> Seq(Item)]
      /\ \A j \in 1..n : s[j] \in Item /\ s[j] # NoItem
  BY HoldsFacts DEF Holds
<1>2. v.cur = ItemAt(s, k) /\ Holds(v.heap, T)
  <2>1. (k - 1) + 1 = k
    OBVIOUS
  <2> QED BY <2>1 DEF Visited
<1>3. K \subseteq DOMAIN s /\ M \subseteq DOMAIN s
  BY DEF Left
<1> HIDE DEF s
<1>4. CASE k \notin 1..n
  <2>1. v.cur = NoItem
    BY <1>2, <1>4 DEF ItemAt
  <2>2. K = M
    BY <1>1, <1>4 DEF Left
  <2>3. ItemAt(s, k + 1) = NoItem
    <3>1. k + 1 \notin 1..n
      BY <1>1, <1>4
    <3> QED BY <3>1 DEF ItemAt
  <2>4. VisitItem(v, l, gone) = v
    BY <2>1 DEF VisitItem
  <2> HIDE DEF K, M
  <2>5. v.cur = ItemAt(s, k + 1) /\ Holds(v.heap, [S EXCEPT ![l] = Keep(s, M)])
    BY <1>2, <2>1, <2>2, <2>3
  <2> QED BY <2>4, <2>5 DEF Visited, M, s
<1>5. CASE k \in 1..n
  <2> DEFINE t == Keep(s, K)
             p == Cardinality(K \cap (1..k))
  <2>1. v.cur = s[k] /\ s[k] # NoItem /\ s[k] \in Item
    BY <1>1, <1>2, <1>5 DEF ItemAt
  <2>2. k \in K /\ \A j \in DOMAIN s : j > k => j \in K
    BY <1>1, <1>5 DEF Left
  <2>3. p \in 1..Len(t) /\ t[p] = s[k] /\ ItemAt(t, p + 1) = ItemAt(s, k + 1)
    <3> HIDE DEF K
    <3> QED BY <1>1, <1>3, <2>2, KeepNext
  <2>4. T[l] = t
    <3> HIDE DEF K
    <3>1. T[l] = Keep(s, K)
      <4> DEFINE x == Keep(s, K)
      <4> HIDE DEF x
      <4>1. [S EXCEPT ![l] = x][l] = x
        BY <1>1
      <4> QED BY <4>1 DEF x
    <3> QED BY <3>1
  <2> HIDE DEF T, t, p, K
  <2>5. v.heap.next[s[k]] = ItemAt(s, k + 1)
    BY <1>2, <2>3, <2>4, HoldsFacts
  <2>6. CASE s[k] \in gone
    <3>1. VisitItem(v, l, gone) = [heap |-> irlist_remove(v.heap, l, s[k]), cur |-> ItemAt(s, k + 1)]
      BY <2>1, <2>5, <2>6 DEF VisitItem
    <3>2. Holds(irlist_remove(v.heap, l, s[k]), [T EXCEPT ![l] = Drop(@, p)])
      BY <1>2, <2>3, <2>4, RemovedItem
    <3>3. M = K \ {k}
      <4>1. \A j \in DOMAIN s : j > k <=> (j > k - 1 /\ j # k)
        BY <1>1
      <4> QED BY <1>1, <2>6, <4>1 DEF Left, K
    <3>4. Drop(t, p) = Keep(s, M)
      <4>1. Keep(s, K \ {k}) = Drop(t, p)
        BY <1>1, <1>3, <2>2, KeepDrop DEF t, p
      <4> HIDE DEF M
      <4> QED BY <3>3, <4>1
    <3>5. [T EXCEPT ![l] = Drop(@, p)] = [S EXCEPT ![l] = Keep(s, M)]
      <4> HIDE DEF M
      <4>1. [T EXCEPT ![l] = Keep(s, M)] = [S EXCEPT ![l] = Keep(s, M)]
        BY <1>1 DEF T
      <4> QED BY <2>4, <3>4, <4>1
    <3> HIDE DEF M
    <3>6. Holds(irlist_remove(v.heap, l, s[k]), [S EXCEPT ![l] = Keep(s, M)])
      BY <3>2, <3>5
    <3> QED BY <3>1, <3>6 DEF Visited, M, s
  <2>7. CASE s[k] \notin gone
    <3>1. VisitItem(v, l, gone) = [heap |-> v.heap, cur |-> ItemAt(s, k + 1)]
      BY <2>1, <2>5, <2>7 DEF VisitItem
    <3>2. M = K
      <4>1. \A j \in DOMAIN s : j > k - 1 <=> (j > k \/ j = k)
        BY <1>1
      <4> QED BY <2>7, <4>1 DEF Left, K
    <3> HIDE DEF M
    <3>3. Holds(v.heap, [S EXCEPT ![l] = Keep(s, M)])
      BY <1>2, <3>2 DEF T
    <3> QED BY <3>1, <3>3 DEF Visited, M, s
  <2> QED BY <2>6, <2>7
<1> QED BY <1>4, <1>5

\* A list that is cleaned keeps what is not deleted, in its order.
LEMMA CleanedItems ==
  ASSUME NEW h, NEW S, Holds(h, S), NEW l \in AllLists, NEW gone
  PROVE  Holds(Cleaned(h, l, gone), [S EXCEPT ![l] = Purge(@, gone)])
<1> DEFINE N == Cardinality(Item)
           first == [heap |-> h, cur |-> h.head[l]]
           Is(f) == f = [k \in 0..N |-> IF k = 0 THEN first
                                        ELSE LET s == f[k - 1]
                                             IN IF s.cur = NoItem THEN s
                                                ELSE [heap |-> IF s.cur \in gone THEN irlist_remove(s.heap, l, s.cur) ELSE s.heap,
                                                      cur |-> s.heap.next[s.cur]]]
           V == CHOOSE f : Is(f)
           States == [heap : Heaps, cur : ItemOrNone]
           D == [k \in 1..N |-> [v \in States |-> IF VisitItem(v, l, gone) \in States THEN VisitItem(v, l, gone) ELSE v]]
<1>1. N \in Nat /\ Len(S[l]) \in Nat /\ Len(S[l]) <= N /\ S[l] \in Seq(Item) /\ DOMAIN S[l] = 1..Len(S[l])
  BY ChainFits, HoldsFacts DEF Holds
<1>2. Cleaned(h, l, gone) = V[N].heap
  BY DEF Cleaned
<1> HIDE DEF N
<1>3. \A v : v \in States => D \in StepsOf(N, States) /\ \A k \in 1..N :
                             D[k][v] = IF VisitItem(v, l, gone) \in States THEN VisitItem(v, l, gone) ELSE v
  BY DEF StepsOf
<1>4. h \in Heaps /\ first \in States /\ first.heap = h /\ first.cur = h.head[l]
  <2>1. h \in Heaps /\ h.head[l] \in ItemOrNone
    BY HeapParts DEF Holds
  <2> QED BY <2>1
<1> HIDE DEF D, States
<1>5. Made(N, States, first, D)
  BY <1>1, <1>3, <1>4, Iterated
<1>6. PICK f \in [0..N -> States] : f[0] = first /\ \A k \in 1..N : f[k] = D[k][f[k - 1]]
  BY <1>5 DEF Made
<1>7. ASSUME NEW k, NEW v, Visited(S, l, gone, k, v), DOMAIN v = {"heap", "cur"}, v = [heap |-> v.heap, cur |-> v.cur]
      PROVE  v \in States
  <2>1. v.heap \in Heaps
    BY <1>7 DEF Visited, Holds
  <2>2. v.cur \in ItemOrNone
    <3>1. \A j \in 1..Len(S[l]) : S[l][j] \in Item
      BY HoldsFacts
    <3> QED BY <1>7, <3>1 DEF Visited, ItemAt, ItemOrNone
  <2> QED BY <1>7, <2>1, <2>2 DEF States
<1>8. Visited(S, l, gone, 0, first)
  <2>1. first.cur = ItemAt(S[l], 0 + 1)
    BY <1>4, HoldsFacts
  <2>2. Keep(S[l], Left(S[l], gone, 0)) = S[l]
    <3>1. Left(S[l], gone, 0) = DOMAIN S[l]
      BY <1>1 DEF Left
    <3> QED BY <1>1, <3>1, KeepAll
  <2>3. [S EXCEPT ![l] = S[l]] = S
    BY DEF Holds
  <2>4. Holds(first.heap, [S EXCEPT ![l] = Keep(S[l], Left(S[l], gone, 0))])
    BY <1>4, <2>2, <2>3
  <2> QED BY <2>1, <2>4 DEF Visited
<1>9. ASSUME NEW k \in 1..N, Visited(S, l, gone, k - 1, f[k - 1])
      PROVE  f[k] = VisitItem(f[k - 1], l, gone) /\ Visited(S, l, gone, k, f[k])
  <2> DEFINE v == f[k - 1]
             w == VisitItem(v, l, gone)
  <2>1. k \in Nat /\ k > 0 /\ k - 1 \in 0..N /\ v \in States
    BY <1>1, <1>6
  <2>2. Visited(S, l, gone, k, w)
    BY <1>9, <2>1, VisitedNext
  <2>3. v = [heap |-> v.heap, cur |-> v.cur] /\ DOMAIN v = {"heap", "cur"}
    BY <2>1 DEF States
  <2>4. w = [heap |-> w.heap, cur |-> w.cur] /\ DOMAIN w = {"heap", "cur"}
    BY <2>3 DEF VisitItem
  <2> HIDE DEF w
  <2>5. w \in States
    BY <1>7, <2>2, <2>4
  <2>6. f[k] = w
    <3>1. f[k] = D[k][v]
      BY <1>6
    <3> HIDE DEF v
    <3> QED BY <1>3, <2>1, <2>5, <3>1 DEF w
  <2> QED BY <2>2, <2>6 DEF w
<1>10. \A k \in 0..N : Visited(S, l, gone, k, f[k])
  <2> DEFINE P == {k \in 0..N : Visited(S, l, gone, k, f[k])}
  <2>1. 0 \in P
    BY <1>1, <1>6, <1>8
  <2>2. ASSUME NEW k \in 1..N, k - 1 \in P PROVE k \in P
    <3>1. k \in 0..N
      BY <1>1
    <3> QED BY <1>9, <2>2, <3>1
  <2>3. 0..N \subseteq P
    <3> HIDE DEF P
    <3> QED BY <1>1, <2>1, <2>2, Climb
  <2> QED BY <2>3
<1>11. \A k \in 1..N : k - 1 \in 0..N /\ k \in 0..N /\ k # 0 /\ f[k] = VisitItem(f[k - 1], l, gone)
  <2>1. \A k \in 1..N : k - 1 \in 0..N /\ k \in 0..N /\ k # 0
    BY <1>1
  <2> QED BY <1>9, <1>10, <2>1
<1>12. \E g : Is(g)
  <2>1. \A k \in 0..N : k # 0 => k \in 1..N
    BY <1>1
  <2>2. \A k \in 0..N : f[k] = IF k = 0 THEN first ELSE VisitItem(f[k - 1], l, gone)
    BY <1>6, <1>11, <2>1
  <2>3. f = [k \in 0..N |-> f[k]]
    BY <1>6
  <2> HIDE DEF first
  <2>4. f = [k \in 0..N |-> IF k = 0 THEN first ELSE VisitItem(f[k - 1], l, gone)]
    BY <2>2, <2>3
  <2>5. Is(f)
    BY <2>4 DEF VisitItem
  <2> QED BY <2>5
<1>13. Is(V)
  <2> HIDE DEF Is
  <2> QED BY <1>12
<1> HIDE DEF V
<1>14. V[0] = first /\ \A k \in 1..N : V[k] = VisitItem(V[k - 1], l, gone)
  <2> HIDE DEF first
  <2>1. V = [k \in 0..N |-> IF k = 0 THEN first ELSE VisitItem(V[k - 1], l, gone)]
    BY <1>13 DEF VisitItem
  <2> HIDE DEF Is
  <2>2. 0 \in 0..N
    BY <1>1
  <2> QED BY <1>11, <2>1, <2>2
<1>15. V[N] = f[N]
  <2> HIDE DEF Is, first
  <2> DEFINE P == {k \in 0..N : V[k] = f[k]}
  <2>1. 0 \in P
    BY <1>1, <1>6, <1>14
  <2>2. ASSUME NEW k \in 1..N, k - 1 \in P PROVE k \in P
    BY <1>11, <1>14, <2>2
  <2>3. 0..N \subseteq P
    <3> HIDE DEF P
    <3> QED BY <1>1, <2>1, <2>2, Climb
  <2> QED BY <1>1, <2>3
<1>16. Left(S[l], gone, N) = {j \in DOMAIN S[l] : S[l][j] \notin gone}
  BY <1>1 DEF Left
<1>17. Holds(f[N].heap, [S EXCEPT ![l] = Keep(S[l], Left(S[l], gone, N))])
  BY <1>1, <1>10 DEF Visited
<1> QED BY <1>2, <1>15, <1>16, <1>17 DEF Purge
-----------------------------------------------------------------------------
(* A list that is sorted *)

\* irlist_sort2 has taken k items of the list s: they are in its own list, in an order
\* o of their places, and the others are still in theirs.
Rest(s, k) == [j \in 1..(Len(s) - k) |-> s[j + k]]
Picked(s, o, k) == [j \in 1..k |-> s[o[j]]]
Ranked(s, o, k) == \A a, b \in 1..k : a < b => Abstract!Before(s, o[a], o[b])
Sorting(S, l, k, g) ==
  \E o \in [1..k -> 1..k] :
    /\ Ranked(S[l], o, k)
    /\ Holds(g, [S EXCEPT ![l] = Rest(@, k), ![Scratch] = Picked(S[l], o, k)])

\* Where an item goes: the ranks before are not greater, the ranks after are.
LEMMA SortPlace ==
  ASSUME NEW t \in Seq(Item), NEW cur \in Item
  PROVE  LET greater == {k \in DOMAIN t : rank[cur] < rank[t[k]]}
             at == IF greater = {} THEN Len(t) ELSE First(greater) - 1
         IN  at \in 0..Len(t) /\ \A k \in 1..Len(t) :
               (k <= at => ~(rank[cur] < rank[t[k]])) /\ (k = at + 1 => rank[cur] < rank[t[k]])
<1> DEFINE greater == {k \in DOMAIN t : rank[cur] < rank[t[k]]}
           at == IF greater = {} THEN Len(t) ELSE First(greater) - 1
<1>1. Len(t) \in Nat /\ DOMAIN t = 1..Len(t) /\ greater \subseteq 1..Len(t)
  OBVIOUS
<1>2. \A k \in 1..Len(t) : k \in greater <=> rank[cur] < rank[t[k]]
  BY <1>1
<1> HIDE DEF greater
<1>3. CASE greater = {}
  <2>1. at = Len(t)
    BY <1>3
  <2> HIDE DEF at
  <2> QED BY <1>1, <1>2, <1>3, <2>1 DEF at, greater
<1>4. CASE greater # {}
  <2> DEFINE f == First(greater)
  <2>1. f \in greater /\ \A j \in greater : f <= j
    <3>1. greater \subseteq Nat
      BY <1>1
    <3> QED BY <1>4, <3>1, FirstType
  <2>2. at = f - 1
    BY <1>4
  <2> HIDE DEF f, at
  <2>3. f \in 1..Len(t) /\ at \in 0..Len(t)
    BY <1>1, <2>1, <2>2
  <2>4. \A k \in 1..Len(t) : (k <= at => k \notin greater) /\ (k = at + 1 => k \in greater)
    BY <1>1, <2>1, <2>2, <2>3
  <2>5. \A k \in 1..Len(t) : (k <= at => ~(rank[cur] < rank[t[k]])) /\ (k = at + 1 => rank[cur] < rank[t[k]])
    BY <1>2, <2>4
  <2> QED BY <2>3, <2>5 DEF at, greater
<1> QED BY <1>3, <1>4

\* Without its first item the rest is the next rest.
LEMMA RestNext ==
  ASSUME NEW s \in Seq(Item), NEW k \in 1..Len(s)
  PROVE  /\ Rest(s, k - 1) \in Seq(Item) /\ Len(Rest(s, k - 1)) = Len(s) - (k - 1)
         /\ 1 \in 1..Len(Rest(s, k - 1)) /\ Rest(s, k - 1)[1] = s[k]
         /\ Drop(Rest(s, k - 1), 1) = Rest(s, k)
<1> DEFINE n == Len(s)
           r == Rest(s, k - 1)
           d == Drop(r, 1)
<1>1. n \in Nat /\ k \in 1..n /\ \A j \in 1..n : s[j] \in Item
  OBVIOUS
<1>2. \A j \in 1..(n - (k - 1)) : j + (k - 1) \in 1..n
  BY <1>1
<1>3. r \in Seq(Item) /\ Len(r) = n - (k - 1) /\ \A j \in 1..(n - (k - 1)) : r[j] = s[j + (k - 1)]
  BY <1>1, <1>2 DEF Rest
<1> HIDE DEF r, n
<1>4. 1 \in 1..Len(r) /\ r[1] = s[k]
  <2>1. 1 \in 1..(n - (k - 1)) /\ 1 + (k - 1) = k
    BY <1>1
  <2> QED BY <1>3, <2>1
<1>5. d \in Seq(Item) /\ DOMAIN d = 1..(n - k) /\ \A j \in 1..(n - k) : d[j] = r[j + 1]
  <2>1. 1 \in DOMAIN r /\ Len(r) - 1 = n - k
    BY <1>1, <1>3, <1>4
  <2>2. DOMAIN d = 1..(n - k) /\ \A j \in 1..(n - k) : d[j] = r[IF j < 1 THEN j ELSE j + 1]
    BY <1>3, <2>1, DropIndex
  <2>3. d \in Seq(Item)
    BY <1>3, <2>1, DropIndex
  <2> HIDE DEF d
  <2> QED BY <1>1, <2>2, <2>3
<1>6. ASSUME NEW j \in 1..(n - k) PROVE d[j] = s[j + k]
  <2>1. j + 1 \in 1..(n - (k - 1)) /\ (j + 1) + (k - 1) = j + k
    BY <1>1
  <2>2. d[j] = r[j + 1]
    BY <1>5
  <2>3. r[j + 1] = s[(j + 1) + (k - 1)]
    BY <1>3, <2>1
  <2> QED BY <2>1, <2>2, <2>3
<1>7. d = [j \in 1..(n - k) |-> s[j + k]]
  <2> HIDE DEF d
  <2>1. d = [j \in 1..(n - k) |-> d[j]]
    BY <1>5
  <2> QED BY <1>6, <2>1
<1>8. d = Rest(s, k)
  BY <1>7 DEF Rest, n
<1> QED BY <1>3, <1>4, <1>8 DEF r, n

\* The order with the k-th where it goes is an order of k.
LEMMA OrderNext ==
  ASSUME NEW s \in Seq(Item), NEW k \in 1..Len(s), NEW o \in [1..(k - 1) -> 1..(k - 1)], Ranked(s, o, k - 1),
         NEW at \in 0..(k - 1),
         \A a \in 1..(k - 1) : /\ a <= at => ~(rank[s[k]] < rank[s[o[a]]])
                               /\ a = at + 1 => rank[s[k]] < rank[s[o[a]]]
  PROVE  \E p \in [1..k -> 1..k] :
           Ranked(s, p, k) /\ Picked(s, p, k) = InsertAt(Picked(s, o, k - 1), at + 1, s[k])
<1> DEFINE n == Len(s)
           t == Picked(s, o, k - 1)
           u == InsertAt(t, at + 1, s[k])
           p == [a \in 1..k |-> IF a <= at THEN o[a] ELSE IF a = at + 1 THEN k ELSE o[a - 1]]
<1>1. n \in Nat /\ k \in 1..n /\ k - 1 \in Nat /\ \A a \in 1..n : s[a] \in Item /\ rank[s[a]] \in Int
  BY ListsAssumption
<1>2. \A a \in 1..(k - 1) : o[a] \in 1..(k - 1) /\ o[a] \in 1..n /\ o[a] \in 1..k /\ o[a] < k
  BY <1>1
<1>3. ASSUME NEW a \in 1..k
      PROVE  /\ a <= at => a \in 1..(k - 1) /\ p[a] = o[a]
             /\ a = at + 1 => p[a] = k
             /\ a > at + 1 => a - 1 \in 1..(k - 1) /\ p[a] = o[a - 1]
             /\ a <= at \/ a = at + 1 \/ a > at + 1
  <2>1. a <= at => a \in 1..(k - 1)
    BY <1>1
  <2>2. a > at + 1 => a - 1 \in 1..(k - 1) /\ ~(a <= at) /\ a # at + 1
    BY <1>1
  <2>3. a = at + 1 => ~(a <= at)
    BY <1>1
  <2>4. a <= at \/ a = at + 1 \/ a > at + 1
    BY <1>1
  <2>5. p[a] = IF a <= at THEN o[a] ELSE IF a = at + 1 THEN k ELSE o[a - 1]
    OBVIOUS
  <2> HIDE DEF p
  <2> QED BY <2>1, <2>2, <2>3, <2>4, <2>5
<1>4. p \in [1..k -> 1..k]
  <2>1. \A a \in 1..k : p[a] \in 1..k
    <3> SUFFICES ASSUME NEW a \in 1..k PROVE p[a] \in 1..k
      OBVIOUS
    <3> HIDE DEF p
    <3>1. k \in 1..k
      BY <1>1
    <3> QED BY <1>2, <1>3, <3>1
  <2>2. p = [a \in 1..k |-> p[a]]
    OBVIOUS
  <2> HIDE DEF p
  <2> QED BY <2>1, <2>2
<1> HIDE DEF p, n
<1>5. \A a, b \in 1..(k - 1) : a < b => rank[s[o[a]]] < rank[s[o[b]]] \/ (rank[s[o[a]]] = rank[s[o[b]]] /\ o[a] < o[b])
  BY DEF Ranked, Abstract!Before
<1>6. \A a \in 1..(k - 1) : a > at => rank[s[k]] < rank[s[o[a]]]
  <2> SUFFICES ASSUME NEW a \in 1..(k - 1), a > at PROVE rank[s[k]] < rank[s[o[a]]]
    OBVIOUS
  <2>1. at + 1 \in 1..(k - 1) /\ (at + 1 < a \/ at + 1 = a)
    BY <1>1
  <2>2. rank[s[k]] < rank[s[o[at + 1]]]
    BY <2>1
  <2>3. at + 1 < a => \/ rank[s[o[at + 1]]] < rank[s[o[a]]]
                      \/ rank[s[o[at + 1]]] = rank[s[o[a]]]
    BY <1>5, <2>1
  <2>4. rank[s[o[at + 1]]] \in Int /\ rank[s[o[a]]] \in Int /\ rank[s[k]] \in Int
    <3>1. o[at + 1] \in 1..n /\ o[a] \in 1..n
      BY <1>2, <2>1
    <3> QED BY <1>1, <3>1
  <2>5. CASE at + 1 = a
    BY <2>2, <2>5
  <2>6. CASE at + 1 < a
    <3> DEFINE x == rank[s[k]]
               y == rank[s[o[at + 1]]]
               z == rank[s[o[a]]]
    <3>1. x \in Int /\ y \in Int /\ z \in Int /\ x < y /\ (y < z \/ y = z)
      BY <2>2, <2>3, <2>4, <2>6
    <3> HIDE DEF x, y, z
    <3>2. x < z
      BY ONLY <3>1
    <3> QED BY <3>2 DEF x, z
  <2> QED BY <2>1, <2>5, <2>6
<1>7. Ranked(s, p, k)
  <2> SUFFICES ASSUME NEW a \in 1..k, NEW b \in 1..k, a < b
               PROVE  rank[s[p[a]]] < rank[s[p[b]]] \/ (rank[s[p[a]]] = rank[s[p[b]]] /\ p[a] < p[b])
    BY DEF Ranked, Abstract!Before
  <2>1. CASE a <= at /\ b <= at
    <3>1. a \in 1..(k - 1) /\ p[a] = o[a] /\ b \in 1..(k - 1) /\ p[b] = o[b]
      BY <1>3, <2>1
    <3>2. rank[s[o[a]]] < rank[s[o[b]]] \/ (rank[s[o[a]]] = rank[s[o[b]]] /\ o[a] < o[b])
      BY <1>5, <3>1
    <3> QED BY <3>1, <3>2
  <2>2. CASE a <= at /\ b = at + 1
    <3>1. a \in 1..(k - 1) /\ p[a] = o[a] /\ p[b] = k
      BY <1>3, <2>2
    <3>2. ~(rank[s[k]] < rank[s[o[a]]]) /\ o[a] < k
      BY <1>2, <2>2, <3>1
    <3>3. rank[s[k]] \in Int /\ rank[s[o[a]]] \in Int
      BY <1>1, <1>2, <3>1
    <3> QED BY <3>1, <3>2, <3>3
  <2>3. CASE a <= at /\ b > at + 1
    <3>1. a < b - 1
      BY <1>1, <2>3
    <3>2. a \in 1..(k - 1) /\ p[a] = o[a] /\ b - 1 \in 1..(k - 1) /\ p[b] = o[b - 1]
      BY <1>3, <2>3
    <3>3. rank[s[o[a]]] < rank[s[o[b - 1]]] \/ (rank[s[o[a]]] = rank[s[o[b - 1]]] /\ o[a] < o[b - 1])
      BY <1>5, <3>1, <3>2
    <3> QED BY <3>2, <3>3
  <2>4. CASE a = at + 1 /\ b > at + 1
    <3>1. b - 1 > at
      BY <1>1, <2>4
    <3>2. p[a] = k /\ b - 1 \in 1..(k - 1) /\ p[b] = o[b - 1]
      BY <1>3, <2>4
    <3> QED BY <1>6, <3>1, <3>2
  <2>5. CASE a > at + 1 /\ b > at + 1
    <3>1. a - 1 < b - 1
      BY <1>1
    <3>2. a - 1 \in 1..(k - 1) /\ p[a] = o[a - 1] /\ b - 1 \in 1..(k - 1) /\ p[b] = o[b - 1]
      BY <1>3, <2>5
    <3>3. \/ rank[s[o[a - 1]]] < rank[s[o[b - 1]]]
          \/ rank[s[o[a - 1]]] = rank[s[o[b - 1]]] /\ o[a - 1] < o[b - 1]
      BY <1>5, <3>1, <3>2
    <3> QED BY <3>2, <3>3
  <2>6. \/ a <= at /\ b <= at
        \/ a <= at /\ b = at + 1
        \/ a <= at /\ b > at + 1
        \/ a = at + 1 /\ b > at + 1
        \/ a > at + 1 /\ b > at + 1
    <3>1. a \in Int /\ b \in Int /\ at \in Int /\ a < b
      BY <1>1
    <3> QED BY ONLY <3>1
  <2> QED BY <2>1, <2>2, <2>3, <2>4, <2>5, <2>6
<1>8. t \in Seq(Item) /\ Len(t) = k - 1 /\ \A a \in 1..(k - 1) : t[a] = s[o[a]]
  BY <1>1, <1>2 DEF Picked
<1>13. u \in Seq(Item)
  <2>1. at + 1 \in 1..(Len(t) + 1) /\ s[k] \in Item
    BY <1>1, <1>8
  <2> HIDE DEF t
  <2> QED BY <1>8, <2>1, InsertIndex
<1>9. DOMAIN u = 1..k /\ \A a \in 1..k : u[a] = IF a < at + 1 THEN t[a] ELSE IF a = at + 1 THEN s[k] ELSE t[a - 1]
  <2>1. at + 1 \in 1..(Len(t) + 1) /\ s[k] \in Item /\ Len(t) + 1 = k
    BY <1>1, <1>8
  <2> DEFINE m == at + 1
             x == s[k]
  <2>2. m \in 1..(Len(t) + 1) /\ x \in Item
    BY <2>1
  <2> HIDE DEF t, m, x
  <2>6. t \in Seq(Item)
    BY <1>8
  <2>7. \A q \in Seq(Item) : \A b \in 1..(Len(q) + 1), y \in Item :
          DOMAIN InsertAt(q, b, y) = 1..(Len(q) + 1) /\ \A a \in 1..(Len(q) + 1) :
            InsertAt(q, b, y)[a] = IF a < b THEN q[a] ELSE IF a = b THEN y ELSE q[a - 1]
    BY InsertIndex
  <2>3. DOMAIN InsertAt(t, m, x) = 1..(Len(t) + 1) /\ \A a \in 1..(Len(t) + 1) :
          InsertAt(t, m, x)[a] = IF a < m THEN t[a] ELSE IF a = m THEN x ELSE t[a - 1]
    BY ONLY <2>2, <2>6, <2>7
  <2>4. DOMAIN u = 1..(Len(t) + 1) /\ \A a \in 1..(Len(t) + 1) :
          u[a] = IF a < m THEN t[a] ELSE IF a = m THEN x ELSE t[a - 1]
    BY <2>3 DEF m, x
  <2> HIDE DEF u
  <2>5. DOMAIN u = 1..k /\ \A a \in 1..k : u[a] = IF a < m THEN t[a] ELSE IF a = m THEN x ELSE t[a - 1]
    BY <2>1, <2>4
  <2> QED BY <2>5 DEF m, x
<1> HIDE DEF t, u
<1>10. \A a \in 1..k : u[a] = s[p[a]]
  <2> SUFFICES ASSUME NEW a \in 1..k PROVE u[a] = s[p[a]]
    OBVIOUS
  <2>1. CASE a <= at
    <3>1. a < at + 1
      BY <1>1, <2>1
    <3> QED BY <1>3, <1>8, <1>9, <2>1, <3>1
  <2>2. CASE a = at + 1
    <3>1. ~(a < at + 1)
      BY <1>1, <2>2
    <3> QED BY <1>3, <1>9, <2>2, <3>1
  <2>3. CASE a > at + 1
    <3>1. ~(a < at + 1) /\ a # at + 1
      BY <1>1, <2>3
    <3>2. a - 1 \in 1..(k - 1) /\ p[a] = o[a - 1]
      BY <1>3, <2>3
    <3>3. u[a] = t[a - 1]
      BY <1>9, <3>1
    <3> QED BY <1>8, <3>2, <3>3
  <2> QED BY <1>3, <2>1, <2>2, <2>3
<1>11. u = [a \in 1..k |-> u[a]]
  BY <1>9, <1>13
<1>12. Picked(s, p, k) = u
  BY <1>10, <1>11 DEF Picked
<1> QED BY <1>4, <1>7, <1>12 DEF u, t

\* One item is taken from the list and put where it goes.
LEMMA SortingNext ==
  ASSUME NEW S \in [AllLists -> Seq(Item)], NEW l \in List, NEW k \in 1..Len(S[l]), NEW g, Sorting(S, l, k - 1, g)
  PROVE  Sorting(S, l, k, SortStep(g, l))
<1> DEFINE s == S[l]
           r == Rest(s, k - 1)
           cur == s[k]
<1>1. l \in AllLists /\ Scratch \in AllLists /\ l # Scratch /\ s \in Seq(Item) /\ k \in 1..Len(s) /\ cur \in Item
  <2>1. l \in AllLists /\ Scratch \in AllLists /\ l # Scratch
    BY ListsAssumption DEF AllLists
  <2>2. s \in Seq(Item) /\ k \in 1..Len(s)
    BY <2>1
  <2> HIDE DEF s
  <2> QED BY <2>1, <2>2
<1> HIDE DEF s
<1>2. PICK o \in [1..(k - 1) -> 1..(k - 1)] :
        /\ Ranked(s, o, k - 1)
        /\ Holds(g, [S EXCEPT ![l] = r, ![Scratch] = Picked(s, o, k - 1)])
  BY DEF Sorting, s
<1> DEFINE t == Picked(s, o, k - 1)
           T == [S EXCEPT ![l] = r, ![Scratch] = t]
<1>3. /\ r \in Seq(Item) /\ 1 \in 1..Len(r) /\ r[1] = cur /\ Drop(r, 1) = Rest(s, k)
  BY <1>1, RestNext
<1> HIDE DEF r, cur
<1>4. Holds(g, T) /\ T[l] = r /\ T[Scratch] = t
  <2> HIDE DEF t
  <2>1. T[l] = r /\ T[Scratch] = t
    BY <1>1
  <2> QED BY <1>2, <2>1 DEF t
<1> HIDE DEF T, t
<1> DEFINE U == [T EXCEPT ![l] = Drop(@, 1)]
           rest == irlist_remove(g, l, cur)
<1>5. g.head[l] = cur
  <2>1. g.head[l] = ItemAt(r, 1)
    BY <1>1, <1>4, HoldsFacts
  <2> QED BY <1>3, <2>1 DEF ItemAt
<1>6. Holds(rest, U)
  BY <1>1, <1>3, <1>4, RemovedItem
<1>7. U[Scratch] = t /\ U[l] = Rest(s, k) /\ \A m \in AllLists \ {l} : U[m] = T[m]
  <2>1. T \in [AllLists -> Seq(Item)]
    BY <1>4 DEF Holds
  <2> QED BY <1>1, <1>3, <1>4, <2>1
<1>8. t \in Seq(Item) /\ Len(t) = k - 1 /\ DOMAIN t = 1..(k - 1) /\ k - 1 \in Nat
  <2>1. t \in Seq(Item) /\ DOMAIN t = 1..(k - 1) /\ k - 1 \in Nat
    <3>1. t \in Seq(Item)
      BY <1>1, <1>4, HoldsFacts
    <3> QED BY <1>1, <3>1 DEF t, Picked
  <2> QED BY <2>1
<1> HIDE DEF U, rest
<1>9. Chain(rest, Scratch) = t
  BY <1>1, <1>6, <1>7, ChainIs
<1>10. Nowhere(U, cur)
  <2>1. \A m \in AllLists : DOMAIN U[m] = 1..Len(U[m])
    BY <1>6, HoldsFacts
  <2> SUFFICES ASSUME NEW m \in AllLists, NEW a \in 1..Len(U[m]) PROVE U[m][a] # cur
    BY <2>1, NowhereIs
  <2>2. CASE m = l
    <3>1. U[m] = Drop(r, 1) /\ 1 \in DOMAIN r
      BY <1>3, <1>7, <2>2
    <3>2. /\ Len(Drop(r, 1)) = Len(r) - 1 /\ Len(r) \in Nat
          /\ \A b \in 1..(Len(r) - 1) : Drop(r, 1)[b] = r[IF b < 1 THEN b ELSE b + 1]
      BY <1>3, <3>1, DropIndex
    <3>3. a \in 1..(Len(r) - 1) /\ ~(a < 1) /\ a + 1 \in 1..Len(r) /\ a + 1 # 1
      BY <3>1, <3>2
    <3>4. U[m][a] = r[a + 1]
      BY <3>1, <3>2, <3>3
    <3>5. r[a + 1] # r[1]
      BY <1>1, <1>3, <1>4, <3>3, HoldsFacts
    <3> QED BY <1>3, <3>4, <3>5
  <2>3. CASE m # l
    <3>1. U[m] = T[m]
      BY <1>7, <2>3
    <3>2. T[m][a] # T[l][1]
      BY <1>1, <1>3, <1>4, <2>3, <3>1, HoldsFacts
    <3> QED BY <1>3, <1>4, <3>1, <3>2
  <2> QED BY <2>2, <2>3
<1> DEFINE greater == {a \in DOMAIN t : rank[cur] < rank[t[a]]}
           at == IF greater = {} THEN Len(t) ELSE First(greater) - 1
<1>11. at \in 0..(k - 1) /\ \A a \in 1..(k - 1) :
         (a <= at => ~(rank[cur] < rank[t[a]])) /\ (a = at + 1 => rank[cur] < rank[t[a]])
  <2>1. cur \in Item
    BY <1>1 DEF cur
  <2> HIDE DEF greater, at
  <2>2. at \in 0..Len(t) /\ \A a \in 1..Len(t) :
          (a <= at => ~(rank[cur] < rank[t[a]])) /\ (a = at + 1 => rank[cur] < rank[t[a]])
    BY <1>8, <2>1, SortPlace DEF greater, at
  <2> QED BY <1>8, <2>2
<1>12. SortStep(g, l) = IF at = 0 THEN irlist_insert_head(rest, Scratch, cur)
                        ELSE irlist_insert_after(rest, Scratch, cur, t[at])
  BY <1>5, <1>9 DEF SortStep, rest
<1> HIDE DEF greater, at
<1> DEFINE W == [U EXCEPT ![Scratch] = InsertAt(t, at + 1, cur)]
<1>13. Holds(SortStep(g, l), W)
  <2>1. cur \in Item
    BY <1>1 DEF cur
  <2>2. CASE at = 0
    <3>1. at + 1 = 1
      BY <2>2
    <3>2. Holds(irlist_insert_head(rest, Scratch, cur), [U EXCEPT ![Scratch] = InsertAt(@, 1, cur)])
      BY <1>1, <1>6, <1>10, <2>1, InsertedHead
    <3> QED BY <1>7, <1>12, <2>2, <3>1, <3>2
  <2>3. CASE at # 0
    <3>1. at \in 1..Len(U[Scratch])
      BY <1>7, <1>8, <1>11, <2>3
    <3>2. Holds(irlist_insert_after(rest, Scratch, cur, U[Scratch][at]), [U EXCEPT ![Scratch] = InsertAt(@, at + 1, cur)])
      BY <1>1, <1>6, <1>10, <2>1, <3>1, InsertedAfter
    <3> QED BY <1>7, <1>12, <2>3, <3>2
  <2> QED BY <2>2, <2>3
<1>14. PICK p \in [1..k -> 1..k] : Ranked(s, p, k) /\ Picked(s, p, k) = InsertAt(t, at + 1, cur)
  <2>1. \A a \in 1..(k - 1) : t[a] = s[o[a]]
    BY DEF t, Picked
  <2>2. \A a \in 1..(k - 1) : /\ a <= at => ~(rank[s[k]] < rank[s[o[a]]])
                              /\ a = at + 1 => rank[s[k]] < rank[s[o[a]]]
    BY <1>11, <2>1 DEF cur
  <2>3. \E p \in [1..k -> 1..k] : Ranked(s, p, k) /\ Picked(s, p, k) = InsertAt(Picked(s, o, k - 1), at + 1, s[k])
    BY <1>1, <1>2, <1>11, <2>2, OrderNext
  <2> QED BY <2>3 DEF t, cur
<1>15. W = [S EXCEPT ![l] = Rest(s, k), ![Scratch] = Picked(s, p, k)]
  <2> DEFINE x == Rest(s, k)
             y == Picked(s, p, k)
             d == Drop(r, 1)
  <2>1. W = [U EXCEPT ![Scratch] = y]
    BY <1>14
  <2>2. U = [T EXCEPT ![l] = d]
    BY <1>4 DEF U
  <2>3. d = x
    BY <1>3
  <2> HIDE DEF x, y, d, W
  <2>4. W = [[[S EXCEPT ![l] = r, ![Scratch] = t] EXCEPT ![l] = x] EXCEPT ![Scratch] = y]
    BY <2>1, <2>2, <2>3 DEF T
  <2>5. [[[S EXCEPT ![l] = r, ![Scratch] = t] EXCEPT ![l] = x] EXCEPT ![Scratch] = y]
        = [S EXCEPT ![l] = x, ![Scratch] = y]
    BY <1>1
  <2> QED BY <2>4, <2>5 DEF x, y
<1> HIDE DEF W
<1> QED BY <1>13, <1>14, <1>15 DEF Sorting, s

\* irlist_sort2 has nothing taken at first, and all in the end.
LEMMA SortingEnds ==
  ASSUME NEW S \in [AllLists -> Seq(Item)], S[Scratch] = <<>>, NEW l \in List
  PROVE  /\ \A h : Holds(h, S) => Sorting(S, l, 0, h)
         /\ \A g : Sorting(S, l, Len(S[l]), g) =>
              \E o \in [1..Len(S[l]) -> 1..Len(S[l])] :
                 /\ Ranked(S[l], o, Len(S[l]))
                 /\ Holds(irlist_move(g, l, Scratch), [S EXCEPT ![l] = Picked(S[l], o, Len(S[l]))])
<1> DEFINE s == S[l]
           n == Len(s)
<1>1. l \in AllLists /\ Scratch \in AllLists /\ l # Scratch /\ s \in Seq(Item) /\ n \in Nat
  <2>1. l \in AllLists /\ Scratch \in AllLists /\ l # Scratch
    BY ListsAssumption DEF AllLists
  <2>2. s \in Seq(Item)
    BY <2>1
  <2> HIDE DEF s
  <2> QED BY <2>1, <2>2
<1>2. 1..0 = {} /\ 1..(n - n) = {}
  BY <1>1
<1>3. \A e : [j \in {} |-> e[j]] = <<>>
  OBVIOUS
<1> HIDE DEF s
<1>4. Rest(s, n) = <<>>
  BY <1>2 DEF Rest, n
<1>5. Rest(s, 0) = s
  <2>1. n - 0 = n /\ \A j \in 1..n : j + 0 = j
    BY <1>1
  <2>2. s = [j \in 1..n |-> s[j]]
    BY <1>1
  <2>3. Rest(s, 0) = [j \in 1..n |-> s[j]]
    BY <2>1 DEF Rest, n
  <2> QED BY <2>2, <2>3
<1>6. ASSUME NEW h, Holds(h, S) PROVE Sorting(S, l, 0, h)
  <2> DEFINE o == [j \in 1..0 |-> j]
  <2>1. o \in [1..0 -> 1..0]
    OBVIOUS
  <2>2. Ranked(s, o, 0)
    BY <1>2 DEF Ranked
  <2>3. Picked(s, o, 0) = <<>>
    BY <1>2 DEF Picked
  <2>4. [S EXCEPT ![l] = Rest(s, 0), ![Scratch] = Picked(s, o, 0)] = S
    <3>1. [S EXCEPT ![l] = s, ![Scratch] = <<>>] = S
      BY <1>1 DEF s
    <3> QED BY <1>5, <2>3, <3>1
  <2>5. Holds(h, [S EXCEPT ![l] = Rest(s, 0), ![Scratch] = Picked(s, o, 0)])
    BY <1>6, <2>4
  <2> HIDE DEF o
  <2> QED BY <2>1, <2>2, <2>5 DEF Sorting, s
<1>7. ASSUME NEW g, Sorting(S, l, n, g)
      PROVE  \E o \in [1..n -> 1..n] :
               Ranked(s, o, n) /\ Holds(irlist_move(g, l, Scratch), [S EXCEPT ![l] = Picked(s, o, n)])
  <2>1. PICK o \in [1..n -> 1..n] :
          Ranked(s, o, n) /\ Holds(g, [S EXCEPT ![l] = Rest(s, n), ![Scratch] = Picked(s, o, n)])
    BY <1>7 DEF Sorting, s
  <2> DEFINE p == Picked(s, o, n)
             T == [S EXCEPT ![l] = <<>>, ![Scratch] = p]
  <2>2. Holds(g, T)
    BY <1>4, <2>1
  <2> HIDE DEF p, n
  <2>3. T[l] = <<>> /\ T[Scratch] = p /\ [T EXCEPT ![l] = T[Scratch], ![Scratch] = <<>>] = [S EXCEPT ![l] = p]
    BY <1>1
  <2> HIDE DEF T
  <2>4. Holds(irlist_move(g, l, Scratch), [T EXCEPT ![l] = T[Scratch], ![Scratch] = <<>>])
    BY <1>1, <2>2, <2>3, MovedItems
  <2>5. Holds(irlist_move(g, l, Scratch), [S EXCEPT ![l] = p])
    BY <2>3, <2>4
  <2> QED BY <2>1, <2>5 DEF p
<1> QED BY <1>6, <1>7 DEF n, s

\* irlist_sort2 puts the items in order.
LEMMA SortedItems ==
  ASSUME NEW h, NEW S, Holds(h, S), S[Scratch] = <<>>, NEW l \in List
  PROVE  \E o \in [1..Len(S[l]) -> 1..Len(S[l])] :
           /\ Ranked(S[l], o, Len(S[l]))
           /\ Holds(irlist_sort2(h, l), [S EXCEPT ![l] = Picked(S[l], o, Len(S[l]))])
<1> DEFINE N == Len(S[l])
           Is(f) == f = [k \in 0..N |-> IF k = 0 THEN h ELSE SortStep(f[k - 1], l)]
           V == CHOOSE f : Is(f)
           D == [k \in 1..N |-> [v \in Heaps |-> IF SortStep(v, l) \in Heaps THEN SortStep(v, l) ELSE v]]
<1>1. N \in Nat /\ h.size[l] = N /\ h \in Heaps /\ S \in [AllLists -> Seq(Item)] /\ l \in AllLists
  <2>1. l \in AllLists
    BY DEF AllLists
  <2> QED BY <2>1, HoldsFacts DEF Holds
<1>2. irlist_sort2(h, l) = irlist_move(V[N], l, Scratch)
  BY <1>1 DEF irlist_sort2
<1>3. \A v : v \in Heaps => D \in StepsOf(N, Heaps) /\ \A k \in 1..N :
                             D[k][v] = IF SortStep(v, l) \in Heaps THEN SortStep(v, l) ELSE v
  BY DEF StepsOf
<1> HIDE DEF D
<1>4. Made(N, Heaps, h, D)
  <2> HIDE DEF N
  <2> QED BY <1>1, <1>3, Iterated
<1>5. PICK f \in [0..N -> Heaps] : f[0] = h /\ \A k \in 1..N : f[k] = D[k][f[k - 1]]
  BY <1>4 DEF Made
<1>6. \A k, g : Sorting(S, l, k, g) => g \in Heaps
  BY DEF Sorting, Holds
<1>7. ASSUME NEW k \in 1..N, Sorting(S, l, k - 1, f[k - 1])
      PROVE  f[k] = SortStep(f[k - 1], l) /\ Sorting(S, l, k, f[k])
  <2> DEFINE v == f[k - 1]
             w == SortStep(v, l)
  <2>1. v \in Heaps
    BY <1>6, <1>7
  <2>2. Sorting(S, l, k, w)
    BY <1>1, <1>7, SortingNext
  <2> HIDE DEF w
  <2>3. f[k] = D[k][v]
    BY <1>5
  <2> HIDE DEF v
  <2>4. f[k] = w
    BY <1>3, <1>6, <2>1, <2>2, <2>3 DEF w
  <2> QED BY <2>2, <2>4 DEF w, v
<1>8. Sorting(S, l, 0, f[0])
  BY <1>1, <1>5, SortingEnds
<1> HIDE DEF N
<1>9. \A k \in 0..N : Sorting(S, l, k, f[k])
  <2> DEFINE P == {k \in 0..N : Sorting(S, l, k, f[k])}
  <2>1. 0 \in P
    BY <1>1, <1>8
  <2>2. ASSUME NEW k \in 1..N, k - 1 \in P PROVE k \in P
    <3>1. k \in 0..N
      BY <1>1
    <3> QED BY <1>7, <2>2, <3>1
  <2>3. 0..N \subseteq P
    <3> HIDE DEF P
    <3> QED BY <1>1, <2>1, <2>2, Climb
  <2> QED BY <2>3
<1>10. \A k \in 1..N : k - 1 \in 0..N /\ k \in 0..N /\ k # 0 /\ f[k] = SortStep(f[k - 1], l)
  <2>1. \A k \in 1..N : k - 1 \in 0..N /\ k \in 0..N /\ k # 0
    BY <1>1
  <2> QED BY <1>7, <1>9, <2>1
<1>11. \E g : Is(g)
  <2>1. \A k \in 0..N : k # 0 => k \in 1..N
    BY <1>1
  <2>2. \A k \in 0..N : f[k] = IF k = 0 THEN h ELSE SortStep(f[k - 1], l)
    BY <1>5, <1>10, <2>1
  <2>3. f = [k \in 0..N |-> f[k]]
    BY <1>5
  <2>4. Is(f)
    BY <2>2, <2>3
  <2> QED BY <2>4
<1>12. Is(V)
  <2> HIDE DEF Is
  <2> QED BY <1>11
<1> HIDE DEF V
<1>13. V[0] = h /\ \A k \in 1..N : V[k] = SortStep(V[k - 1], l)
  <2>1. V = [k \in 0..N |-> IF k = 0 THEN h ELSE SortStep(V[k - 1], l)]
    BY <1>12
  <2> HIDE DEF Is
  <2>2. 0 \in 0..N
    BY <1>1
  <2> QED BY <1>10, <2>1, <2>2
<1>14. V[N] = f[N]
  <2> HIDE DEF Is
  <2> DEFINE P == {k \in 0..N : V[k] = f[k]}
  <2>1. 0 \in P
    BY <1>1, <1>5, <1>13
  <2>2. ASSUME NEW k \in 1..N, k - 1 \in P PROVE k \in P
    BY <1>10, <1>13, <2>2
  <2>3. 0..N \subseteq P
    <3> HIDE DEF P
    <3> QED BY <1>1, <2>1, <2>2, Climb
  <2> QED BY <1>1, <2>3
<1>15. Sorting(S, l, N, f[N])
  BY <1>1, <1>9
<1>16. irlist_sort2(h, l) = irlist_move(f[N], l, Scratch)
  BY <1>2, <1>14
<1>17. \A g : Sorting(S, l, Len(S[l]), g) =>
         \E o \in [1..Len(S[l]) -> 1..Len(S[l])] :
            /\ Ranked(S[l], o, Len(S[l]))
            /\ Holds(irlist_move(g, l, Scratch), [S EXCEPT ![l] = Picked(S[l], o, Len(S[l]))])
  BY <1>1, SortingEnds
<1>18. Sorting(S, l, Len(S[l]), f[N])
  BY <1>15 DEF N
<1> QED BY <1>16, <1>17, <1>18
-----------------------------------------------------------------------------
(* LinkedList implements Lists *)

\* The sequences of the model are those that the heap holds.
LEMMA ChainsAre ==
  /\ \A S : Holds(heap, S) => Chains = [l \in List |-> S[l]]
  /\ \A S : Holds(heap', S) => Chains' = [l \in List |-> S[l]]
<1>1. \A h, S : Holds(h, S) => \A l \in List : Chain(h, l) = S[l]
  BY ChainIs DEF AllLists
<1> QED BY <1>1 DEF Chains

\* What Lists says of sequences is what Queues says.
LEMMA SameOperators ==
  /\ \A q, n, x : Abstract!InsertAt(q, n, x) = InsertAt(q, n, x)
  /\ \A q, gone : Abstract!Purge(q, gone) = Purge(q, gone)
  /\ \A q : Abstract!Elems(q) = Elems(q)
<1>1. \A q, n, x : Abstract!InsertAt(q, n, x) = InsertAt(q, n, x)
  BY DEF InsertAt, Abstract!InsertAt
<1>2. \A q, gone : Abstract!Purge(q, gone) = Purge(q, gone)
  <2>0. \A K : Abstract!Cardinality(K) = Cardinality(K)
    BY DEF Cardinality, Abstract!Cardinality
  <2>1. \A K, j : Abstract!Nth(K, j) = Nth(K, j)
    BY <2>0 DEF Nth, Abstract!Nth
  <2>2. \A q, K : Abstract!Keep(q, K) = Keep(q, K)
    BY <2>0, <2>1 DEF Keep, Abstract!Keep
  <2> QED BY <2>2 DEF Purge, Abstract!Purge
<1>3. \A q : Abstract!Elems(q) = Elems(q)
  BY DEF Elems, Abstract!Elems
<1> QED BY <1>1, <1>2, <1>3

\* At first the lists are empty.
LEMMA HeapInitInv ==
  ASSUME HeapInit
  PROVE  HeapInv /\ Abstract!ListsInit
<1> DEFINE S == [l \in AllLists |-> <<>>]
<1>1. S \in [AllLists -> Seq(Item)] /\ Apart(S)
  BY DEF Apart
<1>2. /\ heap.next = [i \in Item |-> NoItem] /\ heap.head = [l \in AllLists |-> NoItem]
      /\ heap.tail = [l \in AllLists |-> NoItem] /\ heap.size = [l \in AllLists |-> 0]
      /\ heap \in Heaps
  BY DEF HeapInit, Heaps, AllLists, ItemOrNone
<1>3. Len(<<>>) = 0 /\ DOMAIN <<>> = {} /\ \A k : ItemAt(<<>>, k) = NoItem
  BY DEF ItemAt
<1>4. /\ \A l \in AllLists :
           /\ heap.head[l] = ItemAt(S[l], 1) /\ heap.tail[l] = ItemAt(S[l], Len(S[l])) /\ heap.size[l] = Len(S[l])
           /\ \A k \in DOMAIN S[l] : heap.next[S[l][k]] = ItemAt(S[l], k + 1)
      /\ \A i \in Item : heap.next[i] = NoItem
  BY <1>2, <1>3
<1>5. Holds(heap, S)
  <2> HIDE DEF S
  <2> QED BY <1>1, <1>2, <1>4 DEF Holds
<1>6. Scratch \in AllLists /\ S[Scratch] = <<>> /\ \A l \in List : S[l] = <<>>
  BY DEF AllLists
<1> HIDE DEF S
<1>7. Chains = [l \in List |-> S[l]]
  BY <1>5, ChainsAre
<1>8. Abstract!ListsInit
  BY <1>6, <1>7 DEF Abstract!ListsInit
<1> QED BY <1>5, <1>6, <1>8 DEF HeapInv

\* What the lists hold after one of them has changed.
LEMMA OneChanged ==
  ASSUME NEW S, Holds(heap, S), S[Scratch] = <<>>, NEW l \in List, NEW q,
         NEW T, T = [S EXCEPT ![l] = q], Holds(heap', T)
  PROVE  /\ HeapInv' /\ Chains[l] = S[l] /\ Chains' = [Chains EXCEPT ![l] = q]
<1>1. S \in [AllLists -> Seq(Item)] /\ l # Scratch /\ l \in AllLists
  BY ListsAssumption DEF Holds, AllLists
<1>2. T[Scratch] = <<>> /\ T[l] = q /\ \A m \in List \ {l} : T[m] = S[m]
  BY <1>1 DEF AllLists
<1>4. HeapInv'
  BY <1>2 DEF HeapInv
<1>3. Holds(heap, S) /\ Holds(heap', T)
  OBVIOUS
<1>7. Chains = [m \in List |-> S[m]]
  BY ONLY <1>3, ChainsAre
<1>8. Chains' = [m \in List |-> T[m]]
  BY ONLY <1>3, ChainsAre
<1>5. Chains = [m \in List |-> S[m]] /\ Chains' = [m \in List |-> T[m]]
  BY <1>7, <1>8
<1>6. [m \in List |-> T[m]] = [[m \in List |-> S[m]] EXCEPT ![l] = q]
  BY <1>2
<1> QED BY <1>4, <1>5, <1>6

\* An item that is in no list.
LEMMA FreeItem ==
  ASSUME NEW S, Holds(heap, S), S[Scratch] = <<>>, NEW i \in Item, Unlinked(i)
  PROVE  Nowhere(S, i) /\ Abstract!Free(i)
<1>1. \A l \in AllLists : DOMAIN S[l] = 1..Len(S[l])
  BY HoldsFacts
<1>2. ASSUME NEW l \in List PROVE \A k \in 1..Len(S[l]) : S[l][k] # i
  <2>1. l \in AllLists /\ ~In(heap, l, i)
    BY DEF Unlinked, AllLists
  <2> QED BY <2>1, InIs
<1>3. \A k \in 1..Len(S[Scratch]) : S[Scratch][k] # i
  OBVIOUS
<1>4. Nowhere(S, i)
  <2>1. \A l \in AllLists : \A k \in 1..Len(S[l]) : S[l][k] # i
    BY <1>2, <1>3 DEF AllLists
  <2> QED BY <1>1, <2>1, NowhereIs
<1>5. Abstract!Free(i)
  <2>1. Chains = [l \in List |-> S[l]]
    BY ChainsAre
  <2>2. \A l \in List : i \notin Elems(Chains[l])
    BY <1>4, <2>1 DEF Nowhere, AllLists
  <2> QED BY <2>2, SameOperators DEF Abstract!Free
<1> QED BY <1>4, <1>5

\* An item that is inserted is put first, last or after another.
LEMMA InsertStep ==
  ASSUME HeapInv, Insert
  PROVE  HeapInv' /\ Abstract!ListsNext
<1>1. PICK S : Holds(heap, S) /\ S[Scratch] = <<>>
  BY DEF HeapInv
<1>2. PICK l \in List, i \in Item :
        /\ Unlinked(i)
        /\ \/ heap' = irlist_insert_head(heap, l, i)
           \/ heap' = irlist_insert_tail(heap, l, i)
           \/ \E j \in Item : In(heap, l, j) /\ heap' = irlist_insert_after(heap, l, i, j)
  BY DEF Insert
<1>3. l \in AllLists /\ Nowhere(S, i) /\ Abstract!Free(i)
  BY <1>1, <1>2, FreeItem DEF AllLists
<1>4. Chains = [m \in List |-> S[m]] /\ Chains[l] = S[l]
  BY <1>1, ChainsAre
<1>5. ASSUME NEW n, Holds(heap', [S EXCEPT ![l] = InsertAt(S[l], n, i)]) PROVE HeapInv' /\ Abstract!Put(l, i, n)
  <2>1. HeapInv' /\ Chains' = [Chains EXCEPT ![l] = InsertAt(S[l], n, i)]
    <3> DEFINE q == InsertAt(S[l], n, i)
               T == [S EXCEPT ![l] = q]
    <3>1. Holds(heap', T) /\ T = [S EXCEPT ![l] = q]
      BY <1>5
    <3> HIDE DEF q, T
    <3>2. HeapInv' /\ Chains' = [Chains EXCEPT ![l] = q]
      BY <1>1, <3>1, OneChanged
    <3> QED BY <3>2 DEF q
  <2>2. Chains' = [Chains EXCEPT ![l] = Abstract!InsertAt(Chains[l], n, i)]
    BY <1>4, <2>1, SameOperators
  <2> QED BY <1>3, <2>1, <2>2 DEF Abstract!Put
<1>6. CASE heap' = irlist_insert_head(heap, l, i)
  <2>1. Holds(heap', [S EXCEPT ![l] = InsertAt(S[l], 1, i)])
    BY <1>1, <1>3, <1>6, InsertedHead
  <2>2. HeapInv' /\ Abstract!PutFirst(l, i)
    BY <1>5, <2>1 DEF Abstract!PutFirst
  <2> QED BY <2>2 DEF Abstract!ListsNext
<1>7. CASE heap' = irlist_insert_tail(heap, l, i)
  <2>1. Holds(heap', [S EXCEPT ![l] = InsertAt(S[l], Len(S[l]) + 1, i)])
    BY <1>1, <1>3, <1>7, InsertedTail
  <2>2. HeapInv' /\ Abstract!PutLast(l, i)
    BY <1>4, <1>5, <2>1 DEF Abstract!PutLast
  <2> QED BY <2>2 DEF Abstract!ListsNext
<1>8. CASE \E j \in Item : In(heap, l, j) /\ heap' = irlist_insert_after(heap, l, i, j)
  <2>1. PICK j \in Item : In(heap, l, j) /\ heap' = irlist_insert_after(heap, l, i, j)
    BY <1>8
  <2>2. PICK n \in 1..Len(S[l]) : S[l][n] = j
    BY <1>1, <1>3, <2>1, InIs
  <2>3. Holds(heap', [S EXCEPT ![l] = InsertAt(S[l], n + 1, i)])
    BY <1>1, <1>3, <2>1, <2>2, InsertedAfter
  <2>4. HeapInv' /\ Abstract!Put(l, i, n + 1)
    BY <1>5, <2>3
  <2>5. n \in DOMAIN Chains[l] /\ Chains[l][n] = j
    BY <1>1, <1>3, <1>4, <2>2, HoldsFacts
  <2>6. Abstract!PutAfter(l, i, j)
    BY <2>4, <2>5 DEF Abstract!PutAfter
  <2> QED BY <2>4, <2>6 DEF Abstract!ListsNext
<1> QED BY <1>2, <1>6, <1>7, <1>8

\* An item that is removed leaves the others.
LEMMA RemoveStep ==
  ASSUME HeapInv, Remove
  PROVE  HeapInv' /\ Abstract!ListsNext
<1>1. PICK S : Holds(heap, S) /\ S[Scratch] = <<>>
  BY DEF HeapInv
<1>2. PICK l \in List, i \in Item : In(heap, l, i) /\ heap' = irlist_remove(heap, l, i)
  BY DEF Remove
<1>3. l \in AllLists
  BY DEF AllLists
<1>4. PICK n \in 1..Len(S[l]) : S[l][n] = i
  BY <1>1, <1>2, <1>3, InIs
<1>5. Holds(heap', [S EXCEPT ![l] = Drop(S[l], n)])
  BY <1>1, <1>2, <1>3, <1>4, RemovedItem
<1>6. HeapInv' /\ Chains[l] = S[l] /\ Chains' = [Chains EXCEPT ![l] = Drop(S[l], n)]
  <2> DEFINE q == Drop(S[l], n)
             T == [S EXCEPT ![l] = q]
  <2>1. Holds(heap', T) /\ T = [S EXCEPT ![l] = q]
    BY <1>5
  <2> HIDE DEF q, T
  <2>2. HeapInv' /\ Chains[l] = S[l] /\ Chains' = [Chains EXCEPT ![l] = q]
    BY <1>1, <2>1, OneChanged
  <2> QED BY <2>2 DEF q
<1>7. Drop(S[l], n) = Purge(S[l], {i})
  <2>1. \A k \in DOMAIN S[l] : S[l][k] = i <=> k = n
    BY <1>1, <1>3, <1>4, HoldsFacts
  <2>2. DOMAIN S[l] \ {n} = {k \in DOMAIN S[l] : S[l][k] \notin {i}}
    BY <2>1
  <2> QED BY <2>2 DEF Drop, Purge
<1>8. Abstract!Without(l, {i})
  BY <1>6, <1>7, SameOperators DEF Abstract!Without
<1>9. {i} \in SUBSET Item
  OBVIOUS
<1> QED BY <1>6, <1>8, <1>9 DEF Abstract!ListsNext

\* A list that is cleaned is without what is deleted.
LEMMA CleanStep ==
  ASSUME HeapInv, Clean
  PROVE  HeapInv' /\ Abstract!ListsNext
<1>1. PICK S : Holds(heap, S) /\ S[Scratch] = <<>>
  BY DEF HeapInv
<1>2. PICK l \in List, gone \in SUBSET Item : heap' = Cleaned(heap, l, gone)
  BY DEF Clean
<1>3. Holds(heap', [S EXCEPT ![l] = Purge(S[l], gone)])
  <2>1. l \in AllLists
    BY DEF AllLists
  <2> QED BY <1>1, <1>2, <2>1, CleanedItems
<1>4. HeapInv' /\ Chains[l] = S[l] /\ Chains' = [Chains EXCEPT ![l] = Purge(S[l], gone)]
  <2> DEFINE q == Purge(S[l], gone)
             T == [S EXCEPT ![l] = q]
  <2>1. Holds(heap', T) /\ T = [S EXCEPT ![l] = q]
    BY <1>3
  <2> HIDE DEF q, T
  <2>2. HeapInv' /\ Chains[l] = S[l] /\ Chains' = [Chains EXCEPT ![l] = q]
    BY <1>1, <2>1, OneChanged
  <2> QED BY <2>2 DEF q
<1>5. Abstract!Without(l, gone)
  BY <1>4, SameOperators DEF Abstract!Without
<1> QED BY <1>4, <1>5 DEF Abstract!ListsNext

\* A list that is sorted is in order.
LEMMA SortStepIs ==
  ASSUME HeapInv, SortList
  PROVE  HeapInv' /\ Abstract!ListsNext
<1>1. PICK S : Holds(heap, S) /\ S[Scratch] = <<>>
  BY DEF HeapInv
<1>2. PICK l \in List : heap' = irlist_sort2(heap, l)
  BY DEF SortList
<1> DEFINE s == S[l]
           n == Len(s)
<1>3. DOMAIN s = 1..n
  <2>1. l \in AllLists
    BY DEF AllLists
  <2> QED BY <1>1, <2>1, HoldsFacts
<1>4. PICK o \in [1..n -> 1..n] : Ranked(s, o, n) /\ Holds(heap', [S EXCEPT ![l] = Picked(s, o, n)])
  BY <1>1, <1>2, SortedItems
<1>5. HeapInv' /\ Chains[l] = s /\ Chains' = [Chains EXCEPT ![l] = Picked(s, o, n)]
  BY <1>1, <1>4, OneChanged
<1> HIDE DEF s, n
<1>6. o \in [DOMAIN Chains[l] -> DOMAIN Chains[l]] /\ DOMAIN o = 1..n
  BY <1>3, <1>4, <1>5
<1>7. \A j, k \in DOMAIN o : j < k => Abstract!Before(Chains[l], o[j], o[k])
  BY <1>4, <1>5, <1>6 DEF Ranked
<1>8. Chains' = [Chains EXCEPT ![l] = [k \in DOMAIN o |-> Chains[l][o[k]]]]
  BY <1>5, <1>6 DEF Picked
<1>9. Abstract!Sort(l)
  BY <1>6, <1>7, <1>8 DEF Abstract!Sort
<1> QED BY <1>5, <1>9 DEF Abstract!ListsNext

\* A list that is moved is in the place of an empty one.
LEMMA MoveStep ==
  ASSUME HeapInv, MoveList
  PROVE  HeapInv' /\ Abstract!ListsNext
<1>1. PICK S : Holds(heap, S) /\ S[Scratch] = <<>>
  BY DEF HeapInv
<1>2. PICK to \in List, from \in List : heap.size[to] = 0 /\ to # from /\ heap' = irlist_move(heap, to, from)
  BY DEF MoveList
<1>3. to \in AllLists /\ from \in AllLists /\ to # Scratch /\ from # Scratch
  BY ListsAssumption DEF AllLists
<1>4. S[to] = <<>> /\ S \in [AllLists -> Seq(Item)]
  <2>1. S[to] \in Seq(Item) /\ Len(S[to]) = 0
    BY <1>1, <1>2, <1>3, HoldsFacts
  <2> QED BY <1>1, <2>1, EmptySeq DEF Holds
<1> DEFINE T == [S EXCEPT ![to] = S[from], ![from] = <<>>]
<1>5. Holds(heap', T)
  BY <1>1, <1>2, <1>3, <1>4, MovedItems
<1>6. T[Scratch] = <<>> /\ T[to] = S[from] /\ T[from] = <<>> /\ \A m \in List \ {to, from} : T[m] = S[m]
  BY <1>1, <1>2, <1>3, <1>4 DEF AllLists
<1> HIDE DEF T
<1>7. Chains = [m \in List |-> S[m]] /\ Chains' = [m \in List |-> T[m]]
  BY <1>1, <1>5, ChainsAre
<1>8. Chains[to] = <<>> /\ Chains[from] = S[from]
  BY <1>4, <1>7
<1>9. [m \in List |-> T[m]] = [[m \in List |-> S[m]] EXCEPT ![to] = S[from], ![from] = <<>>]
  BY <1>2, <1>6
<1>10. Abstract!Moved(to, from)
  BY <1>7, <1>8, <1>9 DEF Abstract!Moved
<1>11. HeapInv'
  BY <1>5, <1>6 DEF HeapInv
<1> QED BY <1>10, <1>11 DEF Abstract!ListsNext

\* Each call keeps the heap whole and is one of those of Lists.
LEMMA HeapNextInv ==
  ASSUME HeapInv, [HeapNext]_heap
  PROVE  HeapInv' /\ (heap' = heap \/ [Abstract!ListsNext]_Chains)
<1>1. CASE HeapNext
  <2>1. HeapInv' /\ Abstract!ListsNext
    BY <1>1, InsertStep, RemoveStep, CleanStep, SortStepIs, MoveStep DEF HeapNext
  <2> QED BY <2>1
<1>2. CASE heap' = heap
  BY <1>2 DEF HeapInv
<1> QED BY <1>1, <1>2

\* The heap always holds sequences, each item in one place of one at most.
THEOREM HeapInvariant == HeapSpec => []HeapInv
<1>1. HeapInit => HeapInv
  BY HeapInitInv
<1>2. HeapInv /\ [HeapNext]_heap => HeapInv'
  BY HeapNextInv
<1> QED BY <1>1, <1>2, PTL DEF HeapSpec

\* Whatever is called in whatever order, the chains are the sequences that the bot
\* means: an item is in one place, and what is cleaned or sorted is so.
THEOREM LinkedListIsLists == HeapSpec => Sequences
<1>1. HeapInit => Abstract!ListsInit
  BY HeapInitInv
<1>2. HeapInv /\ [HeapNext]_heap => [heap' = heap \/ [Abstract!ListsNext]_Chains]_heap
  BY HeapNextInv
<1> QED BY <1>1, <1>2, HeapInvariant, PTL DEF HeapSpec, Sequences

\* Types and what the functions assert follow.
LEMMA HeapInvAsserted ==
  ASSUME HeapInv
  PROVE  HeapTypeOK /\ Asserted
<1>1. PICK S : Holds(heap, S) /\ S[Scratch] = <<>>
  BY DEF HeapInv
<1>2. ASSUME NEW l \in AllLists
      PROVE  heap.size[l] \in 0..Cardinality(Item)
  <2>1. heap.size[l] = Len(S[l]) /\ Len(S[l]) \in Nat
    BY <1>1, HoldsFacts
  <2>2. Len(S[l]) <= Cardinality(Item) /\ Cardinality(Item) \in Nat
    BY <1>1, ChainFits DEF Holds
  <2> QED BY <2>1, <2>2
<1>3. HeapTypeOK
  <2>1. /\ heap.next \in [Item -> ItemOrNone] /\ heap.head \in [AllLists -> ItemOrNone]
        /\ heap.tail \in [AllLists -> ItemOrNone] /\ heap.size \in [AllLists -> Int]
    BY <1>1, HeapParts
  <2>2. heap.size \in [AllLists -> 0..Cardinality(Item)]
    BY <1>2, <2>1
  <2> QED BY <2>1, <2>2 DEF HeapTypeOK, AllLists, ItemOrNone
<1>4. ASSUME NEW l \in List
      PROVE  LET s == Chain(heap, l)
             IN  heap.size[l] = Len(s) /\ heap.tail[l] = IF s = <<>> THEN NoItem ELSE s[Len(s)]
  <2> DEFINE s == S[l]
  <2>1. l \in AllLists
    BY DEF AllLists
  <2>2. Chain(heap, l) = s /\ s \in Seq(Item) /\ heap.size[l] = Len(s) /\ heap.tail[l] = ItemAt(s, Len(s))
    BY <1>1, <2>1, ChainIs, HoldsFacts
  <2> HIDE DEF s
  <2>3. (s = <<>> => Len(s) \notin 1..Len(s)) /\ (s # <<>> => Len(s) \in 1..Len(s))
    BY <2>2
  <2> QED BY <2>2, <2>3 DEF ItemAt
<1> QED BY <1>3, <1>4 DEF Asserted

\* The ends and the length of a list are always those of its chain.
THEOREM HeapAsserted == HeapSpec => [](HeapTypeOK /\ Asserted)
BY HeapInvariant, HeapInvAsserted, PTL

\* So the linked list is an implementation of the sequences.
THEOREM ListsImplemented == HeapSpec => Abstract!ListsSpec
<1>1. (heap' = heap \/ [Abstract!ListsNext]_Chains) => [Abstract!ListsNext]_Chains
  BY DEF Chains
<1>2. heap' = heap => Chains' = Chains
  BY DEF Chains
<1>3. [heap' = heap \/ [Abstract!ListsNext]_Chains]_heap => [Abstract!ListsNext]_Chains
  BY <1>1, <1>2
<1> QED BY <1>3, LinkedListIsLists, PTL DEF Sequences, Abstract!ListsSpec
=============================================================================
