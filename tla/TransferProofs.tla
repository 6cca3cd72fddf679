-------------------------- MODULE TransferProofs ---------------------------
(***************************************************************************)
(* Theorems about the transfers, for every number of them, of packs and of *)
(* ports, every size of files and of mapped segments.                      *)
(***************************************************************************)
EXTENDS Transfer, QueuesTheorems, FiniteSetTheorems, TLAPS

-----------------------------------------------------------------------------
(* The inductive invariant *)

\* The parts of a state that the helpers map.
Live(s, p) == {i \in DOMAIN s.trans : s.trans[i].pack = p /\ s.trans[i].status # "DONE"}
Readers(s, p, k) == {i \in Live(s, p) : k \in s.trans[i].mmap}

FileRecord(p) == [count : Nat, fd : BOOLEAN, loc : 0..Size[p], pos : 0..Size[p],
                  refs : [Segments(p) -> Nat]]

Typed(s) ==
  /\ s = [trans |-> s.trans, file |-> s.file, ports |-> s.ports]
  /\ s.trans = [i \in DOMAIN s.trans |-> s.trans[i]]
  /\ DOMAIN s.trans \subseteq Id /\ \A i \in DOMAIN s.trans : s.trans[i] \in Record
  /\ s.file = [p \in Pack |-> s.file[p]]
  /\ \A p \in Pack : s.file[p] \in FileRecord(p)
  /\ s.ports \subseteq Port

\* One transfer: how far it is, whatever the others do.
Progress(t) ==
  /\ t.start <= Size[t.pack] /\ t.sent <= Size[t.pack]
  /\ t.status = "WAITING" => t.sent = Size[t.pack]
  /\ t.mmap # {} => t.status = "SENDING"
  /\ t.mmap \subseteq Segments(t.pack)
  /\ t.intact
  /\ t.flushed => t.status = "DONE" /\ t.ack = Size[t.pack] /\ t.sent = Size[t.pack]
  /\ t.status \in {"RESUME", "LISTENING", "CONNECTING"} => t.ack = t.start
  /\ t.family = 4 => t.remote \in Addr4 \cup {NoAddr}

\* The files: counted for the transfers that use them, and the cached place is
\* where the kernel reads next.
FileKept(s, p) ==
  /\ s.file[p].count = Cardinality(Live(s, p))
  /\ s.file[p].fd => Live(s, p) # {} /\ s.file[p].loc = s.file[p].pos
  /\ \A k \in Segments(p) : s.file[p].refs[k] = Cardinality(Readers(s, p, k))

\* A transfer has what its state needs.
Settled(s, i) ==
  LET t == s.trans[i]
  IN /\ t.lsock <=> t.status = "LISTENING"
     /\ t.csock <=> t.status \in {"CONNECTING", "SENDING", "WAITING"}
     /\ t.status \in {"SENDING", "WAITING"} => s.file[t.pack].fd /\ t.ack <= t.sent
     /\ t.status = "LISTENING" => t.port \in s.ports

\* The invariant; in the middle of a handler the transfers of X are not settled.
Good(s, X) ==
  /\ Typed(s)
  /\ \A i \in DOMAIN s.trans : Progress(s.trans[i])
  /\ \A p \in Pack : FileKept(s, p)
  /\ \A i \in DOMAIN s.trans \ X : Settled(s, i)
  /\ \A i, j \in DOMAIN s.trans \ X :
       s.trans[i].status = "LISTENING" /\ s.trans[j].status = "LISTENING"
         /\ s.trans[i].port = s.trans[j].port => i = j
  /\ \A i \in X : i \in DOMAIN s.trans /\ s.trans[i].status \notin {"DONE", "LISTENING"}

\* From s to w only transfer i has changed, to t; the descriptors are as they were.
Only(w, s, i, t) ==
  /\ DOMAIN w.trans = DOMAIN s.trans /\ w.ports = s.ports
  /\ w.trans[i] = t /\ \A j \in DOMAIN s.trans \ {i} : w.trans[j] = s.trans[j]
  /\ \A q \in Pack : w.file[q].fd = s.file[q].fd /\ w.file[q].loc = s.file[q].loc
                      /\ w.file[q].pos = s.file[q].pos

\* From s to w transfers may have ended or stopped listening, and gave their
\* ports back.
Returned(w, s) ==
  /\ w.ports \subseteq s.ports /\ DOMAIN w.trans \subseteq DOMAIN s.trans
  /\ \A j \in DOMAIN s.trans :
       s.trans[j].status = "LISTENING"
         => IF j \in DOMAIN w.trans /\ w.trans[j].status = "LISTENING"
              THEN w.trans[j].port = s.trans[j].port
              ELSE s.trans[j].port \notin w.ports
  /\ \A j \in DOMAIN w.trans :
       w.trans[j].status = "LISTENING" => s.trans[j].status = "LISTENING"

\* From s to c the transfers of S have been closed, the others are as they were.
Closes(c, s, S) ==
  /\ DOMAIN c.trans = DOMAIN s.trans
  /\ \A i \in S : s.trans[i].status # "DONE" => c.trans[i] = Ended(s.trans[i])
  /\ \A i \in DOMAIN s.trans : i \notin S \/ s.trans[i].status = "DONE"
                                 => c.trans[i] = s.trans[i]

TransferInv == Good(Now, {}) /\ transfermethod \in Method
-----------------------------------------------------------------------------
(* Lemmas *)

\* What is counted is finite.
LEMMA Finite ==
  ASSUME NEW s, Typed(s), NEW p
  PROVE  /\ IsFiniteSet(Live(s, p)) /\ Cardinality(Live(s, p)) \in Nat
         /\ \A k : /\ IsFiniteSet(Readers(s, p, k)) /\ Cardinality(Readers(s, p, k)) \in Nat
                  /\ Readers(s, p, k) \subseteq Live(s, p)
<1>1. IsFiniteSet(Id)
  BY TransferAssumption
<1>2. Live(s, p) \subseteq Id
  BY DEF Typed, Live
<1>3. IsFiniteSet(Live(s, p)) /\ Cardinality(Live(s, p)) \in Nat
  BY <1>1, <1>2, FS_Subset, FS_CardinalityType
<1>4. ASSUME NEW k PROVE Readers(s, p, k) \subseteq Live(s, p)
  BY DEF Readers
<1>5. ASSUME NEW k PROVE IsFiniteSet(Readers(s, p, k)) /\ Cardinality(Readers(s, p, k)) \in Nat
  BY <1>3, <1>4, FS_Subset, FS_CardinalityType
<1> QED BY <1>3, <1>4, <1>5

\* A part of a finite set is taken away.
LEMMA Less ==
  ASSUME NEW S, IsFiniteSet(S), NEW T, T \subseteq S
  PROVE  /\ Cardinality(S \ T) = Cardinality(S) - Cardinality(T)
         /\ Cardinality(S) \in Nat /\ Cardinality(T) \in Nat /\ Cardinality(S \ T) \in Nat
         /\ Cardinality(S \ T) = 0 <=> S = T
<1>1. S \cap T = T
  OBVIOUS
<1>2. IsFiniteSet(T) /\ IsFiniteSet(S \ T)
  BY FS_Subset, FS_Difference
<1>3. Cardinality(S \ T) = 0 <=> S \ T = {}
  BY <1>2, FS_EmptySet
<1>4. S \ T = {} <=> S = T
  OBVIOUS
<1>5. Cardinality(S \ T) = Cardinality(S) - Cardinality(T)
  BY <1>1, FS_Difference
<1>6. Cardinality(S) \in Nat /\ Cardinality(T) \in Nat /\ Cardinality(S \ T) \in Nat
  BY <1>2, FS_CardinalityType
<1> QED BY <1>3, <1>4, <1>5, <1>6

\* A transfer that is closed.
LEMMA EndedGood ==
  ASSUME NEW t \in Record, Progress(t), t.status # "DONE"
  PROVE  /\ Ended(t) \in Record /\ Progress(Ended(t))
         /\ Ended(t).status = "DONE" /\ Ended(t).pack = t.pack
         /\ Ended(t).lsock = FALSE /\ Ended(t).csock = FALSE
<1>1. Ended(t) \in Record
  BY DEF Record, Ended, Status
<1>2. /\ Ended(t).status = "DONE" /\ Ended(t).lsock = FALSE /\ Ended(t).csock = FALSE /\ Ended(t).mmap = {}
      /\ Ended(t).pack = t.pack /\ Ended(t).start = t.start /\ Ended(t).sent = t.sent
      /\ Ended(t).ack = t.ack /\ Ended(t).intact = t.intact /\ Ended(t).flushed = t.flushed
      /\ Ended(t).family = t.family /\ Ended(t).remote = t.remote
  BY DEF Record, Ended
<1>3. Progress(Ended(t))
  BY <1>2 DEF Progress
<1> QED BY <1>1, <1>2, <1>3

\* t_closeconn on some transfers: they are settled then.
LEMMA CloseAllGood ==
  ASSUME NEW s, NEW X, Good(s, X), NEW S, S \subseteq DOMAIN s.trans
  PROVE  /\ Good(CloseAll(s, S), X \ S)
         /\ Closes(CloseAll(s, S), s, S)
         /\ CloseAll(s, S).ports = s.ports \ PortsOf(s, {i \in S : s.trans[i].status # "DONE"})
<1> DEFINE c == CloseAll(s, S)
           live == {i \in S : s.trans[i].status # "DONE"}
           of(p) == {i \in live : s.trans[i].pack = p}
<1>1. /\ c = [trans |-> c.trans, file |-> c.file, ports |-> c.ports]
      /\ c.trans = [i \in DOMAIN s.trans |-> IF i \in live THEN Ended(s.trans[i]) ELSE s.trans[i]]
      /\ c.file = [p \in Pack |-> IF of(p) = {} THEN s.file[p]
                                  ELSE [Release(s.file[p], Cardinality(of(p)))
                                          EXCEPT !.refs = Unref(s, p, live)]]
      /\ c.ports = s.ports \ PortsOf(s, live)
  BY DEF CloseAll
<1>2. DOMAIN c.trans = DOMAIN s.trans
  BY <1>1
<1>3. \A i \in DOMAIN s.trans :
        c.trans[i] = IF i \in live THEN Ended(s.trans[i]) ELSE s.trans[i]
  BY <1>1
<1> HIDE DEF c
<1>4. Typed(s) /\ \A i \in DOMAIN s.trans : s.trans[i] \in Record /\ Progress(s.trans[i])
  BY DEF Good, Typed
<1>5. \A i \in live :
        /\ Ended(s.trans[i]) \in Record /\ Progress(Ended(s.trans[i]))
        /\ Ended(s.trans[i]).status = "DONE" /\ Ended(s.trans[i]).pack = s.trans[i].pack
        /\ Ended(s.trans[i]).lsock = FALSE /\ Ended(s.trans[i]).csock = FALSE
  BY <1>4, EndedGood
<1>6. ASSUME NEW p \in Pack
      PROVE  /\ Live(c, p) = Live(s, p) \ of(p) /\ of(p) \subseteq Live(s, p)
             /\ \A k : Readers(c, p, k) = Readers(s, p, k) \ {i \in live : s.trans[i].pack = p /\ k \in s.trans[i].mmap}
             /\ \A k : {i \in live : s.trans[i].pack = p /\ k \in s.trans[i].mmap} \subseteq Readers(s, p, k)
  <2>1. Live(c, p) = Live(s, p) \ of(p)
    BY <1>2, <1>3, <1>5 DEF Live
  <2>2. of(p) \subseteq Live(s, p)
    BY DEF Live
  <2>3. ASSUME NEW k
        PROVE Readers(c, p, k) = Readers(s, p, k) \ {i \in live : s.trans[i].pack = p /\ k \in s.trans[i].mmap}
    <3>1. \A i \in Live(c, p) : c.trans[i] = s.trans[i]
      BY <2>1, <1>3 DEF Live
    <3> QED BY <2>1, <3>1 DEF Readers
  <2>4. ASSUME NEW k
        PROVE {i \in live : s.trans[i].pack = p /\ k \in s.trans[i].mmap} \subseteq Readers(s, p, k)
    BY DEF Readers, Live
  <2> QED BY <2>1, <2>2, <2>3, <2>4
<1>7. ASSUME NEW p \in Pack
      PROVE  /\ c.file[p] \in FileRecord(p) /\ FileKept(c, p)
             /\ s.file[p].fd => c.file[p].fd \/ Live(c, p) = {}
  <2>1. /\ s.file[p] \in FileRecord(p) /\ FileKept(s, p)
        /\ c.file[p] = IF of(p) = {} THEN s.file[p]
                       ELSE [Release(s.file[p], Cardinality(of(p))) EXCEPT !.refs = Unref(s, p, live)]
    BY <1>1 DEF Good, Typed
  <2>2. CASE of(p) = {}
    <3>1. \A k : {i \in live : s.trans[i].pack = p /\ k \in s.trans[i].mmap} = {}
      BY <2>2
    <3>2. ASSUME NEW k PROVE Readers(c, p, k) = Readers(s, p, k)
      <4>1. Readers(c, p, k) = Readers(s, p, k) \ {i \in live : s.trans[i].pack = p /\ k \in s.trans[i].mmap}
        BY <1>6
      <4> QED BY <3>1, <4>1
    <3>3. c.file[p] = s.file[p] /\ Live(c, p) = Live(s, p)
      BY <2>1, <2>2, <1>6
    <3> QED BY <3>2, <3>3, <2>1 DEF FileKept
  <2>3. CASE of(p) # {}
    <3> DEFINE n == Cardinality(of(p))
    <3>1. /\ Cardinality(Live(c, p)) = s.file[p].count - n
          /\ n \in Nat /\ Cardinality(Live(c, p)) \in Nat
          /\ Cardinality(Live(c, p)) = 0 <=> Live(c, p) = {}
      <4>1. IsFiniteSet(Live(s, p))
        BY <1>4, Finite
      <4>2. /\ Cardinality(Live(s, p) \ of(p)) = Cardinality(Live(s, p)) - n
            /\ n \in Nat /\ Cardinality(Live(s, p) \ of(p)) \in Nat
            /\ Cardinality(Live(s, p) \ of(p)) = 0 <=> Live(s, p) = of(p)
        <5> HIDE DEF of
        <5> QED BY <4>1, <1>6, Less
      <4>3. s.file[p].count = Cardinality(Live(s, p))
        BY <2>1 DEF FileKept
      <4>4. Live(s, p) = of(p) <=> Live(c, p) = {}
        BY <1>6
      <4>5. Live(c, p) = Live(s, p) \ of(p)
        BY <1>6
      <4> HIDE DEF of
      <4> QED BY <4>2, <4>3, <4>4, <4>5
    <3>2. \A k \in Segments(p) : Unref(s, p, live)[k] = Cardinality(Readers(c, p, k))
      <4> SUFFICES ASSUME NEW k \in Segments(p)
                   PROVE  Unref(s, p, live)[k] = Cardinality(Readers(c, p, k))
        OBVIOUS
      <4>1. DOMAIN s.file[p].refs = Segments(p) /\ s.file[p].refs[k] = Cardinality(Readers(s, p, k))
        BY <2>1 DEF FileRecord, FileKept
      <4> QED BY <4>1, <1>4, <1>6, Finite, Less DEF Unref
    <3>3. Unref(s, p, live) \in [Segments(p) -> Nat]
      <4>1. \A k : Cardinality(Readers(c, p, k)) \in Nat
        <5>1. \A k : IsFiniteSet(Readers(s, p, k))
          BY <1>4, Finite
        <5>2. \A k : Readers(c, p, k) \subseteq Readers(s, p, k)
          BY <1>6
        <5> QED BY <5>1, <5>2, FS_Subset, FS_CardinalityType
      <4>2. DOMAIN s.file[p].refs = Segments(p)
        BY <2>1 DEF FileRecord
      <4>3. Unref(s, p, live) = [k \in Segments(p) |-> Unref(s, p, live)[k]]
        BY <4>2 DEF Unref
      <4> QED BY <3>2, <4>1, <4>3
    <3>4. /\ c.file[p] = [count |-> s.file[p].count - n, fd |-> s.file[p].fd /\ s.file[p].count # n,
                          loc |-> IF s.file[p].fd /\ s.file[p].count = n THEN 0 ELSE s.file[p].loc,
                          pos |-> s.file[p].pos, refs |-> Unref(s, p, live)]
      BY <2>1, <2>3 DEF Release, FileRecord
    <3>5. Size[p] \in Nat
      BY TransferAssumption
    <3>6. c.file[p] \in FileRecord(p)
      BY <3>1, <3>3, <3>4, <3>5, <2>1 DEF FileRecord
    <3>7. c.file[p].fd => s.file[p].fd /\ Live(c, p) # {} /\ c.file[p].loc = c.file[p].pos
      <4>1. c.file[p].fd => s.file[p].fd /\ s.file[p].count # n /\ c.file[p].loc = s.file[p].loc
                            /\ c.file[p].pos = s.file[p].pos
        <5>1. /\ c.file[p].fd = (s.file[p].fd /\ s.file[p].count # n)
              /\ c.file[p].loc = IF s.file[p].fd /\ s.file[p].count = n THEN 0 ELSE s.file[p].loc
              /\ c.file[p].pos = s.file[p].pos
          BY <3>4
        <5> QED BY <5>1
      <4>2. s.file[p].count \in Nat /\ (s.file[p].fd => s.file[p].loc = s.file[p].pos)
        BY <2>1 DEF FileKept, FileRecord
      <4>3. s.file[p].count # n => Live(c, p) # {}
        BY <3>1, <4>2
      <4> QED BY <4>1, <4>2, <4>3
    <3>8. s.file[p].fd => c.file[p].fd \/ Live(c, p) = {}
      BY <3>1, <3>4, <2>1 DEF FileRecord
    <3>9. c.file[p].refs = Unref(s, p, live) /\ c.file[p].count = Cardinality(Live(c, p))
      BY <3>1, <3>4
    <3> QED BY <3>2, <3>6, <3>7, <3>8, <3>9 DEF FileKept
  <2> QED BY <2>2, <2>3
<1>8. Typed(c)
  <2>1. \A i \in DOMAIN c.trans : c.trans[i] \in Record
    BY <1>2, <1>3, <1>4, <1>5
  <2>2. c.file = [p \in Pack |-> c.file[p]] /\ c.ports \subseteq Port
    BY <1>1, <1>4 DEF Typed
  <2>3. c.trans = [i \in DOMAIN c.trans |-> c.trans[i]] /\ DOMAIN c.trans \subseteq Id
    BY <1>1, <1>4 DEF Typed
  <2> QED BY <1>1, <1>7, <2>1, <2>2, <2>3 DEF Typed
<1>9. \A i \in DOMAIN c.trans : Progress(c.trans[i])
  BY <1>2, <1>3, <1>4, <1>5
<1>10. ASSUME NEW i \in DOMAIN c.trans \ (X \ S)
       PROVE  Settled(c, i)
  <2>1. CASE i \in live
    BY <2>1, <1>2, <1>3, <1>5 DEF Settled
  <2>2. CASE i \notin live
    <3>1. i \notin X
      BY <2>2, <1>2 DEF Good
    <3>2. Settled(s, i) /\ c.trans[i] = s.trans[i] /\ s.trans[i].pack \in Pack
      BY <3>1, <2>2, <1>2, <1>3, <1>4 DEF Good, Record
    <3>3. s.trans[i].status \in {"SENDING", "WAITING"} => c.file[s.trans[i].pack].fd
      <4>1. s.trans[i].status \in {"SENDING", "WAITING"} => i \in Live(c, s.trans[i].pack)
        BY <3>2, <1>2 DEF Live
      <4> QED BY <4>1, <3>2, <1>7 DEF Settled
    <3>4. s.trans[i].status = "LISTENING" => s.trans[i].port \in c.ports
      <4>1. SUFFICES ASSUME s.trans[i].status = "LISTENING", s.trans[i].port \notin c.ports
                     PROVE  FALSE
        OBVIOUS
      <4>2. PICK j \in live : s.trans[j].status = "LISTENING" /\ s.trans[j].port = s.trans[i].port
        BY <4>1, <3>2, <1>1 DEF Settled, PortsOf
      <4>3. j \in DOMAIN s.trans \ X
        BY <4>2 DEF Good
      <4> QED BY <4>1, <4>2, <4>3, <3>1, <2>2, <1>2 DEF Good
    <3> QED BY <3>2, <3>3, <3>4 DEF Settled
  <2> QED BY <2>1, <2>2
<1>11. \A i, j \in DOMAIN c.trans \ (X \ S) :
         c.trans[i].status = "LISTENING" /\ c.trans[j].status = "LISTENING"
           /\ c.trans[i].port = c.trans[j].port => i = j
  <2>1. \A i \in DOMAIN c.trans \ (X \ S) :
          c.trans[i].status = "LISTENING" => i \in DOMAIN s.trans \ X /\ c.trans[i] = s.trans[i]
    BY <1>2, <1>3, <1>5 DEF Good
  <2> QED BY <2>1 DEF Good
<1>12. \A i \in X \ S : i \in DOMAIN c.trans /\ c.trans[i].status \notin {"DONE", "LISTENING"}
  BY <1>2, <1>3 DEF Good
<1>13. Good(c, X \ S)
  BY <1>7, <1>8, <1>9, <1>10, <1>11, <1>12 DEF Good
<1>14. Closes(c, s, S)
  BY <1>2, <1>3 DEF Closes
<1> QED BY <1>1, <1>13, <1>14 DEF c

\* A transfer that changes, but not the segments it has mapped: what is counted
\* stays, and so does what the others have.
LEMMA WithGood ==
  ASSUME NEW s, NEW X, Good(s, X), NEW i \in DOMAIN s.trans, NEW t \in Record, Progress(t),
         t.pack = s.trans[i].pack, t.mmap = s.trans[i].mmap,
         s.trans[i].status # "DONE", t.status # "DONE"
  PROVE  LET w == With(s, i, t)
         IN /\ t.status # "LISTENING" => Good(w, X \cup {i})
            /\ Only(w, s, i, t) /\ w.file = s.file /\ Typed(w)
            /\ \A j \in DOMAIN s.trans : Progress(w.trans[j])
            /\ \A p \in Pack : FileKept(w, p) /\ Live(w, p) = Live(s, p)
            /\ \A j \in DOMAIN s.trans \ {i} : Settled(s, j) => Settled(w, j)
<1> DEFINE w == With(s, i, t)
<1>1. Typed(s) /\ \A j \in DOMAIN s.trans : s.trans[j] \in Record /\ Progress(s.trans[j])
  BY DEF Good, Typed
<1>2. w = [trans |-> [s.trans EXCEPT ![i] = t], file |-> s.file, ports |-> s.ports]
  BY <1>1 DEF With, Typed
<1>3. DOMAIN w.trans = DOMAIN s.trans /\ w.file = s.file /\ w.ports = s.ports
  BY <1>2
<1>4. /\ w.trans = [j \in DOMAIN w.trans |-> w.trans[j]]
      /\ \A j \in DOMAIN s.trans : w.trans[j] = IF j = i THEN t ELSE s.trans[j]
  BY <1>1, <1>2 DEF Typed
<1> HIDE DEF w
<1>5. Typed(w)
  BY <1>1, <1>2, <1>3, <1>4 DEF Typed
<1>6. \A p \in Pack : Live(w, p) = Live(s, p)
  BY <1>3, <1>4 DEF Live
<1>7. ASSUME NEW p \in Pack, NEW k PROVE Readers(w, p, k) = Readers(s, p, k)
  <2>1. \A j \in Live(s, p) : w.trans[j].mmap = s.trans[j].mmap
    BY <1>4 DEF Live
  <2>2. Live(w, p) = Live(s, p)
    BY <1>6
  <2> QED BY <2>1, <2>2 DEF Readers
<1>8. \A p \in Pack : FileKept(w, p)
  <2> SUFFICES ASSUME NEW p \in Pack PROVE FileKept(w, p)
    OBVIOUS
  <2>1. FileKept(s, p) /\ w.file[p] = s.file[p] /\ Live(w, p) = Live(s, p)
    BY <1>3, <1>6 DEF Good
  <2>2. \A k : Readers(w, p, k) = Readers(s, p, k)
    BY <1>7
  <2> QED BY <2>1, <2>2 DEF FileKept
<1>9. \A j \in DOMAIN s.trans \ {i} : Settled(s, j) => Settled(w, j)
  BY <1>3, <1>4 DEF Settled
<1>10. \A j \in DOMAIN s.trans : Progress(w.trans[j])
  BY <1>1, <1>4
<1>11. ASSUME t.status # "LISTENING" PROVE Good(w, X \cup {i})
  <2>1. \A j \in DOMAIN w.trans \ (X \cup {i}) : Settled(w, j)
    BY <1>3, <1>9 DEF Good
  <2>2. \A j, k \in DOMAIN w.trans \ (X \cup {i}) :
          w.trans[j].status = "LISTENING" /\ w.trans[k].status = "LISTENING"
            /\ w.trans[j].port = w.trans[k].port => j = k
    BY <1>3, <1>4 DEF Good
  <2>3. \A j \in X \cup {i} : j \in DOMAIN w.trans /\ w.trans[j].status \notin {"DONE", "LISTENING"}
    BY <1>3, <1>4, <1>11 DEF Good
  <2> QED BY <1>3, <1>5, <1>8, <1>10, <2>1, <2>2, <2>3 DEF Good
<1>12. Only(w, s, i, t)
  BY <1>3, <1>4 DEF Only
<1> QED BY <1>3, <1>5, <1>6, <1>8, <1>9, <1>10, <1>11, <1>12 DEF w

\* A transfer that has what its state needs.
LEMMA SettleGood ==
  ASSUME NEW s, NEW i, Good(s, {i}), Settled(s, i)
  PROVE  Good(s, {})
<1>1. i \in DOMAIN s.trans /\ s.trans[i].status # "LISTENING"
  BY DEF Good
<1> QED BY <1>1 DEF Good

\* The descriptor of a pack is opened or moves.
LEMMA FileGood ==
  ASSUME NEW s, NEW X, Good(s, X), NEW p \in Pack, NEW g \in FileRecord(p),
         g.count = s.file[p].count, g.refs = s.file[p].refs,
         s.file[p].fd => g.fd,
         g.fd => Live(s, p) # {} /\ g.loc = g.pos
  PROVE  LET w == [s EXCEPT !.file = [s.file EXCEPT ![p] = g]]
         IN /\ Good(w, X) /\ w.trans = s.trans /\ w.file[p] = g
            /\ \A q \in Pack : Live(w, q) = Live(s, q)
<1> DEFINE w == [s EXCEPT !.file = [s.file EXCEPT ![p] = g]]
<1>1. Typed(s)
  BY DEF Good
<1>2. w = [trans |-> s.trans, file |-> [s.file EXCEPT ![p] = g], ports |-> s.ports]
  BY <1>1 DEF Typed
<1>3. /\ w.trans = s.trans /\ w.ports = s.ports
      /\ w.file = [q \in Pack |-> w.file[q]]
      /\ \A q \in Pack : w.file[q] = IF q = p THEN g ELSE s.file[q]
  BY <1>1, <1>2 DEF Typed
<1> HIDE DEF w
<1>4. Typed(w)
  <2>1. \A q \in Pack : w.file[q] \in FileRecord(q)
    BY <1>1, <1>3 DEF Typed
  <2>2. w = [trans |-> w.trans, file |-> w.file, ports |-> w.ports]
    BY <1>2
  <2> QED BY <1>1, <1>3, <2>1, <2>2 DEF Typed
<1>5. \A q \in Pack : Live(w, q) = Live(s, q) /\ \A k : Readers(w, q, k) = Readers(s, q, k)
  BY <1>3 DEF Live, Readers
<1>6. \A q \in Pack : FileKept(w, q)
  <2> SUFFICES ASSUME NEW q \in Pack PROVE FileKept(w, q)
    OBVIOUS
  <2>1. FileKept(s, q)
    BY DEF Good
  <2>2. CASE q = p
    BY <2>1, <2>2, <1>3, <1>5 DEF FileKept
  <2>3. CASE q # p
    BY <2>1, <2>3, <1>3, <1>5 DEF FileKept
  <2> QED BY <2>2, <2>3
<1>7. \A i \in DOMAIN w.trans \ X : Settled(w, i)
  <2>1. \A q \in Pack : s.file[q].fd => w.file[q].fd
    BY <1>3
  <2>2. \A i \in DOMAIN s.trans : s.trans[i].pack \in Pack
    BY <1>1 DEF Typed, Record
  <2> QED BY <2>1, <2>2, <1>3 DEF Good, Settled
<1>8. Good(w, X)
  BY <1>3, <1>4, <1>6, <1>7 DEF Good
<1> QED BY <1>3, <1>5, <1>8 DEF w

\* The segments that are left when a transfer gives its own up.
LEMMA UnrefGood ==
  ASSUME NEW s, NEW X, Good(s, X), NEW i \in DOMAIN s.trans, s.trans[i].status # "DONE",
         NEW p \in Pack, p = s.trans[i].pack
  PROVE  /\ Unref(s, p, {i}) \in [Segments(p) -> Nat]
         /\ \A k \in Segments(p) : Unref(s, p, {i})[k] = Cardinality(Readers(s, p, k) \ {i})
<1> DEFINE U == Unref(s, p, {i})
<1>1. Typed(s) /\ FileKept(s, p) /\ DOMAIN s.file[p].refs = Segments(p)
  BY DEF Good, Typed, FileRecord
<1>2. ASSUME NEW k \in Segments(p)
      PROVE  U[k] = Cardinality(Readers(s, p, k) \ {i}) /\ U[k] \in Nat
  <2> DEFINE mine == {j \in {i} : s.trans[j].pack = p /\ k \in s.trans[j].mmap}
  <2>1. U[k] = s.file[p].refs[k] - Cardinality(mine)
    BY <1>1 DEF Unref
  <2>2. s.file[p].refs[k] = Cardinality(Readers(s, p, k))
    BY <1>1 DEF FileKept
  <2>3. mine \subseteq Readers(s, p, k) /\ Readers(s, p, k) \ mine = Readers(s, p, k) \ {i}
    BY DEF Readers, Live
  <2>4. IsFiniteSet(Readers(s, p, k))
    BY <1>1, Finite
  <2> HIDE DEF mine, U
  <2>5. /\ Cardinality(Readers(s, p, k) \ mine) = Cardinality(Readers(s, p, k)) - Cardinality(mine)
        /\ Cardinality(Readers(s, p, k) \ mine) \in Nat
    BY <2>3, <2>4, Less
  <2> QED BY <2>1, <2>2, <2>3, <2>5
<1>3. U = [k \in Segments(p) |-> U[k]]
  BY <1>1 DEF Unref
<1> HIDE DEF U
<1>4. U \in [Segments(p) -> Nat]
  BY <1>2, <1>3
<1> QED BY <1>2, <1>4 DEF U

\* A transfer that maps another segment or gives one up, and is counted so.
LEMMA RemapGood ==
  ASSUME NEW s, NEW X, Good(s, X), NEW i \in DOMAIN s.trans, NEW t \in Record, Progress(t),
         NEW p \in Pack, p = s.trans[i].pack, t.pack = p,
         s.trans[i].status # "DONE", t.status \notin {"DONE", "LISTENING"},
         NEW R \in [Segments(p) -> Nat],
         \A k \in Segments(p) :
           R[k] = Cardinality((Readers(s, p, k) \ {i}) \cup (IF k \in t.mmap THEN {i} ELSE {}))
  PROVE  LET w == [With(s, i, t) EXCEPT !.file = [s.file EXCEPT ![p].refs = R]]
         IN /\ Good(w, X \cup {i})
            /\ Only(w, s, i, t)
<1> DEFINE w == [With(s, i, t) EXCEPT !.file = [s.file EXCEPT ![p].refs = R]]
<1>1. Typed(s) /\ \A j \in DOMAIN s.trans : s.trans[j] \in Record /\ Progress(s.trans[j])
  BY DEF Good, Typed
<1>2. w = [trans |-> [s.trans EXCEPT ![i] = t],
           file |-> [s.file EXCEPT ![p] = [s.file[p] EXCEPT !.refs = R]], ports |-> s.ports]
  <2>1. With(s, i, t) = [trans |-> [s.trans EXCEPT ![i] = t], file |-> s.file, ports |-> s.ports]
    BY <1>1 DEF With, Typed
  <2>2. [s.file EXCEPT ![p].refs = R] = [s.file EXCEPT ![p] = [s.file[p] EXCEPT !.refs = R]]
    BY <1>1 DEF Typed
  <2> QED BY <2>1, <2>2
<1>3. DOMAIN w.trans = DOMAIN s.trans /\ w.ports = s.ports
  BY <1>2
<1>4. /\ w.trans = [j \in DOMAIN w.trans |-> w.trans[j]]
      /\ \A j \in DOMAIN s.trans : w.trans[j] = IF j = i THEN t ELSE s.trans[j]
  BY <1>1, <1>2 DEF Typed
<1>5. /\ w.file = [q \in Pack |-> w.file[q]]
      /\ \A q \in Pack : q # p => w.file[q] = s.file[q]
      /\ w.file[p] = [s.file[p] EXCEPT !.refs = R]
  BY <1>1, <1>2 DEF Typed
<1>6. w = [trans |-> w.trans, file |-> w.file, ports |-> w.ports]
  BY <1>2
<1> HIDE DEF w
<1>7. /\ w.file[p].refs = R /\ w.file[p].count = s.file[p].count /\ w.file[p].fd = s.file[p].fd
      /\ w.file[p].loc = s.file[p].loc /\ w.file[p].pos = s.file[p].pos
      /\ w.file[p] \in FileRecord(p)
  BY <1>1, <1>5 DEF Typed, FileRecord
<1>8. Typed(w)
  <2>1. \A q \in Pack : w.file[q] \in FileRecord(q)
    BY <1>1, <1>5, <1>7 DEF Typed
  <2> QED BY <1>1, <1>3, <1>4, <1>5, <1>6, <2>1 DEF Typed
<1>9. \A q \in Pack : Live(w, q) = Live(s, q)
  BY <1>3, <1>4 DEF Live
<1>10. \A q \in Pack : FileKept(w, q)
  <2> SUFFICES ASSUME NEW q \in Pack PROVE FileKept(w, q)
    OBVIOUS
  <2>1. FileKept(s, q) /\ Live(w, q) = Live(s, q)
    BY <1>9 DEF Good
  <2>2. CASE q = p
    <3>1. i \in Live(s, p)
      BY DEF Live
    <3>2. ASSUME NEW k
          PROVE Readers(w, p, k) = (Readers(s, p, k) \ {i}) \cup (IF k \in t.mmap THEN {i} ELSE {})
      BY <2>1, <2>2, <3>1, <1>4 DEF Readers, Live
    <3> QED BY <2>1, <2>2, <3>2, <1>7 DEF FileKept
  <2>3. CASE q # p
    <3>1. i \notin Live(s, q)
      BY <2>3 DEF Live
    <3>2. ASSUME NEW k PROVE Readers(w, q, k) = Readers(s, q, k)
      BY <2>1, <3>1, <1>4 DEF Readers, Live
    <3>3. w.file[q] = s.file[q]
      BY <2>3, <1>5
    <3> QED BY <2>1, <3>2, <3>3 DEF FileKept
  <2> QED BY <2>2, <2>3
<1>11. \A q \in Pack : w.file[q].fd = s.file[q].fd /\ w.file[q].loc = s.file[q].loc
                       /\ w.file[q].pos = s.file[q].pos
  BY <1>5, <1>7
<1>12. \A j \in DOMAIN w.trans : Progress(w.trans[j])
  BY <1>1, <1>3, <1>4
<1>13. \A j \in DOMAIN w.trans \ (X \cup {i}) : Settled(w, j)
  <2>1. \A j \in DOMAIN s.trans : s.trans[j].pack \in Pack
    BY <1>1 DEF Record
  <2> QED BY <2>1, <1>3, <1>4, <1>11 DEF Good, Settled
<1>14. \A j, k \in DOMAIN w.trans \ (X \cup {i}) :
         w.trans[j].status = "LISTENING" /\ w.trans[k].status = "LISTENING"
           /\ w.trans[j].port = w.trans[k].port => j = k
  BY <1>3, <1>4 DEF Good
<1>15. \A j \in X \cup {i} : j \in DOMAIN w.trans /\ w.trans[j].status \notin {"DONE", "LISTENING"}
  BY <1>3, <1>4 DEF Good
<1>16. Good(w, X \cup {i})
  BY <1>8, <1>10, <1>12, <1>13, <1>14, <1>15 DEF Good
<1>17. Only(w, s, i, t)
  BY <1>3, <1>4, <1>11 DEF Only
<1> QED BY <1>16, <1>17 DEF w

\* A later byte is in the same segment or a later one.
LEMMA DivMono ==
  ASSUME NEW a \in Nat, NEW b \in Nat, a <= b, NEW n \in Nat \ {0}
  PROVE  a \div n \in Nat /\ b \div n \in Nat /\ a \div n <= b \div n
<1>1. /\ a \div n \in Nat /\ b \div n \in Nat
      /\ a = n * (a \div n) + (a % n) /\ a % n \in 0..(n - 1)
      /\ b = n * (b \div n) + (b % n) /\ b % n \in 0..(n - 1)
  OBVIOUS
<1>2. \A x, y, z \in Nat : x >= y + 1 => z * x >= z * y + z
  OBVIOUS
<1> DEFINE x == a \div n
           y == b \div n
<1>3. x \in Nat /\ y \in Nat /\ a >= n * x /\ b <= n * y + n - 1
  BY <1>1
<1>4. n * x \in Nat /\ n * y \in Nat
  BY <1>3
<1>5. ~ (x <= y) => n * x >= n * y + n
  BY <1>2, <1>3
<1> HIDE DEF x, y
<1>6. x <= y
  BY <1>3, <1>4, <1>5
<1> QED BY <1>3, <1>6 DEF x, y

\* Nothing was listening where nothing has changed.
LEMMA OnlyReturned ==
  ASSUME NEW s, NEW w, NEW i \in DOMAIN s.trans, NEW t, Only(w, s, i, t), s.ports \subseteq Port,
         IF s.trans[i].status = "LISTENING"
           THEN t.status = "LISTENING" /\ t.port = s.trans[i].port
           ELSE t.status # "LISTENING"
  PROVE  Returned(w, s)
BY DEF Only, Returned

\* The bytes that a round of t_transfersome has sent.
LEMMA SentSomeGood ==
  ASSUME NEW s, Good(s, {}), NEW i \in DOMAIN s.trans, s.trans[i].status = "SENDING",
         NEW m \in Nat, s.trans[i].sent + m <= Size[s.trans[i].pack],
         NEW from, m = 0 \/ from = s.trans[i].sent
  PROVE  Good(SentSome(s, i, m, from), {}) /\ Returned(SentSome(s, i, m, from), s)
<1> DEFINE t == s.trans[i]
           p == t.pack
           u == [t EXCEPT !.sent = @ + m, !.age = IF m > 0 THEN 0 ELSE @,
                          !.intact = @ /\ (m = 0 \/ from = t.sent)]
           v == [u EXCEPT !.status = "WAITING", !.mmap = {}]
           w == SentSome(s, i, m, from)
<1>1. Typed(s) /\ t \in Record /\ Progress(t) /\ Settled(s, i)
  BY DEF Good, Typed
<1>2. p \in Pack /\ Size[p] \in Nat /\ t.sent \in Nat /\ t.age \in Nat /\ t.ack \in Nat /\ t.start \in Nat
  BY <1>1, TransferAssumption DEF Record
<1>3. t.intact = TRUE
  BY <1>1 DEF Progress, Record
<1>4. u = [t EXCEPT !.sent = t.sent + m, !.age = IF m > 0 THEN 0 ELSE t.age, !.intact = TRUE]
  BY <1>1, <1>3 DEF Record
<1>5. /\ u \in Record /\ u.pack = p /\ u.mmap = t.mmap /\ u.status = "SENDING" /\ u.start = t.start
      /\ u.sent = t.sent + m /\ u.ack = t.ack /\ u.intact = TRUE /\ u.flushed = t.flushed
      /\ u.lsock = t.lsock /\ u.csock = t.csock /\ u.family = t.family /\ u.remote = t.remote
      /\ u.port = t.port
  <2> HIDE DEF u
  <2>1. u.intact = TRUE /\ u.lsock = t.lsock /\ u.csock = t.csock /\ u.flushed = t.flushed
    BY <1>1, <1>2, <1>4 DEF Record
  <2>2. u \in Record
    <3>1. t.sent + m \in Nat /\ (IF m > 0 THEN 0 ELSE t.age) \in Nat /\ TRUE \in BOOLEAN
      BY <1>2
    <3> QED BY <1>1, <1>4, <3>1 DEF Record
  <2> QED BY <1>1, <1>2, <1>4, <2>1, <2>2 DEF Record
<1>6. Progress(u)
  BY <1>1, <1>2, <1>5 DEF Progress
<1> DEFINE E == {} \cup {i}
<1>0. E = {i}
  OBVIOUS
<1>7. CASE ~(u.sent >= Size[p])
  <2>1. w = With(s, i, u)
    BY <1>5, <1>7 DEF SentSome
  <2>2. Good(w, {i}) /\ Only(w, s, i, u)
    <3>1. /\ t.status # "DONE" /\ u.status # "DONE" /\ u.status # "LISTENING"
          /\ u \in Record /\ u.pack = t.pack /\ u.mmap = t.mmap
      <4> HIDE DEF u
      <4> QED BY <1>5
    <3> HIDE DEF u, w
    <3>2. Good(w, E) /\ Only(w, s, i, u)
      BY <1>6, <2>1, <3>1, WithGood
    <3> QED BY <3>2, <1>0
  <2>3. Settled(w, i)
    <3> HIDE DEF u, w
    <3> QED BY <1>1, <1>2, <1>5, <2>2 DEF Settled, Only
  <2>4. Good(w, {})
    <3> HIDE DEF u, w
    <3> QED BY <2>2, <2>3, SettleGood
  <2>5. Returned(w, s)
    <3>1. s.ports \subseteq Port /\ s.trans[i].status # "LISTENING" /\ u.status # "LISTENING"
      <4> HIDE DEF u
      <4> QED BY <1>1, <1>5 DEF Typed
    <3> HIDE DEF u, w
    <3> QED BY <2>2, <3>1, OnlyReturned
  <2> QED BY <2>4, <2>5
<1>8. CASE u.sent >= Size[p]
  <2>1. /\ v \in Record /\ v.pack = p /\ v.mmap = {} /\ v.status = "WAITING" /\ v.start = t.start
        /\ v.sent = t.sent + m /\ v.ack = t.ack /\ v.intact = TRUE /\ v.flushed = t.flushed
        /\ v.lsock = t.lsock /\ v.csock = t.csock /\ v.family = t.family /\ v.remote = t.remote
    <3> HIDE DEF u
    <3> QED BY <1>5 DEF Record, Status
  <2>2. Progress(v)
    <3> HIDE DEF u, v
    <3> QED BY <1>1, <1>2, <1>5, <1>8, <2>1 DEF Progress
  <2>3. w = [With(s, i, v) EXCEPT !.file = [s.file EXCEPT ![p].refs = Unref(s, p, {i})]]
    BY <1>8 DEF SentSome
  <2>4. /\ Unref(s, p, {i}) \in [Segments(p) -> Nat]
        /\ \A k \in Segments(p) : Unref(s, p, {i})[k] = Cardinality(Readers(s, p, k) \ {i})
    BY <1>2, UnrefGood
  <2>5. \A k \in Segments(p) :
          Unref(s, p, {i})[k] = Cardinality((Readers(s, p, k) \ {i}) \cup (IF k \in v.mmap THEN {i} ELSE {}))
    <3>1. \A k : (Readers(s, p, k) \ {i}) \cup (IF k \in v.mmap THEN {i} ELSE {}) = Readers(s, p, k) \ {i}
      <4> HIDE DEF v
      <4> QED BY <2>1
    <3> QED BY <2>4, <3>1
  <2>6. Good(w, {i}) /\ Only(w, s, i, v)
    <3>1. v.status \notin {"DONE", "LISTENING"} /\ v \in Record /\ v.pack = p /\ t.status # "DONE"
      <4> HIDE DEF v
      <4> QED BY <2>1
    <3> HIDE DEF v, w
    <3>2. Good(w, E) /\ Only(w, s, i, v)
      BY <1>2, <2>2, <2>3, <2>4, <2>5, <3>1, RemapGood
    <3> QED BY <3>2, <1>0
  <2>7. Settled(w, i)
    <3> HIDE DEF v, w
    <3> QED BY <1>1, <1>2, <2>1, <2>6 DEF Settled, Only
  <2>8. Good(w, {})
    <3> HIDE DEF v, w
    <3> QED BY <2>6, <2>7, SettleGood
  <2>9. Returned(w, s)
    <3>1. s.ports \subseteq Port /\ s.trans[i].status # "LISTENING" /\ v.status # "LISTENING"
      <4> HIDE DEF v
      <4> QED BY <1>1, <2>1 DEF Typed
    <3> HIDE DEF v, w
    <3> QED BY <2>6, <3>1, OnlyReturned
  <2> QED BY <2>8, <2>9
<1> QED BY <1>7, <1>8

\* A transfer takes a segment over or maps it.
LEMMA MappedGood ==
  ASSUME NEW s, Good(s, {}), NEW i \in DOMAIN s.trans, s.trans[i].status = "SENDING",
         NEW k \in Segments(s.trans[i].pack)
  PROVE  /\ Good(Mapped(s, i, k), {}) /\ Returned(Mapped(s, i, k), s)
         /\ DOMAIN Mapped(s, i, k).trans = DOMAIN s.trans
         /\ Mapped(s, i, k).trans[i].status = "SENDING"
         /\ Mapped(s, i, k).trans[i].sent = s.trans[i].sent
         /\ Mapped(s, i, k).trans[i].pack = s.trans[i].pack
<1> DEFINE t == s.trans[i]
           p == t.pack
           U == Unref(s, p, {i})
           R == [U EXCEPT ![k] = @ + 1]
           v == [t EXCEPT !.mmap = {k}]
           w == Mapped(s, i, k)
<1>1. Typed(s) /\ t \in Record /\ Progress(t) /\ Settled(s, i)
  BY DEF Good, Typed
<1>2. p \in Pack
  BY <1>1 DEF Record
<1>3. CASE k \in t.mmap
  <2>1. w = s
    BY <1>3 DEF Mapped
  <2>2. Returned(s, s)
    BY DEF Returned
  <2> QED BY <2>1, <2>2
<1> DEFINE E == {} \cup {i}
<1>0. E = {i}
  OBVIOUS
<1>4. CASE k \notin t.mmap
  <2>1. w = [With(s, i, v) EXCEPT !.file = [s.file EXCEPT ![p].refs = R]]
    BY <1>4 DEF Mapped
  <2>2. /\ v \in Record /\ v.pack = p /\ v.mmap = {k} /\ v.status = "SENDING" /\ v.start = t.start
        /\ v.sent = t.sent /\ v.ack = t.ack /\ v.intact = t.intact /\ v.flushed = t.flushed
        /\ v.lsock = t.lsock /\ v.csock = t.csock /\ v.family = t.family /\ v.remote = t.remote
    <3>1. {k} \subseteq Segment
      BY TransferAssumption, <1>2 DEF Segments, Segment
    <3> QED BY <1>1, <3>1 DEF Record
  <2>3. Progress(v)
    <3> HIDE DEF v
    <3> QED BY <1>1, <2>2 DEF Progress
  <2>4. U \in [Segments(p) -> Nat] /\ \A n \in Segments(p) : U[n] = Cardinality(Readers(s, p, n) \ {i})
    BY <1>2, UnrefGood
  <2>5. R \in [Segments(p) -> Nat] /\ \A n \in Segments(p) : R[n] = IF n = k THEN U[k] + 1 ELSE U[n]
    <3> HIDE DEF U
    <3> QED BY <2>4
  <2>6. \A n \in Segments(p) :
          R[n] = Cardinality((Readers(s, p, n) \ {i}) \cup (IF n \in v.mmap THEN {i} ELSE {}))
    <3> SUFFICES ASSUME NEW n \in Segments(p)
                 PROVE  R[n] = Cardinality((Readers(s, p, n) \ {i}) \cup (IF n \in v.mmap THEN {i} ELSE {}))
      OBVIOUS
    <3> HIDE DEF R, U, v
    <3>1. IsFiniteSet(Readers(s, p, n) \ {i})
      BY <1>1, Finite, FS_Subset
    <3>2. Cardinality((Readers(s, p, n) \ {i}) \cup {i}) = Cardinality(Readers(s, p, n) \ {i}) + 1
      BY <3>1, FS_AddElement
    <3>3. CASE n = k
      BY <2>2, <2>4, <2>5, <3>2, <3>3
    <3>4. CASE n # k
      <4>1. (Readers(s, p, n) \ {i}) \cup (IF n \in v.mmap THEN {i} ELSE {}) = Readers(s, p, n) \ {i}
        BY <3>4, <2>2
      <4> QED BY <3>4, <4>1, <2>4, <2>5
    <3> QED BY <3>3, <3>4
  <2>7. Good(w, {i}) /\ Only(w, s, i, v)
    <3>1. v.status \notin {"DONE", "LISTENING"} /\ v \in Record /\ v.pack = p /\ t.status # "DONE"
      <4> HIDE DEF v
      <4> QED BY <2>2
    <3> HIDE DEF v, w, R
    <3>2. Good(w, E) /\ Only(w, s, i, v)
      BY <1>2, <2>1, <2>3, <2>5, <2>6, <3>1, RemapGood
    <3> QED BY <3>2, <1>0
  <2>8. Settled(w, i)
    <3> HIDE DEF v, w
    <3> QED BY <1>1, <1>2, <2>2, <2>7 DEF Settled, Only
  <2>9. Good(w, {})
    <3> HIDE DEF v, w
    <3> QED BY <2>7, <2>8, SettleGood
  <2>10. Returned(w, s)
    <3>1. s.ports \subseteq Port /\ s.trans[i].status # "LISTENING" /\ v.status # "LISTENING"
      <4> HIDE DEF v
      <4> QED BY <1>1, <2>2 DEF Typed
    <3> HIDE DEF v, w
    <3> QED BY <2>7, <3>1, OnlyReturned
  <2> HIDE DEF v, w
  <2> QED BY <2>2, <2>7, <2>9, <2>10 DEF w, Only
<1> QED BY <1>3, <1>4

\* One handler calls another.
LEMMA ReturnedTrans ==
  ASSUME NEW w, NEW v, NEW s, Returned(w, v), Returned(v, s)
  PROVE  Returned(w, s)
<1>1. w.ports \subseteq s.ports /\ DOMAIN w.trans \subseteq DOMAIN s.trans
  BY DEF Returned
<1>2. ASSUME NEW j \in DOMAIN s.trans, s.trans[j].status = "LISTENING"
      PROVE  IF j \in DOMAIN w.trans /\ w.trans[j].status = "LISTENING"
               THEN w.trans[j].port = s.trans[j].port
               ELSE s.trans[j].port \notin w.ports
  <2>1. CASE j \in DOMAIN v.trans /\ v.trans[j].status = "LISTENING"
    <3>1. v.trans[j].port = s.trans[j].port
      BY <1>2, <2>1 DEF Returned
    <3> QED BY <2>1, <3>1 DEF Returned
  <2>2. CASE ~(j \in DOMAIN v.trans /\ v.trans[j].status = "LISTENING")
    <3>1. s.trans[j].port \notin v.ports
      BY <1>2, <2>2 DEF Returned
    <3>2. s.trans[j].port \notin w.ports
      BY <3>1 DEF Returned
    <3>3. ~(j \in DOMAIN w.trans /\ w.trans[j].status = "LISTENING")
      BY <2>2 DEF Returned
    <3> QED BY <3>2, <3>3
  <2> QED BY <2>1, <2>2
<1> QED BY <1>1, <1>2 DEF Returned

\* t_closeconn frees the ports of those that listened.
LEMMA CloseAllReturned ==
  ASSUME NEW s, NEW X, Good(s, X), NEW S, S \subseteq DOMAIN s.trans
  PROVE  Returned(CloseAll(s, S), s)
<1> DEFINE c == CloseAll(s, S)
           live == {i \in S : s.trans[i].status # "DONE"}
<1>1. Closes(c, s, S)
  BY CloseAllGood
<1>0. c.ports = s.ports \ PortsOf(s, live)
  BY DEF CloseAll
<1> HIDE DEF c
<1>2. \A i \in S : s.trans[i].status = "LISTENING" => s.trans[i].port \in PortsOf(s, live)
  BY DEF PortsOf
<1>3. \A i \in DOMAIN s.trans : s.trans[i].status # "DONE" => Ended(s.trans[i]).status = "DONE"
  BY EndedGood DEF Good, Typed
<1>4. Returned(c, s)
  BY <1>0, <1>1, <1>2, <1>3 DEF Returned, Closes
<1> QED BY <1>4 DEF c

\* t_closeconn of one that is not settled yet.
LEMMA CloseConnGood ==
  ASSUME NEW s, NEW i, Good(s, {i})
  PROVE  Good(CloseConn(s, i), {}) /\ Returned(CloseConn(s, i), s)
         /\ DOMAIN CloseConn(s, i).trans = DOMAIN s.trans
         /\ CloseConn(s, i).trans[i].status = "DONE"
<1> DEFINE E == {i} \ {i}
<1>1. E = {} /\ {i} \subseteq DOMAIN s.trans
  BY DEF Good
<1>2. Good(CloseAll(s, {i}), E) /\ Closes(CloseAll(s, {i}), s, {i})
  BY <1>1, CloseAllGood
<1>4. Returned(CloseAll(s, {i}), s)
  BY <1>1, CloseAllReturned
<1>5. s.trans[i] \in Record /\ s.trans[i].status # "DONE"
  BY <1>1 DEF Good, Typed
<1>6. Ended(s.trans[i]).status = "DONE"
  BY <1>5 DEF Ended, Record
<1> QED BY <1>1, <1>2, <1>4, <1>5, <1>6 DEF CloseConn, Closes

\* Transfers are closed between two handlers.
LEMMA ClosedGood ==
  ASSUME NEW s, Good(s, {}), NEW S, S \subseteq DOMAIN s.trans
  PROVE  /\ Good(CloseAll(s, S), {}) /\ Returned(CloseAll(s, S), s)
         /\ DOMAIN CloseAll(s, S).trans = DOMAIN s.trans
         /\ \A i \in S : CloseAll(s, S).trans[i].status = "DONE"
         /\ \A i \in DOMAIN s.trans \ S : CloseAll(s, S).trans[i] = s.trans[i]
<1> DEFINE E == {} \ S
           c == CloseAll(s, S)
<1>1. E = {}
  OBVIOUS
<1>2. Good(c, E) /\ Closes(c, s, S)
  BY CloseAllGood
<1>3. Returned(c, s)
  BY CloseAllReturned
<1>4. \A i \in DOMAIN s.trans : s.trans[i].status # "DONE" => Ended(s.trans[i]).status = "DONE"
  BY EndedGood DEF Good, Typed
<1> HIDE DEF c
<1>5. \A i \in S : c.trans[i].status = "DONE"
  BY <1>2, <1>4 DEF Closes
<1>6. \A i \in DOMAIN s.trans \ S : c.trans[i] = s.trans[i]
  BY <1>2 DEF Closes
<1>7. Good(c, {})
  BY <1>1, <1>2
<1> QED BY <1>2, <1>3, <1>5, <1>6, <1>7 DEF c, Closes

\* t_check_duplicateip.
LEMMA DuplicateGood ==
  ASSUME NEW s, Good(s, {}), NEW i
  PROVE  /\ Good(CheckDuplicateIp(s, i), {}) /\ Returned(CheckDuplicateIp(s, i), s)
<1>1. Returned(s, s)
  BY DEF Returned, Good, Typed
<1> DEFINE same == {j \in DOMAIN s.trans :
                      /\ s.trans[j].status = "SENDING" /\ ~s.trans[j].man
                      /\ s.trans[j].remoteip = s.trans[i].remoteip}
<1>2. CheckDuplicateIp(s, i) = s \/ CheckDuplicateIp(s, i) = CloseAll(s, same)
  BY DEF CheckDuplicateIp
<1>3. same \subseteq DOMAIN s.trans
  OBVIOUS
<1> HIDE DEF same
<1>4. Good(CloseAll(s, same), {}) /\ Returned(CloseAll(s, same), s)
  BY <1>3, ClosedGood
<1> QED BY <1>1, <1>2, <1>4

\* Ports are added to the list or leave it.
LEMMA PortsGood ==
  ASSUME NEW s, NEW X, Good(s, X), NEW P, P \subseteq Port,
         \A j \in DOMAIN s.trans \ X : s.trans[j].status = "LISTENING" => s.trans[j].port \in P
  PROVE  LET w == [s EXCEPT !.ports = P]
         IN Good(w, X) /\ w.trans = s.trans /\ w.file = s.file /\ w.ports = P
<1> DEFINE w == [s EXCEPT !.ports = P]
<1>1. Typed(s)
  BY DEF Good
<1>2. w = [trans |-> s.trans, file |-> s.file, ports |-> P]
  BY <1>1 DEF Typed
<1>3. w.trans = s.trans /\ w.file = s.file /\ w.ports = P
  BY <1>2
<1> HIDE DEF w
<1>4. Typed(w)
  BY <1>1, <1>2, <1>3 DEF Typed
<1>5. \A p \in Pack : Live(w, p) = Live(s, p) /\ \A k : Readers(w, p, k) = Readers(s, p, k)
  BY <1>3 DEF Live, Readers
<1>6. \A p \in Pack : FileKept(w, p)
  BY <1>3, <1>5 DEF Good, FileKept
<1>7. \A j \in DOMAIN w.trans \ X : Settled(w, j)
  BY <1>3 DEF Good, Settled
<1>8. Good(w, X)
  BY <1>3, <1>4, <1>6, <1>7 DEF Good
<1> QED BY <1>3, <1>8 DEF w

\* What ir_bind_listen_socket may get: a port that nobody listens on.
LEMMA BindableFree ==
  ASSUME NEW s, NEW taken, NEW x \in Bindable(s, taken)
  PROVE  x \in Port /\ \A j \in DOMAIN s.trans : s.trans[j].lsock => s.trans[j].port # x
<1> DEFINE max == maxtrans + Cardinality(s.ports)
           bound == {s.trans[i].port : i \in {j \in DOMAIN s.trans : s.trans[j].lsock}}
           free == (1..(PortMod - 1)) \ (taken \cup bound)
           good == {r \in 0..(max - 1) : /\ \A q \in 0..r : PortTry(q) <= tcprangelimit
                                         /\ PortTry(r) \notin s.ports
                                         /\ PortTry(r) \in free \cup {0}}
           first == CHOOSE r \in good : \A q \in good : r <= q
<1>1. /\ tcprangestart = 0 => x \in Ephemeral \cap free
      /\ tcprangestart # 0 =>
           /\ good # {}
           /\ IF PortTry(first) = 0 THEN x \in Ephemeral \cap free ELSE x = PortTry(first)
  <2> HIDE DEF good, free
  <2>1. Bindable(s, taken) = IF tcprangestart = 0 THEN Ephemeral \cap free
                             ELSE IF good = {} THEN {}
                             ELSE IF PortTry(first) = 0 THEN Ephemeral \cap free
                             ELSE {PortTry(first)}
    BY DEF Bindable, good, free
  <2> HIDE DEF first
  <2> QED BY <2>1
<1>2. good \subseteq Nat
  OBVIOUS
<1>3. good # {} => PortTry(first) \in free \cup {0}
  <2>1. good # {} => first \in good
    <3> HIDE DEF good
    <3>1. good # {} => \E m \in good : \A k \in good : m <= k
      BY <1>2, LeastNat
    <3> QED BY <3>1
  <2> QED BY <2>1
<1>4. x \in free
  <2> HIDE DEF free, good, first
  <2> QED BY <1>1, <1>3
<1>5. x \in Port
  BY <1>4, TransferAssumption DEF Port
<1>6. \A j \in DOMAIN s.trans : s.trans[j].lsock => s.trans[j].port # x
  BY <1>4
<1> QED BY <1>5, <1>6

\* t_setup_send, of a transfer z that has its socket.
LEMMA SetupSendGood ==
  ASSUME NEW s, NEW i \in DOMAIN s.trans, NEW opens \in BOOLEAN, NEW z,
         Typed(s), z = With(s, i, [s.trans[i] EXCEPT !.status = "SENDING"]),
         Good(z, {i}), z.trans[i].status = "SENDING",
         z.trans[i].csock, ~z.trans[i].lsock, z.trans[i].mmap = {},
         z.trans[i].ack = z.trans[i].start
  PROVE  Good(SetupSend(s, i, opens), {}) /\ Returned(SetupSend(s, i, opens), z)
<1> DEFINE t == [s.trans[i] EXCEPT !.status = "SENDING"]
           p == t.pack
           f == s.file[p]
           new == ~f.fd
           u == [t EXCEPT !.dcc64 = @ \/ (new /\ mirc_dcc64 /\ p \in Large),
                          !.sent = t.start, !.age = 0]
           g == IF new THEN [f EXCEPT !.fd = TRUE, !.loc = 0, !.pos = 0] ELSE f
           opened == [With(s, i, u) EXCEPT !.file = [s.file EXCEPT ![p] = g]]
           v == [u EXCEPT !.remoteip = IF t.family = 4 THEN t.remote ELSE @]
           w == SetupSend(s, i, opens)
<1> SUFFICES Good(w, {}) /\ Returned(w, z)
  OBVIOUS
<1>1. w = IF new /\ ~opens THEN CloseConn(z, i)
          ELSE IF t.remote \in Denied THEN CloseConn(opened, i) ELSE With(opened, i, v)
  BY DEF SetupSend
<1>2. /\ z.trans[i] = t /\ z.file = s.file /\ DOMAIN z.trans = DOMAIN s.trans
      /\ s = [trans |-> s.trans, file |-> s.file, ports |-> s.ports]
      /\ With(s, i, u) = With(z, i, u)
  <2> HIDE DEF t, u
  <2>1. s = [trans |-> s.trans, file |-> s.file, ports |-> s.ports]
    BY DEF Typed
  <2>2. z = [trans |-> [s.trans EXCEPT ![i] = t], file |-> s.file, ports |-> s.ports]
    BY <2>1 DEF With, t
  <2>3. z.trans[i] = t /\ z.file = s.file /\ DOMAIN z.trans = DOMAIN s.trans
    BY <2>2
  <2>4. [z.trans EXCEPT ![i] = u] = [s.trans EXCEPT ![i] = u]
    BY <2>2
  <2> QED BY <2>1, <2>2, <2>3, <2>4 DEF With
<1>3. t \in Record /\ Progress(t) /\ p \in Pack /\ s.file[p] \in FileRecord(p)
  <2>1. z.trans[i] \in Record /\ Progress(z.trans[i])
    BY <1>2 DEF Good, Typed
  <2>2. t \in Record /\ Progress(t)
    <3> HIDE DEF t
    <3> QED BY <1>2, <2>1
  <2>3. t.pack \in Pack
    <3> HIDE DEF t
    <3> QED BY <2>2 DEF Record
  <2> QED BY <2>2, <2>3, <1>2 DEF Good, Typed
<1>4. t.status = "SENDING" /\ t.csock /\ ~t.lsock /\ t.mmap = {} /\ t.ack = t.start
  <2> HIDE DEF t
  <2> QED BY <1>2
<1>5. FileKept(z, p) /\ i \in Live(z, p) /\ z.file[p] = f /\ f \in FileRecord(p)
  <2> HIDE DEF t
  <2> QED BY <1>2, <1>3, <1>4 DEF Good, Live
<1> HIDE DEF t
<1>6. u \in Record
  <2>1. t.start \in Nat /\ 0 \in Nat /\ (t.dcc64 \/ (new /\ mirc_dcc64 /\ p \in Large)) \in BOOLEAN
    BY <1>3 DEF Record
  <2> QED BY <1>3, <2>1 DEF Record
<1>7. /\ u.pack = p /\ u.mmap = {} /\ u.status = "SENDING" /\ u.start = t.start
      /\ u.sent = t.start /\ u.ack = t.start /\ u.family = t.family /\ u.remote = t.remote
      /\ u.port = t.port
  BY <1>3, <1>4 DEF Record
<1>8. u.intact = t.intact /\ u.flushed = t.flushed /\ u.lsock = t.lsock /\ u.csock = t.csock
  BY <1>3 DEF Record
<1>9. Progress(u)
  <2> HIDE DEF u
  <2> QED BY <1>3, <1>4, <1>7, <1>8 DEF Progress
<1> DEFINE a == With(z, i, u)
           E == {i} \cup {i}
<1>10. E = {i}
  OBVIOUS
<1>11. Good(a, E) /\ Only(a, z, i, u) /\ a.file = z.file /\ Typed(a)
       /\ \A q \in Pack : Live(a, q) = Live(z, q)
  <2>1. z.trans[i].status # "DONE" /\ i \in DOMAIN z.trans /\ u.pack = z.trans[i].pack
        /\ u.mmap = z.trans[i].mmap /\ u.status # "DONE" /\ u.status # "LISTENING"
    <3> HIDE DEF u
    <3> QED BY <1>2, <1>4, <1>7
  <2> HIDE DEF u
  <2> QED BY <1>6, <1>9, <2>1, WithGood
<1>12. /\ g \in FileRecord(p) /\ g.count = f.count /\ g.refs = f.refs /\ g.fd /\ g.loc = g.pos
  <2> HIDE DEF p
  <2>1. CASE new
    <3>1. g = [f EXCEPT !.fd = TRUE, !.loc = 0, !.pos = 0] /\ 0 \in 0..Size[p]
      BY <2>1, <1>3, TransferAssumption
    <3> HIDE DEF g, f
    <3> QED BY <3>1, <1>5 DEF FileRecord
  <2>2. CASE ~new
    <3>1. g = f /\ f.fd
      BY <2>2
    <3> HIDE DEF g, f
    <3> QED BY <3>1, <1>5 DEF FileKept
  <2> QED BY <2>1, <2>2
<1>13. opened = [a EXCEPT !.file = [a.file EXCEPT ![p] = g]]
  BY <1>2, <1>11
<1>14. /\ Good(opened, {i}) /\ opened.trans = a.trans /\ opened.file[p] = g
       /\ opened.ports = a.ports
  <2>1. Good(a, {i}) /\ a.file[p] = f /\ Live(a, p) # {} /\ Typed(a)
    <3> HIDE DEF a
    <3> QED BY <1>2, <1>3, <1>5, <1>10, <1>11
  <2> HIDE DEF a, g, f, p, opened
  <2>2. Good(opened, {i}) /\ opened.trans = a.trans /\ opened.file[p] = g
    BY <1>3, <1>12, <1>13, <2>1, FileGood
  <2>3. opened.ports = a.ports
    BY <1>13, <2>1 DEF Typed
  <2> QED BY <2>2, <2>3
<1>15. Returned(opened, z)
  <2>1. Returned(a, z)
    <3>1. z.ports \subseteq Port /\ i \in DOMAIN z.trans /\ z.trans[i].status # "LISTENING"
          /\ u.status # "LISTENING"
      <4> HIDE DEF u
      <4> QED BY <1>2, <1>4, <1>7 DEF Good, Typed
    <3> HIDE DEF a, u
    <3> QED BY <1>11, <3>1, OnlyReturned
  <2> HIDE DEF a, opened
  <2> QED BY <1>14, <2>1 DEF Returned
<1>16. CASE new /\ ~opens
  <2> HIDE DEF w
  <2> QED BY <1>1, <1>16, CloseConnGood
<1>17. CASE ~(new /\ ~opens) /\ t.remote \in Denied
  <2>1. w = CloseConn(opened, i)
    BY <1>1, <1>17
  <2>2. Good(w, {}) /\ Returned(w, opened)
    <3> HIDE DEF w, opened
    <3> QED BY <2>1, <1>14, CloseConnGood
  <2> HIDE DEF w, opened
  <2> QED BY <2>2, <1>15, ReturnedTrans
<1>18. CASE ~(new /\ ~opens) /\ t.remote \notin Denied
  <2>1. w = With(opened, i, v)
    BY <1>1, <1>18
  <2>2. opened.trans[i] = u /\ i \in DOMAIN opened.trans
    <3> HIDE DEF a, u, opened
    <3> QED BY <1>2, <1>11, <1>14 DEF Only
  <2>3. v \in Record
    <3> HIDE DEF u
    <3>1. (IF t.family = 4 THEN t.remote ELSE u.remoteip) \in Addr4 \cup {NoAddr}
      BY <1>3, <1>6 DEF Record, Progress
    <3> QED BY <1>6, <3>1 DEF Record
  <2>4. /\ v.pack = p /\ v.mmap = {} /\ v.status = "SENDING" /\ v.start = t.start
        /\ v.sent = t.start /\ v.ack = t.start /\ v.family = t.family /\ v.remote = t.remote
        /\ v.intact = u.intact /\ v.flushed = u.flushed /\ v.lsock = u.lsock /\ v.csock = u.csock
    <3> HIDE DEF u
    <3> QED BY <1>6, <1>7 DEF Record
  <2>5. Progress(v)
    <3> HIDE DEF u, v
    <3> QED BY <1>7, <1>9, <2>4 DEF Progress
  <2>6. Good(w, E) /\ Only(w, opened, i, v) /\ w.file = opened.file
    <3>1. opened.trans[i].status # "DONE" /\ v.pack = opened.trans[i].pack
          /\ v.mmap = opened.trans[i].mmap /\ v.status # "DONE" /\ v.status # "LISTENING"
      <4> HIDE DEF u, v, opened
      <4> QED BY <1>7, <2>2, <2>4
    <3> HIDE DEF u, v, opened, w
    <3> QED BY <1>14, <2>1, <2>2, <2>3, <2>5, <3>1, WithGood
  <2>7. Settled(w, i)
    <3> HIDE DEF u, v, opened, w, g
    <3>1. w.trans[i] = v /\ w.file[p].fd
      BY <1>12, <1>14, <2>6 DEF Only
    <3>2. t.start \in Nat
      BY <1>3 DEF Record
    <3>3. /\ v.csock = t.csock /\ v.lsock = t.lsock /\ t.csock /\ ~t.lsock
          /\ v.status = "SENDING" /\ v.pack = p /\ v.ack <= v.sent
      BY <1>4, <1>8, <2>4, <3>2
    <3> HIDE DEF p
    <3> QED BY <3>1, <3>3 DEF Settled
  <2>8. Good(w, {})
    <3> HIDE DEF w
    <3> QED BY <1>10, <2>6, <2>7, SettleGood
  <2>9. Returned(w, opened)
    <3>1. opened.ports \subseteq Port /\ opened.trans[i].status # "LISTENING"
          /\ v.status # "LISTENING"
      <4> HIDE DEF u, v, opened
      <4> QED BY <1>7, <1>14, <2>2, <2>4 DEF Good, Typed
    <3> HIDE DEF u, v, opened, w
    <3> QED BY <2>2, <2>6, <3>1, OnlyReturned
  <2> HIDE DEF w, opened
  <2> QED BY <2>8, <2>9, <1>15, ReturnedTrans
<1> QED BY <1>16, <1>17, <1>18

\* t_setuplisten: nobody else listens on the port that it got.
LEMMA SetupListenGood ==
  ASSUME NEW s, Good(s, {}), NEW i \in DOMAIN s.trans, s.trans[i].status = "RESUME",
         NEW taken, NEW w \in SetupListen(s, i, taken)
  PROVE  Good(w, {}) /\ DOMAIN w.trans = DOMAIN s.trans
<1>1. Typed(s) /\ s.trans[i] \in Record /\ Progress(s.trans[i]) /\ Settled(s, i)
  BY DEF Good, Typed
<1>2. {i} \subseteq DOMAIN s.trans
  OBVIOUS
<1>3. Good(CloseConn(s, i), {}) /\ DOMAIN CloseConn(s, i).trans = DOMAIN s.trans
      /\ Returned(CloseConn(s, i), s)
  BY <1>2, ClosedGood DEF CloseConn
<1>4. CASE w = CloseConn(s, i)
  BY <1>3, <1>4
<1>5. ASSUME NEW x \in Bindable(s, taken), w = [CloseConn(s, i) EXCEPT !.ports = @ \cup {x}]
      PROVE  Good(w, {}) /\ DOMAIN w.trans = DOMAIN s.trans
  <2> DEFINE c == CloseConn(s, i)
             P == c.ports \cup {x}
  <2>1. w = [c EXCEPT !.ports = P]
    BY <1>3, <1>5 DEF Good, Typed
  <2> HIDE DEF c
  <2>2. P \subseteq Port
    BY <1>3, BindableFree DEF Good, Typed, c
  <2>3. \A j \in DOMAIN c.trans \ {} : c.trans[j].status = "LISTENING" => c.trans[j].port \in P
    BY <1>3 DEF Good, Settled, c
  <2>4. Good(c, {}) /\ DOMAIN c.trans = DOMAIN s.trans
    BY <1>3 DEF c
  <2> HIDE DEF P
  <2>5. Good(w, {}) /\ w.trans = c.trans
    BY <2>1, <2>2, <2>3, <2>4, PortsGood
  <2> QED BY <2>4, <2>5
<1>6. ASSUME NEW x \in Bindable(s, taken),
             w = [With(s, i, [s.trans[i] EXCEPT !.status = "LISTENING", !.lsock = TRUE, !.port = x])
                    EXCEPT !.ports = @ \cup {x}]
      PROVE  Good(w, {}) /\ DOMAIN w.trans = DOMAIN s.trans
  <2> DEFINE t == [s.trans[i] EXCEPT !.status = "LISTENING", !.lsock = TRUE, !.port = x]
             a == With(s, i, t)
  <2>1. x \in Port /\ \A j \in DOMAIN s.trans : s.trans[j].lsock => s.trans[j].port # x
    BY BindableFree
  <2>2. /\ t \in Record /\ t.pack = s.trans[i].pack /\ t.mmap = s.trans[i].mmap
        /\ t.status = "LISTENING" /\ t.start = s.trans[i].start /\ t.sent = s.trans[i].sent
        /\ t.ack = s.trans[i].ack /\ t.family = s.trans[i].family
        /\ t.remote = s.trans[i].remote /\ t.port = x
    BY <1>1, <2>1 DEF Record, Status
  <2>3. t.intact = s.trans[i].intact /\ t.flushed = s.trans[i].flushed
        /\ t.csock = s.trans[i].csock /\ t.lsock = TRUE
    BY <1>1 DEF Record
  <2>4. Progress(t)
    <3> HIDE DEF t
    <3> QED BY <1>1, <2>2, <2>3 DEF Progress
  <2>5. /\ Typed(a) /\ Only(a, s, i, t) /\ a.file = s.file
        /\ \A j \in DOMAIN s.trans : Progress(a.trans[j])
        /\ \A p \in Pack : FileKept(a, p) /\ Live(a, p) = Live(s, p)
        /\ \A j \in DOMAIN s.trans \ {i} : Settled(s, j) => Settled(a, j)
    <3>1. /\ t \in Record /\ t.pack = s.trans[i].pack /\ t.mmap = s.trans[i].mmap
          /\ t.status # "DONE" /\ s.trans[i].status # "DONE"
      <4> HIDE DEF t
      <4> QED BY <2>2
    <3> HIDE DEF t
    <3> QED BY <2>4, <3>1, WithGood
  <2>6. w = [trans |-> a.trans, file |-> a.file, ports |-> a.ports \cup {x}]
    <3> HIDE DEF a
    <3> QED BY <1>6, <2>5 DEF Typed, a
  <2> HIDE DEF a
  <2>7. /\ w.trans = a.trans /\ w.file = s.file /\ w.ports = s.ports \cup {x}
        /\ DOMAIN w.trans = DOMAIN s.trans /\ w.trans[i] = t
        /\ \A j \in DOMAIN s.trans \ {i} : w.trans[j] = s.trans[j]
    BY <2>5, <2>6 DEF Only
  <2> HIDE DEF t
  <2>8. Typed(w)
    BY <2>1, <2>5, <2>6, <2>7, <1>1 DEF Typed
  <2>9. \A p \in Pack : FileKept(w, p)
    <3>1. \A p \in Pack : Live(w, p) = Live(a, p) /\ \A k : Readers(w, p, k) = Readers(a, p, k)
      BY <2>7 DEF Live, Readers
    <3>2. w.file = a.file
      BY <2>5, <2>7
    <3> QED BY <2>5, <3>1, <3>2 DEF FileKept
  <2>10. ASSUME NEW j \in DOMAIN w.trans PROVE Settled(w, j)
    <3>1. CASE j = i
      <4>1. s.trans[i].csock = FALSE
        BY <1>1 DEF Settled, Record
      <4> QED BY <3>1, <4>1, <2>2, <2>3, <2>7 DEF Settled
    <3>2. CASE j # i
      <4>1. Settled(s, j)
        BY <2>7 DEF Good
      <4> QED BY <3>2, <4>1, <2>7 DEF Settled
    <3> QED BY <3>1, <3>2
  <2>11. \A j \in DOMAIN s.trans : s.trans[j].status = "LISTENING" => s.trans[j].port # x
    BY <2>1 DEF Good, Settled
  <2>12. ASSUME NEW j \in DOMAIN w.trans, NEW k \in DOMAIN w.trans,
                w.trans[j].status = "LISTENING", w.trans[k].status = "LISTENING",
                w.trans[j].port = w.trans[k].port
         PROVE  j = k
    <3>1. CASE j = i
      BY <3>1, <2>2, <2>7, <2>11, <2>12
    <3>2. CASE k = i
      BY <3>2, <2>2, <2>7, <2>11, <2>12
    <3>3. CASE j # i /\ k # i
      BY <3>3, <2>7, <2>12 DEF Good
    <3> QED BY <3>1, <3>2, <3>3
  <2>13. \A j \in DOMAIN w.trans : Progress(w.trans[j])
    BY <2>5, <2>7
  <2>14. Good(w, {})
    BY <2>8, <2>9, <2>10, <2>12, <2>13 DEF Good
  <2> QED BY <2>7, <2>14
<1> QED BY <1>4, <1>5, <1>6 DEF SetupListen

\* A transfer that is done changes: nothing is counted for it any more.
LEMMA DoneGood ==
  ASSUME NEW s, Good(s, {}), NEW i \in DOMAIN s.trans, s.trans[i].status = "DONE",
         NEW t \in Record, Progress(t), t.status = "DONE", ~t.lsock, ~t.csock
  PROVE  Good(With(s, i, t), {}) /\ Returned(With(s, i, t), s)
<1> DEFINE w == With(s, i, t)
<1>1. Typed(s)
  BY DEF Good
<1>2. w = [trans |-> [s.trans EXCEPT ![i] = t], file |-> s.file, ports |-> s.ports]
  BY <1>1 DEF With, Typed
<1>3. /\ DOMAIN w.trans = DOMAIN s.trans /\ w.file = s.file /\ w.ports = s.ports
      /\ w.trans[i] = t /\ \A j \in DOMAIN s.trans \ {i} : w.trans[j] = s.trans[j]
      /\ w.trans = [j \in DOMAIN w.trans |-> w.trans[j]]
  BY <1>1, <1>2 DEF Typed
<1>4. w = [trans |-> w.trans, file |-> w.file, ports |-> w.ports]
  BY <1>2
<1> HIDE DEF w
<1>5. Typed(w)
  BY <1>1, <1>3, <1>4 DEF Typed
<1>6. \A p \in Pack : Live(w, p) = Live(s, p)
  BY <1>3 DEF Live
<1>7. ASSUME NEW p \in Pack, NEW k PROVE Readers(w, p, k) = Readers(s, p, k)
  <2>1. \A j \in Live(s, p) : w.trans[j] = s.trans[j]
    BY <1>3 DEF Live
  <2> QED BY <1>6, <2>1 DEF Readers
<1>8. \A p \in Pack : FileKept(w, p)
  BY <1>3, <1>6, <1>7 DEF Good, FileKept
<1>9. \A j \in DOMAIN w.trans : Settled(w, j)
  BY <1>3 DEF Good, Settled
<1>10. \A j, k \in DOMAIN w.trans :
         w.trans[j].status = "LISTENING" /\ w.trans[k].status = "LISTENING"
           /\ w.trans[j].port = w.trans[k].port => j = k
  BY <1>3 DEF Good
<1>11. \A j \in DOMAIN w.trans : Progress(w.trans[j])
  BY <1>3 DEF Good
<1>12. Good(w, {})
  BY <1>5, <1>8, <1>9, <1>10, <1>11 DEF Good
<1>13. Returned(w, s)
  BY <1>3 DEF Returned
<1> QED BY <1>12, <1>13 DEF w

\* A transfer that is done is deleted.
LEMMA WithoutGood ==
  ASSUME NEW s, Good(s, {}), NEW i \in DOMAIN s.trans, s.trans[i].status = "DONE"
  PROVE  Good(Without(s, i), {}) /\ Returned(Without(s, i), s)
<1> DEFINE w == Without(s, i)
<1>1. Typed(s)
  BY DEF Good
<1>2. w = [trans |-> [j \in DOMAIN s.trans \ {i} |-> s.trans[j]], file |-> s.file, ports |-> s.ports]
  BY <1>1 DEF Without, Typed
<1>3. /\ DOMAIN w.trans = DOMAIN s.trans \ {i} /\ w.file = s.file /\ w.ports = s.ports
      /\ \A j \in DOMAIN w.trans : w.trans[j] = s.trans[j]
      /\ w.trans = [j \in DOMAIN w.trans |-> w.trans[j]]
  BY <1>2
<1>4. w = [trans |-> w.trans, file |-> w.file, ports |-> w.ports]
  BY <1>2
<1> HIDE DEF w
<1>5. Typed(w)
  BY <1>1, <1>3, <1>4 DEF Typed
<1>6. \A p \in Pack : Live(w, p) = Live(s, p)
  BY <1>3 DEF Live
<1>7. ASSUME NEW p \in Pack, NEW k PROVE Readers(w, p, k) = Readers(s, p, k)
  <2>1. \A j \in Live(s, p) : w.trans[j] = s.trans[j]
    BY <1>3 DEF Live
  <2> QED BY <1>6, <2>1 DEF Readers
<1>8. \A p \in Pack : FileKept(w, p)
  BY <1>3, <1>6, <1>7 DEF Good, FileKept
<1>9. \A j \in DOMAIN w.trans : Settled(w, j) /\ Progress(w.trans[j])
  BY <1>3 DEF Good, Settled
<1>10. \A j, k \in DOMAIN w.trans :
         w.trans[j].status = "LISTENING" /\ w.trans[k].status = "LISTENING"
           /\ w.trans[j].port = w.trans[k].port => j = k
  BY <1>3 DEF Good
<1>11. Good(w, {})
  BY <1>5, <1>8, <1>9, <1>10 DEF Good
<1>12. Returned(w, s)
  BY <1>3 DEF Returned
<1> QED BY <1>11, <1>12 DEF w

\* The state with one more transfer, as create_transfer leaves it.
Added(s, i, t) ==
  [s EXCEPT !.trans = [j \in DOMAIN s.trans \cup {i} |-> IF j = i THEN t ELSE s.trans[j]],
            !.file = [s.file EXCEPT ![t.pack].count = @ + 1]]

\* create_transfer: one more user of the pack, with nothing open yet.
LEMMA CreateGood ==
  ASSUME NEW s, Good(s, {}), NEW i \in Id \ DOMAIN s.trans, NEW t \in Record, Progress(t),
         NEW p \in Pack, t.pack = p, t.status = "RESUME", ~t.lsock, ~t.csock, t.mmap = {}
  PROVE  /\ Good(Added(s, i, t), {}) /\ Added(s, i, t).trans[i] = t
         /\ DOMAIN Added(s, i, t).trans = DOMAIN s.trans \cup {i}
<1> DEFINE T == [j \in DOMAIN s.trans \cup {i} |-> IF j = i THEN t ELSE s.trans[j]]
           F == [s.file EXCEPT ![p].count = @ + 1]
           w == Added(s, i, t)
<1>1. Typed(s) /\ s.file[p] \in FileRecord(p)
  BY DEF Good, Typed
<1>2. w = [trans |-> T, file |-> F, ports |-> s.ports]
  <2>1. s = [trans |-> s.trans, file |-> s.file, ports |-> s.ports]
    BY <1>1 DEF Typed
  <2> DEFINE v == [s EXCEPT !.trans = T]
  <2> HIDE DEF T, F
  <2>2. v = [trans |-> T, file |-> s.file, ports |-> s.ports]
    BY <2>1
  <2>3. w = [v EXCEPT !.file = F]
    BY DEF Added, T, F
  <2> HIDE DEF v
  <2> QED BY <2>2, <2>3
<1>3. /\ w.trans = T /\ w.file = F /\ w.ports = s.ports
      /\ w = [trans |-> w.trans, file |-> w.file, ports |-> w.ports]
  <2> HIDE DEF T, F
  <2> QED BY <1>2
<1> HIDE DEF w
<1>4. /\ DOMAIN w.trans = DOMAIN s.trans \cup {i} /\ w.trans[i] = t
      /\ \A j \in DOMAIN s.trans : w.trans[j] = s.trans[j]
      /\ w.trans = [j \in DOMAIN w.trans |-> w.trans[j]]
  BY <1>3 DEF T
<1>5. /\ w.file = [q \in Pack |-> w.file[q]]
      /\ \A q \in Pack \ {p} : w.file[q] = s.file[q]
      /\ w.file[p] = [s.file[p] EXCEPT !.count = s.file[p].count + 1]
  BY <1>1, <1>3 DEF Typed
<1>6. /\ w.file[p] \in FileRecord(p) /\ w.file[p].count = s.file[p].count + 1
      /\ w.file[p].fd = s.file[p].fd /\ w.file[p].loc = s.file[p].loc
      /\ w.file[p].pos = s.file[p].pos /\ w.file[p].refs = s.file[p].refs
  BY <1>1, <1>5 DEF FileRecord
<1>7. Typed(w)
  <2>1. \A q \in Pack : w.file[q] \in FileRecord(q)
    BY <1>1, <1>5, <1>6 DEF Typed
  <2>2. DOMAIN w.trans \subseteq Id /\ \A j \in DOMAIN w.trans : w.trans[j] \in Record
    BY <1>1, <1>4 DEF Typed
  <2> QED BY <1>1, <1>3, <1>4, <1>5, <2>1, <2>2 DEF Typed
<1>8. ASSUME NEW q \in Pack, NEW k PROVE Readers(w, q, k) = Readers(s, q, k)
  BY <1>4 DEF Readers, Live
<1>9. \A q \in Pack : FileKept(w, q)
  <2> SUFFICES ASSUME NEW q \in Pack PROVE FileKept(w, q)
    OBVIOUS
  <2>1. FileKept(s, q)
    BY DEF Good
  <2>2. CASE q = p
    <3>1. Live(w, p) = Live(s, p) \cup {i} /\ i \notin Live(s, p)
      BY <1>4 DEF Live
    <3>2. IsFiniteSet(Live(s, p))
      BY <1>1, Finite
    <3>3. Cardinality(Live(w, p)) = Cardinality(Live(s, p)) + 1
      BY <3>1, <3>2, FS_AddElement
    <3> QED BY <2>1, <2>2, <3>1, <3>3, <1>6, <1>8 DEF FileKept
  <2>3. CASE q # p
    <3>1. Live(w, q) = Live(s, q) /\ w.file[q] = s.file[q]
      BY <2>3, <1>4, <1>5 DEF Live
    <3> QED BY <2>1, <3>1, <1>8 DEF FileKept
  <2> QED BY <2>2, <2>3
<1>10. \A j \in DOMAIN w.trans : Progress(w.trans[j])
  BY <1>4 DEF Good
<1>11. ASSUME NEW j \in DOMAIN w.trans PROVE Settled(w, j)
  <2>1. CASE j = i
    BY <2>1, <1>4 DEF Settled
  <2>2. CASE j # i
    <3>1. Settled(s, j) /\ w.trans[j] = s.trans[j] /\ s.trans[j].pack \in Pack
      BY <2>2, <1>1, <1>4 DEF Good, Typed, Record
    <3>2. w.file[s.trans[j].pack].fd = s.file[s.trans[j].pack].fd
      BY <3>1, <1>5, <1>6
    <3> QED BY <3>1, <3>2, <1>3 DEF Settled
  <2> QED BY <2>1, <2>2
<1>12. \A j, k \in DOMAIN w.trans :
         w.trans[j].status = "LISTENING" /\ w.trans[k].status = "LISTENING"
           /\ w.trans[j].port = w.trans[k].port => j = k
  BY <1>4 DEF Good
<1>13. Good(w, {})
  BY <1>7, <1>9, <1>10, <1>11, <1>12 DEF Good
<1> QED BY <1>4, <1>13 DEF w

\* Between two handlers: a step that becomes a good state.
LEMMA BecomesGood ==
  ASSUME NEW w, Good(w, {}), Becomes(w), transfermethod' \in Method
  PROVE  TransferInv'
<1>1. w = [trans |-> w.trans, file |-> w.file, ports |-> w.ports]
  BY DEF Good, Typed
<1>2. Now' = w
  BY <1>1 DEF Now, Becomes
<1> QED BY <1>2 DEF TransferInv

\* ... in which listeners have given their ports back.
LEMMA BecomesReturned ==
  ASSUME NEW w, Returned(w, Now), Becomes(w)
  PROVE  Returned(Now', Now)
BY DEF Returned, Becomes, Now

\* The state of the variables.
LEMMA NowFields ==
  Now.trans = trans /\ Now.file = file /\ Now.ports = listen_ports
BY DEF Now

\* A transfer that changes in nothing the others depend on.
LEMMA QuietGood ==
  ASSUME NEW s, Good(s, {}), NEW i \in DOMAIN s.trans, NEW t \in Record, Progress(t),
         t.pack = s.trans[i].pack, t.mmap = s.trans[i].mmap,
         t.status = s.trans[i].status, t.status # "DONE", t.port = s.trans[i].port,
         t.lsock = s.trans[i].lsock, t.csock = s.trans[i].csock,
         t.status \in {"SENDING", "WAITING"} => t.ack <= t.sent
  PROVE  Good(With(s, i, t), {}) /\ Returned(With(s, i, t), s)
<1> DEFINE w == With(s, i, t)
<1>1. /\ Typed(w) /\ Only(w, s, i, t) /\ w.file = s.file
      /\ \A j \in DOMAIN s.trans : Progress(w.trans[j])
      /\ \A p \in Pack : FileKept(w, p)
      /\ \A j \in DOMAIN s.trans \ {i} : Settled(s, j) => Settled(w, j)
  BY WithGood
<1> HIDE DEF w
<1>2. \A j \in DOMAIN w.trans : Settled(w, j)
  <2>1. Settled(w, i)
    <3>1. Settled(s, i) /\ w.trans[i] = t /\ w.ports = s.ports
      BY <1>1 DEF Good, Only
    <3> QED BY <3>1, <1>1 DEF Settled
  <2> QED BY <2>1, <1>1 DEF Good, Only
<1>3. \A j, k \in DOMAIN w.trans :
         w.trans[j].status = "LISTENING" /\ w.trans[k].status = "LISTENING"
           /\ w.trans[j].port = w.trans[k].port => j = k
  <2>1. \A j \in DOMAIN s.trans : w.trans[j].status = s.trans[j].status /\ w.trans[j].port = s.trans[j].port
    BY <1>1 DEF Only
  <2> QED BY <1>1, <2>1 DEF Good, Only
<1>4. Good(w, {})
  BY <1>1, <1>2, <1>3 DEF Good, Only
<1>5. Returned(w, s)
  <2>1. s.ports \subseteq Port
    BY DEF Good, Typed
  <2> QED BY <1>1, <2>1, OnlyReturned
<1> QED BY <1>4, <1>5 DEF w

\* A step of the specification, from what its handler makes of the state.
LEMMA StepGood ==
  ASSUME NEW w, Good(w, {}), Returned(w, Now), Becomes(w), transfermethod' \in Method
  PROVE  TransferInv' /\ Returned(Now', Now)
BY BecomesGood, BecomesReturned

\* What is known of one transfer before a step.
LEMMA OneOf ==
  ASSUME TransferInv, NEW i \in DOMAIN trans
  PROVE  /\ Good(Now, {}) /\ transfermethod \in Method /\ Typed(Now)
         /\ Now.trans = trans /\ Now.file = file /\ Now.ports = listen_ports
         /\ Now = [trans |-> trans, file |-> file, ports |-> listen_ports]
         /\ trans[i] \in Record /\ Progress(trans[i]) /\ Settled(Now, i)
         /\ trans[i].pack \in Pack /\ Size[trans[i].pack] \in Nat
         /\ file[trans[i].pack] \in FileRecord(trans[i].pack)
         /\ FileKept(Now, trans[i].pack)
<1>1. Now = [trans |-> trans, file |-> file, ports |-> listen_ports] /\ Good(Now, {})
  BY DEF Now, TransferInv
<1>2. Now.trans = trans /\ Now.file = file /\ Now.ports = listen_ports
  BY <1>1
<1>3. trans[i] \in Record /\ Progress(trans[i]) /\ Settled(Now, i) /\ Typed(Now)
  BY <1>1, <1>2 DEF Good, Typed
<1>4. trans[i].pack \in Pack
  BY <1>3 DEF Record
<1> QED BY <1>1, <1>2, <1>3, <1>4, TransferAssumption DEF TransferInv, Good, Typed

\* A resume moves the start of a transfer that has sent nothing: no file and no port is
\* touched, and what was acknowledged is what is skipped.
LEMMA FindResumeGood ==
  ASSUME TransferInv, NEW i \in DOMAIN trans, NEW start \in Nat, FindResume(i, start)
  PROVE  TransferInv' /\ Returned(Now', Now)
<1> DEFINE t == [trans[i] EXCEPT !.start = start, !.ack = start]
           w == With(Now, i, t)
<1>1. /\ Good(Now, {}) /\ Typed(Now) /\ transfermethod \in Method
      /\ Now.trans = trans /\ Now.file = file /\ Now.ports = listen_ports
      /\ trans[i] \in Record /\ Progress(trans[i]) /\ Size[trans[i].pack] \in Nat
  BY OneOf
<1>2. trans[i].status \in {"LISTENING", "RESUME"} /\ start < Size[trans[i].pack]
  BY DEF FindResume
<1>3. /\ t \in Record /\ t.pack = trans[i].pack /\ t.mmap = trans[i].mmap /\ t.port = trans[i].port
      /\ t.status = trans[i].status /\ t.start = start /\ t.ack = start /\ t.sent = trans[i].sent
      /\ t.family = trans[i].family /\ t.remote = trans[i].remote
  BY <1>1 DEF Record
<1>4. t.lsock = trans[i].lsock /\ t.csock = trans[i].csock /\ t.intact = trans[i].intact
      /\ t.flushed = trans[i].flushed
  BY <1>1 DEF Record
<1>5. trans' = [trans EXCEPT ![i] = t] /\ file' = file /\ listen_ports' = listen_ports
      /\ transfermethod' = transfermethod
  BY DEF FindResume
<1> HIDE DEF t
<1>6. Progress(t)
  BY <1>1, <1>2, <1>3, <1>4 DEF Progress
<1>7. Good(w, {}) /\ Returned(w, Now)
  <2>1. /\ t \in Record /\ t.pack = trans[i].pack /\ t.mmap = trans[i].mmap /\ t.port = trans[i].port
        /\ t.status = trans[i].status /\ t.status # "DONE"
        /\ t.status \notin {"SENDING", "WAITING"}
    BY <1>2, <1>3
  <2> HIDE DEF w
  <2> QED BY <1>1, <1>4, <1>6, <2>1, QuietGood DEF w
<1>8. Becomes(w)
  <2>1. Now = [trans |-> trans, file |-> file, ports |-> listen_ports]
    BY DEF Now
  <2> QED BY <2>1, <1>5 DEF Becomes, With
<1> HIDE DEF w
<1> QED BY <1>1, <1>5, <1>7, <1>8, StepGood

\* The answer of a passive user starts the connection, or closes the transfer.
LEMMA PassiveGood ==
  ASSUME TransferInv, NEW i \in DOMAIN trans, NEW a, Passive(i, a),
         a \in IF trans[i].family = 4 THEN Addr4 ELSE Addr6
  PROVE  TransferInv' /\ Returned(Now', Now)
<1> DEFINE t == [trans[i] EXCEPT !.remote = a, !.csock = TRUE]
           s == With(Now, i, t)
           u == [s.trans[i] EXCEPT !.status = "CONNECTING"]
           w == With(s, i, u)
           E == {} \cup {i}
           F == {i} \cup {i}
<1>0. E = {i} /\ F = {i}
  OBVIOUS
<1>1. /\ Good(Now, {}) /\ Typed(Now) /\ transfermethod \in Method /\ Settled(Now, i)
      /\ Now.trans = trans /\ Now.file = file /\ Now.ports = listen_ports
      /\ trans[i] \in Record /\ Progress(trans[i])
  BY OneOf
<1>2. /\ trans[i].status = "RESUME" /\ transfermethod' = transfermethod
      /\ Becomes(CloseConn(s, i)) \/ Becomes(w)
  BY DEF Passive
<1>3. /\ t \in Record /\ t.pack = trans[i].pack /\ t.mmap = trans[i].mmap
      /\ t.status = "RESUME" /\ t.start = trans[i].start /\ t.ack = trans[i].ack
      /\ t.sent = trans[i].sent /\ t.family = trans[i].family /\ t.remote = a
  BY <1>1, <1>2 DEF Record, Addr
<1>4. t.lsock = trans[i].lsock /\ t.csock = TRUE /\ t.intact = trans[i].intact
      /\ t.flushed = trans[i].flushed
  BY <1>1 DEF Record
<1> HIDE DEF t
<1>5. Progress(t)
  BY <1>1, <1>2, <1>3, <1>4 DEF Progress
<1>6. Good(s, E) /\ Only(s, Now, i, t)
  <2>1. /\ t \in Record /\ t.pack = trans[i].pack /\ t.mmap = trans[i].mmap
        /\ trans[i].status # "DONE" /\ t.status # "DONE" /\ t.status # "LISTENING"
    BY <1>2, <1>3
  <2> HIDE DEF s
  <2> QED BY <1>1, <1>5, <2>1, WithGood DEF s
<1>7. Good(s, {i}) /\ s.trans[i] = t /\ i \in DOMAIN s.trans /\ Returned(s, Now)
  <2>1. Now.trans[i].status # "LISTENING" /\ t.status # "LISTENING" /\ Now.ports \subseteq Port
    BY <1>1, <1>2, <1>3 DEF Typed
  <2>2. Returned(s, Now)
    <3> HIDE DEF s
    <3> QED BY <1>1, <1>6, <2>1, OnlyReturned
  <2> HIDE DEF s, E
  <2> QED BY <1>0, <1>1, <1>6, <2>2 DEF Only
<1> HIDE DEF s
<1>8. CASE Becomes(CloseConn(s, i))
  <2>1. Good(CloseConn(s, i), {}) /\ Returned(CloseConn(s, i), s)
    BY <1>7, CloseConnGood
  <2>2. Returned(CloseConn(s, i), Now)
    BY <1>7, <2>1, ReturnedTrans
  <2> QED BY <1>1, <1>2, <1>8, <2>1, <2>2, StepGood
<1>9. CASE Becomes(w)
  <2>1. u = [t EXCEPT !.status = "CONNECTING"]
    BY <1>7
  <2> HIDE DEF u
  <2>2. /\ u \in Record /\ u.pack = t.pack /\ u.mmap = t.mmap
        /\ u.status = "CONNECTING" /\ u.start = t.start /\ u.ack = t.ack
        /\ u.sent = t.sent /\ u.family = t.family /\ u.remote = a
    BY <1>3, <2>1 DEF Record, Status
  <2>3. u.lsock = t.lsock /\ u.csock = t.csock /\ u.intact = t.intact /\ u.flushed = t.flushed
    BY <1>3, <2>1 DEF Record
  <2>4. Progress(u)
    BY <1>3, <1>5, <2>2, <2>3 DEF Progress
  <2>5. Good(w, F) /\ Only(w, s, i, u)
    <3>1. /\ u \in Record /\ u.pack = s.trans[i].pack /\ u.mmap = s.trans[i].mmap
          /\ s.trans[i].status # "DONE" /\ u.status # "DONE" /\ u.status # "LISTENING"
      BY <1>3, <1>7, <2>2
    <3> HIDE DEF w
    <3> QED BY <1>7, <2>4, <3>1, WithGood DEF w
  <2>6. Settled(w, i)
    <3>1. trans[i].lsock = FALSE
      BY <1>1, <1>2 DEF Settled, Record
    <3>2. w.trans[i] = u /\ u.lsock = FALSE /\ u.csock = TRUE
      BY <1>4, <2>3, <2>5, <3>1 DEF Only
    <3> QED BY <2>2, <3>2 DEF Settled
  <2>7. Good(w, {})
    <3> HIDE DEF w, F
    <3> QED BY <1>0, <2>5, <2>6, SettleGood
  <2>8. Returned(w, s)
    <3>1. s.trans[i].status # "LISTENING" /\ u.status # "LISTENING" /\ s.ports \subseteq Port
      BY <1>3, <1>7, <2>2 DEF Good, Typed
    <3> HIDE DEF w
    <3> QED BY <1>7, <2>5, <3>1, OnlyReturned
  <2>9. Returned(w, Now)
    <3> HIDE DEF w
    <3> QED BY <1>7, <2>8, ReturnedTrans
  <2> HIDE DEF w
  <2> QED BY <1>1, <1>2, <1>9, <2>7, <2>9, StepGood
<1> QED BY <1>2, <1>8, <1>9

\* A passive connection that is made goes on to send; the file it counts is unchanged.
LEMMA ConnectedGood ==
  ASSUME TransferInv, NEW i \in DOMAIN trans, Connected(i)
  PROVE  TransferInv' /\ Returned(Now', Now)
<1> DEFINE t == [trans[i] EXCEPT !.status = "SENDING"]
           z == With(Now, i, t)
           E == {} \cup {i}
<1>0. E = {i}
  OBVIOUS
<1>1. /\ Good(Now, {}) /\ Typed(Now) /\ transfermethod \in Method /\ Settled(Now, i)
      /\ Now.trans = trans /\ Now.file = file /\ Now.ports = listen_ports
      /\ trans[i] \in Record /\ Progress(trans[i])
  BY OneOf
<1>2. /\ trans[i].status = "CONNECTING" /\ transfermethod' = transfermethod
      /\ \/ Becomes(CloseConn(Now, i))
         \/ \E opens \in BOOLEAN : Becomes(SetupSend(Now, i, opens))
  BY DEF Connected
<1>3. CASE Becomes(CloseConn(Now, i))
  <2>1. {i} \subseteq DOMAIN Now.trans
    BY <1>1
  <2>2. Good(CloseConn(Now, i), {}) /\ Returned(CloseConn(Now, i), Now)
    BY <1>1, <2>1, ClosedGood DEF CloseConn
  <2> QED BY <1>1, <1>2, <1>3, <2>2, StepGood
<1>4. ASSUME NEW opens \in BOOLEAN, Becomes(SetupSend(Now, i, opens))
      PROVE  TransferInv' /\ Returned(Now', Now)
  <2>1. /\ t \in Record /\ t.pack = trans[i].pack /\ t.mmap = trans[i].mmap
        /\ t.status = "SENDING" /\ t.start = trans[i].start /\ t.ack = trans[i].ack
        /\ t.sent = trans[i].sent /\ t.family = trans[i].family /\ t.remote = trans[i].remote
    BY <1>1 DEF Record, Status
  <2>2. t.lsock = trans[i].lsock /\ t.csock = trans[i].csock /\ t.intact = trans[i].intact
        /\ t.flushed = trans[i].flushed
    BY <1>1 DEF Record
  <2>3. trans[i].mmap = {} /\ trans[i].ack = trans[i].start /\ trans[i].flushed = FALSE
    BY <1>1, <1>2 DEF Progress, Record
  <2>4. z = With(Now, i, [Now.trans[i] EXCEPT !.status = "SENDING"])
    BY <1>1
  <2> HIDE DEF t
  <2>5. Progress(t)
    BY <1>1, <1>2, <2>1, <2>2, <2>3 DEF Progress
  <2>6. Good(z, E) /\ Only(z, Now, i, t)
    <3>1. /\ t \in Record /\ t.pack = trans[i].pack /\ t.mmap = trans[i].mmap
          /\ trans[i].status # "DONE" /\ t.status # "DONE" /\ t.status # "LISTENING"
      BY <1>2, <2>1
    <3> HIDE DEF z
    <3> QED BY <1>1, <2>5, <3>1, WithGood DEF z
  <2>7. /\ Good(z, {i}) /\ z.trans[i].status = "SENDING"
        /\ z.trans[i].mmap = {} /\ z.trans[i].ack = z.trans[i].start
    <3> HIDE DEF z, E
    <3> QED BY <1>0, <2>1, <2>3, <2>6 DEF Only
  <2>8. z.trans[i].csock /\ ~z.trans[i].lsock
    <3>1. trans[i].csock /\ ~trans[i].lsock
      BY <1>1, <1>2 DEF Settled
    <3> HIDE DEF z
    <3> QED BY <2>2, <2>6, <3>1 DEF Only
  <2> DEFINE w == SetupSend(Now, i, opens)
  <2>9. Good(w, {}) /\ Returned(w, z)
    <3> HIDE DEF z, w
    <3> QED BY <1>1, <2>4, <2>7, <2>8, SetupSendGood DEF w
  <2>10. Returned(z, Now)
    <3>1. Now.trans[i].status # "LISTENING" /\ t.status # "LISTENING" /\ Now.ports \subseteq Port
      BY <1>1, <1>2, <2>1 DEF Typed
    <3> HIDE DEF z
    <3> QED BY <1>1, <2>6, <3>1, OnlyReturned
  <2> HIDE DEF w, z
  <2>11. Returned(w, Now)
    BY <2>9, <2>10, ReturnedTrans
  <2>12. Becomes(w)
    BY <1>4 DEF w
  <2> QED BY <1>1, <1>2, <2>9, <2>11, <2>12, StepGood
<1> QED BY <1>2, <1>3, <1>4

\* A client that connects is sent the file on a socket of its own, and the transfers
\* of the same address are closed.
LEMMA NewConnectionGood ==
  ASSUME TransferInv, NEW i \in DOMAIN trans, NewConnection(i)
  PROVE  TransferInv' /\ Returned(Now', Now)
<1>1. /\ Good(Now, {}) /\ Typed(Now) /\ transfermethod \in Method /\ Settled(Now, i)
      /\ Now.trans = trans /\ Now.file = file /\ Now.ports = listen_ports
      /\ Now = [trans |-> trans, file |-> file, ports |-> listen_ports]
      /\ trans[i] \in Record /\ Progress(trans[i])
  BY OneOf
<1>2. trans[i].status = "LISTENING" /\ transfermethod' = transfermethod
  BY DEF NewConnection
<1>3. CASE Becomes(CheckDuplicateIp(CloseConn(Now, i), i))
  <2> DEFINE c == CloseConn(Now, i)
             w == CheckDuplicateIp(c, i)
  <2>1. {i} \subseteq DOMAIN Now.trans
    BY <1>1
  <2>2. Good(c, {}) /\ Returned(c, Now)
    BY <1>1, <2>1, ClosedGood DEF CloseConn
  <2>3. Good(w, {}) /\ Returned(w, c)
    <3> HIDE DEF c
    <3> QED BY <2>2, DuplicateGood
  <2>4. Returned(w, Now)
    <3> HIDE DEF c, w
    <3> QED BY <2>2, <2>3, ReturnedTrans
  <2>5. Becomes(w)
    BY <1>3
  <2> HIDE DEF w
  <2> QED BY <1>1, <1>2, <2>3, <2>4, <2>5, StepGood
<1>4. ASSUME NEW a \in IF trans[i].family = 4 THEN Addr4 ELSE Addr6, NEW opens \in BOOLEAN,
             Becomes(CheckDuplicateIp(
               SetupSend([With(Now, i, [trans[i] EXCEPT !.remote = a, !.csock = TRUE, !.lsock = FALSE])
                            EXCEPT !.ports = @ \ {trans[i].port}], i, opens), i))
      PROVE  TransferInv' /\ Returned(Now', Now)
  <2> DEFINE r == [trans[i] EXCEPT !.remote = a, !.csock = TRUE, !.lsock = FALSE]
             P == listen_ports \ {trans[i].port}
             s == [With(Now, i, r) EXCEPT !.ports = @ \ {trans[i].port}]
             t == [r EXCEPT !.status = "SENDING"]
             y == With(Now, i, t)
             z == [y EXCEPT !.ports = P]
             b == SetupSend(s, i, opens)
             w == CheckDuplicateIp(b, i)
             E == {} \cup {i}
  <2>0. E = {i}
    OBVIOUS
  <2>1. /\ r \in Record /\ r.pack = trans[i].pack /\ r.mmap = trans[i].mmap
        /\ r.status = "LISTENING" /\ r.start = trans[i].start /\ r.ack = trans[i].ack
        /\ r.sent = trans[i].sent /\ r.family = trans[i].family /\ r.remote = a
    BY <1>1, <1>2 DEF Record, Addr
  <2>2. r.lsock = FALSE /\ r.csock = TRUE /\ r.intact = trans[i].intact
        /\ r.flushed = trans[i].flushed
    BY <1>1 DEF Record
  <2>3. s = [trans |-> [trans EXCEPT ![i] = r], file |-> file, ports |-> P]
    <3> HIDE DEF r
    <3>1. With(Now, i, r) = [trans |-> [trans EXCEPT ![i] = r], file |-> file, ports |-> listen_ports]
      BY <1>1 DEF With
    <3> QED BY <3>1
  <2> HIDE DEF r
  <2>4. /\ t \in Record /\ t.pack = trans[i].pack /\ t.mmap = trans[i].mmap
        /\ t.status = "SENDING" /\ t.start = trans[i].start /\ t.ack = trans[i].ack
        /\ t.sent = trans[i].sent /\ t.family = trans[i].family /\ t.remote = a
    BY <2>1 DEF Record, Status
  <2>5. t.lsock = FALSE /\ t.csock = TRUE /\ t.intact = trans[i].intact
        /\ t.flushed = trans[i].flushed
    BY <2>1, <2>2 DEF Record
  <2>6. y = [trans |-> [trans EXCEPT ![i] = t], file |-> file, ports |-> listen_ports]
    <3> HIDE DEF t
    <3> QED BY <1>1 DEF With
  <2>7. z = [trans |-> [trans EXCEPT ![i] = t], file |-> file, ports |-> P]
    <3> HIDE DEF t, y
    <3> QED BY <2>6
  <2>8. z = With(s, i, [s.trans[i] EXCEPT !.status = "SENDING"]) /\ i \in DOMAIN s.trans
    <3>1. s.trans[i] = r /\ s.trans = [trans EXCEPT ![i] = r] /\ s.file = file /\ s.ports = P
          /\ i \in DOMAIN s.trans
      <4> HIDE DEF s
      <4> QED BY <2>3
    <3>2. [s.trans EXCEPT ![i] = t] = [trans EXCEPT ![i] = t]
      <4> HIDE DEF s, t
      <4> QED BY <3>1
    <3>3. With(s, i, t) = [trans |-> [s.trans EXCEPT ![i] = t], file |-> file, ports |-> P]
      <4> HIDE DEF s, t
      <4> QED BY <2>3 DEF With
    <3>4. [s.trans[i] EXCEPT !.status = "SENDING"] = t
      <4> HIDE DEF s
      <4> QED BY <3>1
    <3> HIDE DEF s, t, z
    <3> QED BY <3>1, <3>2, <3>3, <3>4, <2>7
  <2> HIDE DEF t, s
  <2>9. Typed(s)
    <3>1. s.trans = [trans EXCEPT ![i] = r] /\ s.file = file /\ s.ports = P
      BY <2>3
    <3>2. /\ s.trans = [j \in DOMAIN s.trans |-> s.trans[j]] /\ DOMAIN s.trans = DOMAIN trans
          /\ \A j \in DOMAIN trans : s.trans[j] \in Record
      BY <1>1, <2>1, <3>1 DEF Typed
    <3>3. s = [trans |-> s.trans, file |-> s.file, ports |-> s.ports]
      BY <2>3
    <3> QED BY <1>1, <3>1, <3>2, <3>3 DEF Typed
  <2>10. Progress(t)
    <3>1. trans[i].flushed = FALSE
      BY <1>1, <1>2 DEF Progress, Record
    <3> QED BY <1>1, <1>2, <1>4, <2>4, <2>5, <3>1 DEF Progress
  <2>11. Good(y, E) /\ Only(y, Now, i, t)
    <3>1. /\ t \in Record /\ t.pack = trans[i].pack /\ t.mmap = trans[i].mmap
          /\ trans[i].status # "DONE" /\ t.status # "DONE" /\ t.status # "LISTENING"
      BY <1>2, <2>4
    <3> HIDE DEF y
    <3> QED BY <1>1, <2>10, <3>1, WithGood DEF y
  <2> HIDE DEF y
  <2>12. Good(y, {i}) /\ y.trans[i] = t /\ DOMAIN y.trans = DOMAIN trans
         /\ \A j \in DOMAIN trans \ {i} : y.trans[j] = trans[j]
    <3> HIDE DEF E
    <3> QED BY <1>1, <2>0, <2>11 DEF Only
  <2>13. \A j \in DOMAIN trans \ {i} : trans[j].status = "LISTENING" => trans[j].port \in P
    BY <1>1, <1>2 DEF Good, Settled
  <2>14. Good(z, {i}) /\ z.trans = y.trans /\ z.ports = P
    <3>1. P \subseteq Port
      BY <1>1 DEF Typed
    <3>2. \A j \in DOMAIN y.trans \ {i} : y.trans[j].status = "LISTENING" => y.trans[j].port \in P
      <4> HIDE DEF P
      <4> QED BY <2>12, <2>13
    <3> HIDE DEF P
    <3> QED BY <2>12, <3>1, <3>2, PortsGood
  <2> HIDE DEF z
  <2>15. Returned(z, Now)
    <3>1. z.ports \subseteq listen_ports /\ trans[i].port \notin z.ports
      BY <2>14
    <3> QED BY <1>1, <2>4, <2>12, <2>13, <2>14, <3>1 DEF Returned
  <2>16. Good(b, {}) /\ Returned(b, z)
    <3>1. /\ z.trans[i].status = "SENDING" /\ z.trans[i].mmap = {}
          /\ z.trans[i].ack = z.trans[i].start
      BY <1>1, <1>2, <2>4, <2>12, <2>14 DEF Progress
    <3>2. z.trans[i].csock /\ ~z.trans[i].lsock
      BY <2>5, <2>12, <2>14
    <3> HIDE DEF b
    <3> QED BY <2>8, <2>9, <2>14, <3>1, <3>2, SetupSendGood DEF b
  <2>17. Becomes(w)
    BY <1>4 DEF s, r
  <2> HIDE DEF b
  <2>18. Good(w, {}) /\ Returned(w, b)
    BY <2>16, DuplicateGood
  <2> HIDE DEF w
  <2>19. Returned(w, Now)
    <3>1. Returned(b, Now)
      BY <2>15, <2>16, ReturnedTrans
    <3> QED BY <2>18, <3>1, ReturnedTrans
  <2> QED BY <1>1, <1>2, <2>17, <2>18, <2>19, StepGood
<1> QED BY <1>3, <1>4 DEF NewConnection

\* A round that uses sendfile sends what is left of the file and no more, or gives
\* the method up.
LEMMA SendFileGood ==
  ASSUME TransferInv, NEW i \in DOMAIN trans, SendFile(i)
  PROVE  TransferInv' /\ Returned(Now', Now)
<1>1. /\ Good(Now, {}) /\ Now.trans = trans /\ Now.file = file /\ Now.ports = listen_ports
      /\ transfermethod \in Method /\ Typed(Now)
      /\ trans[i] \in Record /\ Progress(trans[i]) /\ Size[trans[i].pack] \in Nat
  BY OneOf
<1>2. trans[i].status = "SENDING" /\ trans[i].sent \in Nat /\ trans[i].sent <= Size[trans[i].pack]
  BY <1>1 DEF SendFile, Record, Progress
<1>3. ASSUME NEW m \in 0..(Size[trans[i].pack] - trans[i].sent),
             Becomes(SentSome(Now, i, m, trans[i].sent)), UNCHANGED transfermethod
      PROVE  TransferInv' /\ Returned(Now', Now)
  <2> DEFINE w == SentSome(Now, i, m, trans[i].sent)
  <2>1. m \in Nat /\ trans[i].sent + m <= Size[trans[i].pack]
    BY <1>1, <1>2
  <2>2. Good(w, {}) /\ Returned(w, Now)
    <3> HIDE DEF w
    <3> QED BY <1>1, <1>2, <2>1, SentSomeGood DEF w
  <2>3. Becomes(w)
    BY <1>3
  <2> HIDE DEF w
  <2> QED BY <1>1, <1>3, <2>2, <2>3, StepGood
<1>4. CASE UNCHANGED <<trans, file, listen_ports>> /\ transfermethod' = "mmap"
  <2>1. Becomes(Now) /\ transfermethod' \in Method
    BY <1>1, <1>4 DEF Becomes, Method
  <2>2. Returned(Now, Now)
    BY DEF Returned
  <2> QED BY <1>1, <2>1, <2>2, StepGood
<1> QED BY <1>3, <1>4 DEF SendFile

\* A round that reads and writes leaves the cached place where the kernel reads next.
LEMMA ReadWriteGood ==
  ASSUME TransferInv, NEW i \in DOMAIN trans, ReadWrite(i)
  PROVE  TransferInv' /\ Returned(Now', Now)
<1> DEFINE t == trans[i]
           p == t.pack
           f == Seek(file[p], t.sent)
<1>1. /\ Good(Now, {}) /\ Now.trans = trans /\ Now.file = file /\ Now.ports = listen_ports
      /\ Now = [trans |-> trans, file |-> file, ports |-> listen_ports]
      /\ transfermethod \in Method /\ Typed(Now) /\ Settled(Now, i)
      /\ trans[i] \in Record /\ Progress(trans[i]) /\ Size[p] \in Nat /\ p \in Pack
      /\ file[p] \in FileRecord(p) /\ FileKept(Now, p)
  BY OneOf
<1>2. /\ t.status = "SENDING" /\ t.sent \in Nat /\ t.sent <= Size[p]
      /\ transfermethod' = transfermethod
      /\ \E n \in 0..(Size[p] - f.pos) : \E m \in 0..n :
           Becomes(SentSome([Now EXCEPT !.file =
                      [file EXCEPT ![p] = [f EXCEPT !.loc = @ + n, !.pos = @ + n]]], i, m, f.pos))
  BY <1>1 DEF ReadWrite, Record, Progress
<1>12. PICK n \in 0..(Size[p] - f.pos) : \E m \in 0..n :
         Becomes(SentSome([Now EXCEPT !.file =
                   [file EXCEPT ![p] = [f EXCEPT !.loc = @ + n, !.pos = @ + n]]], i, m, f.pos))
  BY <1>2
<1>3. PICK m \in 0..n :
        Becomes(SentSome([Now EXCEPT !.file =
                   [file EXCEPT ![p] = [f EXCEPT !.loc = @ + n, !.pos = @ + n]]], i, m, f.pos))
  BY <1>12
<1> DEFINE g == [f EXCEPT !.loc = f.loc + n, !.pos = f.pos + n]
           s == [Now EXCEPT !.file = [Now.file EXCEPT ![p] = g]]
           w == SentSome(s, i, m, f.pos)
<1>4. file[p].fd /\ file[p].loc = file[p].pos
  BY <1>1, <1>2 DEF Settled, FileKept
<1>5. /\ f \in FileRecord(p) /\ f.loc = t.sent /\ f.pos = t.sent /\ f.fd = file[p].fd
      /\ f.count = file[p].count /\ f.refs = file[p].refs
  <2> HIDE DEF p
  <2>1. CASE file[p].loc = t.sent
    BY <2>1, <1>1, <1>4 DEF Seek
  <2>2. CASE file[p].loc # t.sent
    <3>1. f = [file[p] EXCEPT !.loc = t.sent, !.pos = t.sent]
      BY <2>2 DEF Seek
    <3>2. t.sent \in 0..Size[p]
      BY <1>1, <1>2 DEF p
    <3> HIDE DEF f, t
    <3> QED BY <1>1, <3>1, <3>2 DEF FileRecord
  <2> QED BY <2>1, <2>2
<1> HIDE DEF f
<1>6. n \in Nat /\ m \in Nat /\ m <= n /\ t.sent + n <= Size[p]
  BY <1>1, <1>2, <1>3, <1>5
<1>7. /\ g \in FileRecord(p) /\ g.loc = g.pos /\ g.fd = file[p].fd
      /\ g.count = file[p].count /\ g.refs = file[p].refs
  <2>1. f.loc + n \in 0..Size[p] /\ f.pos + n \in 0..Size[p]
    BY <1>1, <1>2, <1>5, <1>6
  <2> HIDE DEF p, t
  <2> QED BY <1>5, <2>1 DEF FileRecord
<1> HIDE DEF g
<1>8. Good(s, {}) /\ s.trans = trans /\ s.ports = listen_ports
  <2>1. i \in Live(Now, p)
    BY <1>1, <1>2 DEF Live
  <2>2. Good(s, {}) /\ s.trans = Now.trans
    <3>1. Live(Now, p) # {}
      BY <2>1
    <3> HIDE DEF s, p
    <3> QED BY <1>1, <1>7, <3>1, FileGood DEF s
  <2>3. s.ports = listen_ports
    BY <1>1
  <2> QED BY <1>1, <2>2, <2>3
<1>9. Becomes(w)
  <2>1. [f EXCEPT !.loc = @ + n, !.pos = @ + n] = g
    BY DEF g
  <2> QED BY <1>1, <1>3, <2>1
<1> HIDE DEF s
<1>10. Good(w, {}) /\ Returned(w, s)
  <2>1. s.trans[i].status = "SENDING" /\ i \in DOMAIN s.trans
        /\ s.trans[i].sent + m <= Size[s.trans[i].pack] /\ f.pos = s.trans[i].sent
    BY <1>1, <1>2, <1>5, <1>6, <1>8
  <2> HIDE DEF w
  <2> QED BY <1>6, <1>8, <2>1, SentSomeGood DEF w
<1> HIDE DEF w
<1>11. Returned(w, Now)
  <2>1. Returned(s, Now)
    BY <1>1, <1>8 DEF Returned
  <2> QED BY <1>10, <2>1, ReturnedTrans
<1> QED BY <1>1, <1>2, <1>9, <1>10, <1>11, StepGood

\* A round that maps the file keeps each mapped segment counted for its readers.
LEMMA MapWriteGood ==
  ASSUME TransferInv, NEW i \in DOMAIN trans, MapWrite(i)
  PROVE  TransferInv' /\ Returned(Now', Now)
<1> DEFINE t == trans[i]
           p == t.pack
           k == t.sent \div SegSize
           s == Mapped(Now, i, k)
           end == IF (k + 1) * SegSize < Size[p] THEN (k + 1) * SegSize ELSE Size[p]
           u == [t EXCEPT !.mmap = {}]
           R == Unref(Now, p, {i})
           dropped == [With(Now, i, u) EXCEPT !.file = [file EXCEPT ![p].refs = R]]
           E == {} \cup {i}
<1>0. E = {i}
  OBVIOUS
<1>1. /\ Good(Now, {}) /\ Now.trans = trans /\ Now.file = file /\ Now.ports = listen_ports
      /\ Now = [trans |-> trans, file |-> file, ports |-> listen_ports]
      /\ transfermethod \in Method /\ Typed(Now) /\ Settled(Now, i)
      /\ trans[i] \in Record /\ Progress(trans[i]) /\ Size[p] \in Nat /\ p \in Pack
  BY OneOf
<1>2. /\ t.status = "SENDING" /\ t.sent \in Nat /\ t.sent <= Size[p]
      /\ \/ /\ \E m \in 0..(end - t.sent) : Becomes(SentSome(s, i, m, t.sent))
            /\ UNCHANGED transfermethod
         \/ Becomes(dropped) /\ transfermethod' = "read_write"
  BY <1>1 DEF MapWrite, Record, Progress
<1>3. k \in Segments(p)
  <2>1. SegSize \in Nat \ {0}
    BY TransferAssumption
  <2>2. k \in Nat /\ Size[p] \div SegSize \in Nat /\ k <= Size[p] \div SegSize
    <3> HIDE DEF p, t
    <3> QED BY <1>1, <1>2, <2>1, DivMono
  <2> HIDE DEF k
  <2> QED BY <2>2 DEF Segments
<1>4. /\ Good(s, {}) /\ Returned(s, Now) /\ DOMAIN s.trans = DOMAIN trans
      /\ s.trans[i].status = "SENDING" /\ s.trans[i].sent = t.sent /\ s.trans[i].pack = p
  <2> HIDE DEF s, k
  <2> QED BY <1>1, <1>2, <1>3, MappedGood DEF s
<1>5. ASSUME NEW m \in 0..(end - t.sent), Becomes(SentSome(s, i, m, t.sent)),
             UNCHANGED transfermethod
      PROVE  TransferInv' /\ Returned(Now', Now)
  <2> DEFINE w == SentSome(s, i, m, t.sent)
  <2>1. m \in Nat /\ t.sent + m <= Size[p]
    <3>1. k \in Nat /\ SegSize \in Nat
      <4> HIDE DEF k
      <4> QED BY <1>1, <1>3, TransferAssumption DEF Segments
    <3>2. (k + 1) * SegSize \in Nat
      <4> HIDE DEF k
      <4> QED BY <3>1
    <3>3. end \in Nat /\ end <= Size[p]
      <4> DEFINE e == (k + 1) * SegSize
      <4>1. e \in Nat /\ end = IF e < Size[p] THEN e ELSE Size[p]
        BY <3>2
      <4> HIDE DEF e, end, p
      <4> QED BY <4>1, <1>1
    <3> HIDE DEF end, p
    <3> QED BY <1>1, <1>2, <1>5, <3>3
  <2>2. Becomes(w)
    BY <1>5
  <2> HIDE DEF s
  <2>3. Good(w, {}) /\ Returned(w, s)
    <3> HIDE DEF w
    <3> QED BY <1>4, <2>1, SentSomeGood DEF w
  <2> HIDE DEF w
  <2>4. Returned(w, Now)
    BY <1>4, <2>3, ReturnedTrans
  <2> QED BY <1>1, <1>5, <2>2, <2>3, <2>4, StepGood
<1>6. CASE Becomes(dropped) /\ transfermethod' = "read_write"
  <2>1. /\ u \in Record /\ u.pack = p /\ u.mmap = {}
        /\ u.status = "SENDING" /\ u.start = t.start /\ u.ack = t.ack
        /\ u.sent = t.sent /\ u.family = t.family /\ u.remote = t.remote
    BY <1>1, <1>2 DEF Record
  <2>2. u.lsock = t.lsock /\ u.csock = t.csock /\ u.intact = t.intact /\ u.flushed = t.flushed
    BY <1>1 DEF Record
  <2> HIDE DEF u
  <2>3. Progress(u)
    BY <1>1, <1>2, <2>1, <2>2 DEF Progress
  <2>4. /\ R \in [Segments(p) -> Nat]
        /\ \A n \in Segments(p) : R[n] = Cardinality(Readers(Now, p, n) \ {i})
    <3>1. i \in DOMAIN Now.trans /\ Now.trans[i].status # "DONE" /\ p = Now.trans[i].pack
      BY <1>1, <1>2
    <3>2. Good(Now, {}) /\ p \in Pack
      BY <1>1
    <3>3. \A j \in DOMAIN Now.trans, q \in Pack :
            Now.trans[j].status # "DONE" /\ q = Now.trans[j].pack
              => /\ Unref(Now, q, {j}) \in [Segments(q) -> Nat]
                 /\ \A n \in Segments(q) : Unref(Now, q, {j})[n] = Cardinality(Readers(Now, q, n) \ {j})
      BY <3>2, UnrefGood
    <3> HIDE DEF p
    <3> QED BY <3>1, <3>2, <3>3
  <2>5. \A n \in Segments(p) :
          R[n] = Cardinality((Readers(Now, p, n) \ {i}) \cup (IF n \in u.mmap THEN {i} ELSE {}))
    <3>1. \A n : (Readers(Now, p, n) \ {i}) \cup (IF n \in u.mmap THEN {i} ELSE {}) = Readers(Now, p, n) \ {i}
      BY <2>1
    <3> HIDE DEF R
    <3> QED BY <2>4, <3>1
  <2>6. Good(dropped, E) /\ Only(dropped, Now, i, u)
    <3>1. /\ u \in Record /\ u.pack = p /\ trans[i].status # "DONE"
          /\ u.status \notin {"DONE", "LISTENING"}
      BY <1>2, <2>1
    <3>2. dropped = [With(Now, i, u) EXCEPT !.file = [Now.file EXCEPT ![p].refs = R]]
      BY <1>1
    <3> HIDE DEF R, dropped
    <3> QED BY <1>1, <2>3, <2>4, <2>5, <3>1, <3>2, RemapGood
  <2>7. Becomes(dropped)
    BY <1>6
  <2> HIDE DEF dropped
  <2>8. Good(dropped, {})
    <3>1. Settled(dropped, i)
      BY <1>1, <1>2, <2>1, <2>2, <2>6 DEF Settled, Only
    <3>2. Good(dropped, {i})
      BY <1>0, <2>6
    <3> QED BY <3>1, <3>2, SettleGood
  <2>9. Returned(dropped, Now)
    <3>1. Now.trans[i].status # "LISTENING" /\ u.status # "LISTENING" /\ Now.ports \subseteq Port
      BY <1>1, <1>2, <2>1 DEF Typed
    <3> QED BY <1>1, <2>6, <3>1, OnlyReturned
  <2>10. transfermethod' \in Method
    BY <1>6 DEF Method
  <2> QED BY <1>1, <2>7, <2>8, <2>9, <2>10, StepGood
<1> QED BY <1>2, <1>5, <1>6

\* Closing any set of transfers gives back their files, their segments and their ports.
LEMMA ClosingGood ==
  ASSUME TransferInv, NEW S, S \subseteq DOMAIN trans, Becomes(CloseAll(Now, S)),
         UNCHANGED transfermethod
  PROVE  TransferInv' /\ Returned(Now', Now)
<1> DEFINE w == CloseAll(Now, S)
<1>1. Good(Now, {}) /\ transfermethod' \in Method /\ S \subseteq DOMAIN Now.trans
  BY NowFields DEF TransferInv
<1>2. Good(w, {}) /\ Returned(w, Now)
  <2> HIDE DEF w
  <2> QED BY <1>1, ClosedGood DEF w
<1>3. Becomes(w)
  OBVIOUS
<1> HIDE DEF w
<1> QED BY <1>1, <1>2, <1>3, StepGood

\* The acknowledgements of a transfer finish it, or leave what it counts unchanged.
LEMMA ReadJunkGood ==
  ASSUME TransferInv, NEW i \in DOMAIN trans, ReadJunk(i)
  PROVE  TransferInv' /\ Returned(Now', Now)
<1> DEFINE p == trans[i].pack
<1>1. /\ Good(Now, {}) /\ Now.trans = trans /\ Now.file = file /\ Now.ports = listen_ports
      /\ Now = [trans |-> trans, file |-> file, ports |-> listen_ports]
      /\ transfermethod \in Method /\ Typed(Now) /\ Settled(Now, i)
      /\ trans[i] \in Record /\ Progress(trans[i]) /\ Size[p] \in Nat /\ p \in Pack
      /\ file[p] \in FileRecord(p) /\ FileKept(Now, p)
  BY OneOf
<1>2. /\ trans[i].status \in {"SENDING", "WAITING"} /\ transfermethod' = transfermethod
      /\ trans[i].ack \in Nat /\ trans[i].sent \in Nat
  BY <1>1 DEF ReadJunk, Record
<1>3. CASE Becomes(CloseConn(Now, i))
  BY <1>2, <1>3, ClosingGood DEF CloseConn
<1>4. ASSUME NEW a \in trans[i].ack..trans[i].sent,
             LET t == [trans[i] EXCEPT !.ack = a, !.age = 0]
             IN /\ trans' = [trans EXCEPT ![i] =
                               IF FlushedAt(t, a)
                                 THEN [t EXCEPT !.status = "DONE", !.csock = FALSE, !.flushed = TRUE]
                                 ELSE t]
                /\ file' = IF FlushedAt(t, a)
                             THEN [file EXCEPT ![t.pack] = Release(@, 1)] ELSE file
                /\ UNCHANGED listen_ports
      PROVE  TransferInv' /\ Returned(Now', Now)
  <2> DEFINE t == [trans[i] EXCEPT !.ack = a, !.age = 0]
             s == With(Now, i, t)
  <2>1. /\ t \in Record /\ t.pack = p /\ t.mmap = trans[i].mmap /\ t.port = trans[i].port
        /\ t.status = trans[i].status /\ t.start = trans[i].start /\ t.ack = a
        /\ t.sent = trans[i].sent /\ t.family = trans[i].family /\ t.remote = trans[i].remote
    <3>1. a \in Nat
      BY <1>2
    <3> QED BY <1>1, <3>1 DEF Record
  <2>2. t.lsock = trans[i].lsock /\ t.csock = trans[i].csock /\ t.intact = trans[i].intact
        /\ t.flushed = trans[i].flushed
    BY <1>1 DEF Record
  <2>3. /\ trans' = [trans EXCEPT ![i] =
                       IF FlushedAt(t, a)
                         THEN [t EXCEPT !.status = "DONE", !.csock = FALSE, !.flushed = TRUE]
                         ELSE t]
        /\ file' = IF FlushedAt(t, a) THEN [file EXCEPT ![t.pack] = Release(@, 1)] ELSE file
        /\ listen_ports' = listen_ports
    BY <1>4
  <2> HIDE DEF t
  <2>4. Progress(t) /\ trans[i].flushed = FALSE /\ a <= t.sent /\ a \in Nat
    <3>1. trans[i].flushed = FALSE
      BY <1>1, <1>2 DEF Progress, Record
    <3> QED BY <1>1, <1>2, <2>1, <2>2, <3>1 DEF Progress
  <2>5. Good(s, {}) /\ Returned(s, Now)
    <3>1. /\ t \in Record /\ t.pack = p /\ t.mmap = trans[i].mmap /\ t.port = trans[i].port
          /\ t.status = trans[i].status /\ t.status # "DONE" /\ t.ack <= t.sent
      BY <1>2, <2>1, <2>4
    <3> HIDE DEF s
    <3> QED BY <1>1, <2>2, <2>4, <3>1, QuietGood DEF s
  <2>6. s = [trans |-> [trans EXCEPT ![i] = t], file |-> file, ports |-> listen_ports]
    BY <1>1 DEF With
  <2>7. CASE ~FlushedAt(t, a)
    <3>1. Becomes(s)
      <4> HIDE DEF s
      <4> QED BY <2>3, <2>6, <2>7 DEF Becomes
    <3> HIDE DEF s
    <3> QED BY <1>1, <1>2, <2>5, <3>1, StepGood
  <2>8. CASE FlushedAt(t, a)
    <3> DEFINE c == CloseConn(s, i)
               d == c.trans[i]
               v == [d EXCEPT !.flushed = TRUE]
               w == With(c, i, v)
    <3> HIDE DEF s
    <3>1. /\ i \in DOMAIN s.trans /\ s.trans[i] = t /\ s.file = file /\ s.ports = listen_ports
          /\ DOMAIN s.trans = DOMAIN trans /\ \A j \in DOMAIN trans \ {i} : s.trans[j] = trans[j]
          /\ s.trans = [trans EXCEPT ![i] = t]
      BY <2>6
    <3>2. t.status = "WAITING" /\ a >= Size[p]
      BY <2>1, <2>8 DEF FlushedAt
    <3>3. t.sent = Size[p] /\ a = Size[p] /\ t.mmap = {} /\ ~t.lsock
      BY <1>1, <1>2, <2>1, <2>2, <2>4, <3>2 DEF Progress, Settled
    <3>4. /\ Good(c, {}) /\ Returned(c, s) /\ Closes(c, s, {i})
      <4>1. {i} \subseteq DOMAIN s.trans
        BY <3>1
      <4>2. Good(c, {}) /\ Returned(c, s)
        BY <2>5, <4>1, ClosedGood DEF CloseConn
      <4>3. Closes(CloseAll(s, {i}), s, {i})
        <5>1. \A S : S \subseteq DOMAIN s.trans => Closes(CloseAll(s, S), s, S)
          BY <2>5, CloseAllGood
        <5> QED BY <4>1, <5>1
      <4> QED BY <4>2, <4>3 DEF CloseConn
    <3>5. /\ c = [trans |-> c.trans, file |-> c.file, ports |-> c.ports]
          /\ c.ports = listen_ports
          /\ c.file = [file EXCEPT ![p] = Release(file[p], 1)]
      <4> DEFINE live == {j \in {i} : s.trans[j].status # "DONE"}
                 of(q) == {j \in live : s.trans[j].pack = q}
      <4>1. live = {i}
        BY <3>1, <3>2
      <4>2. of(p) = {i} /\ \A q \in Pack \ {p} : of(q) = {}
        <5> HIDE DEF live
        <5> QED BY <2>1, <3>1, <4>1
      <4>3. Cardinality(of(p)) = 1
        <5> HIDE DEF of
        <5> QED BY <4>2, FS_Singleton
      <4>4. PortsOf(s, live) = {}
        <5> HIDE DEF live
        <5> QED BY <3>1, <3>2, <4>1 DEF PortsOf
      <4>5. Unref(s, p, live) = file[p].refs
        <5>1. \A k : {j \in live : s.trans[j].pack = p /\ k \in s.trans[j].mmap} = {}
          <6> HIDE DEF live
          <6> QED BY <3>1, <3>3, <4>1
        <5>2. ASSUME NEW k \in Segments(p) PROVE Unref(s, p, live)[k] = file[p].refs[k]
          <6>1. Cardinality({j \in live : s.trans[j].pack = p /\ k \in s.trans[j].mmap}) = 0
            BY <5>1, FS_EmptySet
          <6>2. file[p].refs \in [Segments(p) -> Nat]
            BY <1>1 DEF FileRecord
          <6> HIDE DEF live, p
          <6> QED BY <3>1, <6>1, <6>2 DEF Unref
        <5>3. Unref(s, p, live) = [k \in Segments(p) |-> Unref(s, p, live)[k]]
          <6> HIDE DEF live
          <6> QED BY <1>1, <3>1 DEF Unref, FileRecord
        <5>4. file[p].refs = [k \in Segments(p) |-> file[p].refs[k]]
          BY <1>1 DEF FileRecord
        <5> HIDE DEF live, p
        <5> QED BY <5>2, <5>3, <5>4
      <4>6. /\ c = [trans |-> c.trans, file |-> c.file, ports |-> c.ports]
            /\ c.ports = s.ports \ PortsOf(s, live)
            /\ c.file = [q \in Pack |->
                           IF of(q) = {} THEN s.file[q]
                           ELSE [Release(s.file[q], Cardinality(of(q))) EXCEPT !.refs = Unref(s, q, live)]]
        BY DEF CloseConn, CloseAll
      <4> HIDE DEF live, of, c
      <4>7. [Release(file[p], 1) EXCEPT !.refs = file[p].refs] = Release(file[p], 1)
        <5> HIDE DEF p
        <5> QED BY <1>1 DEF Release, FileRecord
      <4>8. file = [q \in Pack |-> file[q]]
        BY <1>1 DEF Typed
      <4> HIDE DEF p
      <4>9. ASSUME NEW q \in Pack
            PROVE  c.file[q] = IF q = p THEN Release(file[p], 1) ELSE file[q]
        <5>1. CASE q = p
          <6>2. of(p) # {} /\ p \in Pack
            BY <5>1, <4>2
          <6>3. c.file[p] = [Release(s.file[p], Cardinality(of(p))) EXCEPT !.refs = Unref(s, p, live)]
            BY <6>2, <4>6
          <6>1. c.file[p] = [Release(file[p], 1) EXCEPT !.refs = file[p].refs]
            BY <6>3, <3>1, <4>3, <4>5
          <6> QED BY <5>1, <6>1, <4>7
        <5>2. CASE q # p
          BY <5>2, <3>1, <4>2, <4>6
        <5> QED BY <5>1, <5>2
      <4>10. c.file = [q \in Pack |-> c.file[q]]
        BY <4>6
      <4>11. c.file = [file EXCEPT ![p] = Release(file[p], 1)]
        BY <4>8, <4>9, <4>10
      <4> QED BY <3>1, <4>4, <4>6, <4>11
    <3> HIDE DEF c
    <3>6. /\ DOMAIN c.trans = DOMAIN trans /\ d = Ended(t)
          /\ \A j \in DOMAIN trans \ {i} : c.trans[j] = trans[j]
      BY <3>1, <3>2, <3>4 DEF Closes
    <3>7. d \in Record /\ Progress(d) /\ d.status = "DONE" /\ d.pack = p /\ d.ack = a
          /\ d.sent = t.sent /\ d.mmap = {}
      <4>1. d \in Record /\ Progress(d)
        BY <3>4, <3>6 DEF Good, Typed
      <4>2. d.status = "DONE" /\ d.pack = p /\ d.ack = a /\ d.sent = t.sent /\ d.mmap = {}
        BY <2>1, <3>6 DEF Ended, Record
      <4> QED BY <4>1, <4>2
    <3>8. d.lsock = FALSE /\ d.csock = FALSE
      BY <2>1, <3>6 DEF Ended, Record
    <3> HIDE DEF d
    <3>9. /\ v \in Record /\ v.status = "DONE" /\ v.lsock = FALSE /\ v.csock = FALSE
          /\ v.pack = p /\ v.start = d.start /\ v.sent = d.sent /\ v.ack = a /\ v.mmap = {}
          /\ v.family = d.family /\ v.remote = d.remote /\ v.intact = d.intact
      BY <3>7, <3>8 DEF Record
    <3>10. v = [t EXCEPT !.status = "DONE", !.csock = FALSE, !.flushed = TRUE]
      <4>1. t.lsock = FALSE /\ t.mmap = {}
        BY <2>1, <3>3 DEF Record
      <4> QED BY <2>1, <3>6, <4>1 DEF Ended, Record
    <3> HIDE DEF v
    <3>11. Progress(v)
      BY <3>3, <3>7, <3>9 DEF Progress
    <3>12. Good(w, {}) /\ Returned(w, c)
      <4>1. c.trans[i].status = "DONE" /\ i \in DOMAIN c.trans
        BY <3>6, <3>7 DEF d
      <4> HIDE DEF w
      <4> QED BY <3>4, <3>9, <3>11, <4>1, DoneGood DEF w
    <3>13. Becomes(w)
      <4>1. w = [trans |-> [c.trans EXCEPT ![i] = v], file |-> c.file, ports |-> c.ports]
        BY <3>5 DEF With
      <4>2. trans' = [trans EXCEPT ![i] = v] /\ file' = [file EXCEPT ![p] = Release(file[p], 1)]
            /\ listen_ports' = listen_ports
        BY <2>1, <2>3, <2>8, <3>10
      <4>3. [c.trans EXCEPT ![i] = v] = [trans EXCEPT ![i] = v]
        <5>1. c.trans = [j \in DOMAIN c.trans |-> c.trans[j]] /\ trans = [j \in DOMAIN trans |-> trans[j]]
          BY <1>1, <3>4 DEF Good, Typed
        <5> QED BY <3>6, <5>1
      <4> HIDE DEF w
      <4> QED BY <3>5, <4>1, <4>2, <4>3 DEF Becomes
    <3> HIDE DEF w
    <3>14. Returned(w, Now)
      <4>1. Returned(c, Now)
        BY <2>5, <3>4, ReturnedTrans
      <4> QED BY <3>12, <4>1, ReturnedTrans
    <3> QED BY <1>1, <1>2, <3>12, <3>13, <3>14, StepGood
  <2> QED BY <2>7, <2>8
<1> QED BY <1>3, <1>4 DEF ReadJunk

\* The once-a-second look at a transfer closes it or leaves it as it is.
LEMMA SecondGood ==
  ASSUME TransferInv, NEW i \in DOMAIN trans, Second(i)
  PROVE  TransferInv' /\ Returned(Now', Now)
<1>1. /\ Good(Now, {}) /\ Now.trans = trans /\ Now.file = file /\ Now.ports = listen_ports
      /\ Now = [trans |-> trans, file |-> file, ports |-> listen_ports]
      /\ transfermethod \in Method /\ Settled(Now, i)
      /\ trans[i] \in Record /\ Progress(trans[i])
  BY OneOf
<1>2. transfermethod' = transfermethod
  BY DEF Second
<1>3. CASE Becomes(Without(CloseConn(Now, i), i))
  <2> DEFINE c == CloseConn(Now, i)
             w == Without(c, i)
  <2>1. /\ Good(c, {}) /\ Returned(c, Now) /\ DOMAIN c.trans = DOMAIN trans
        /\ c.trans[i].status = "DONE"
    <3>1. {i} \subseteq DOMAIN Now.trans /\ i \in {i}
      BY <1>1
    <3>2. \A j \in {i} : c.trans[j].status = "DONE"
      BY <1>1, <3>1, ClosedGood DEF CloseConn
    <3>3. Good(c, {}) /\ Returned(c, Now) /\ DOMAIN c.trans = DOMAIN Now.trans
      BY <1>1, <3>1, ClosedGood DEF CloseConn
    <3> HIDE DEF c
    <3> QED BY <1>1, <3>2, <3>3
  <2>2. Becomes(w)
    BY <1>3
  <2> HIDE DEF c
  <2>3. Good(w, {}) /\ Returned(w, c)
    BY <2>1, WithoutGood
  <2> HIDE DEF w
  <2>4. Returned(w, Now)
    BY <2>1, <2>3, ReturnedTrans
  <2> QED BY <1>1, <1>2, <2>2, <2>3, <2>4, StepGood
<1>4. CASE trans[i].status = "DONE" /\ Becomes(Without(Now, i))
  <2> DEFINE w == Without(Now, i)
  <2>1. Good(w, {}) /\ Returned(w, Now)
    <3> HIDE DEF w
    <3> QED BY <1>1, <1>4, WithoutGood DEF w
  <2>2. Becomes(w)
    BY <1>4
  <2> HIDE DEF w
  <2> QED BY <1>1, <1>2, <2>1, <2>2, StepGood
<1>5. CASE /\ trans[i].status # "DONE"
           /\ trans' = [trans EXCEPT ![i].age = IF @ < Patience THEN @ + 1 ELSE @]
           /\ UNCHANGED <<file, listen_ports>>
  <2> DEFINE n == IF trans[i].age < Patience THEN trans[i].age + 1 ELSE trans[i].age
             t == [trans[i] EXCEPT !.age = n]
             w == With(Now, i, t)
  <2>1. /\ t \in Record /\ t.pack = trans[i].pack /\ t.mmap = trans[i].mmap /\ t.port = trans[i].port
        /\ t.status = trans[i].status /\ t.start = trans[i].start /\ t.ack = trans[i].ack
        /\ t.sent = trans[i].sent /\ t.family = trans[i].family /\ t.remote = trans[i].remote
    <3>1. n \in Nat
      BY <1>1, TransferAssumption DEF Record
    <3> HIDE DEF n
    <3> QED BY <1>1, <3>1 DEF Record
  <2>2. t.lsock = trans[i].lsock /\ t.csock = trans[i].csock /\ t.intact = trans[i].intact
        /\ t.flushed = trans[i].flushed
    BY <1>1 DEF Record
  <2>3. trans' = [trans EXCEPT ![i] = t]
    BY <1>5
  <2> HIDE DEF t
  <2>4. Progress(t)
    BY <1>1, <2>1, <2>2 DEF Progress
  <2>5. Good(w, {}) /\ Returned(w, Now)
    <3>1. /\ t \in Record /\ t.pack = trans[i].pack /\ t.mmap = trans[i].mmap /\ t.port = trans[i].port
          /\ t.status = trans[i].status /\ t.status # "DONE"
          /\ t.status \in {"SENDING", "WAITING"} => t.ack <= t.sent
      BY <1>1, <1>5, <2>1 DEF Settled
    <3> HIDE DEF w
    <3> QED BY <1>1, <2>2, <2>4, <3>1, QuietGood DEF w
  <2>6. Becomes(w)
    BY <1>1, <1>5, <2>3 DEF Becomes, With
  <2> HIDE DEF w
  <2> QED BY <1>1, <1>2, <2>5, <2>6, StepGood
<1> QED BY <1>3, <1>4, <1>5 DEF Second

\* A new transfer counts the file of its pack and has an id that no other one has.
LEMMA CreatedGood ==
  ASSUME TransferInv, NEW i \in Id, NEW p \in Pack, NEW kind \in Kind, Create(i, p, kind)
  PROVE  TransferInv' /\ i \in DOMAIN trans' \ DOMAIN trans
<1>1. /\ Good(Now, {}) /\ Now.trans = trans /\ transfermethod \in Method
      /\ i \notin DOMAIN trans /\ transfermethod' = transfermethod
  BY NowFields DEF TransferInv, Create
<1> DEFINE t == [pack |-> p, man |-> kind.man, family |-> kind.family,
                 status |-> "RESUME", start |-> 0, sent |-> 0, ack |-> 0,
                 age |-> 0, port |-> 0, lsock |-> FALSE, csock |-> FALSE,
                 remote |-> NoAddr, remoteip |-> NoAddr, dcc64 |-> FALSE,
                 mmap |-> {}, intact |-> TRUE, flushed |-> FALSE]
           One(s) == [s EXCEPT !.trans = [j \in DOMAIN s.trans \cup {i} |->
                                            IF j = i THEN t ELSE s.trans[j]],
                               !.file = [s.file EXCEPT ![p].count = @ + 1]]
<1>2. PICK changed \in BOOLEAN, taken \in SUBSET Port :
        LET s0 == IF changed THEN CloseAll(Now, OfPack(p)) ELSE Now
        IN \/ kind.passive /\ taken = {} /\ Becomes(One(s0))
           \/ ~kind.passive /\ \E s2 \in SetupListen(One(s0), i, taken) : Becomes(s2)
  BY DEF Create
<1> DEFINE s0 == IF changed THEN CloseAll(Now, OfPack(p)) ELSE Now
           s1 == One(s0)
<1>3. Becomes(s1) \/ \E s2 \in SetupListen(s1, i, taken) : Becomes(s2)
  BY <1>2
<1>4. Good(s0, {}) /\ DOMAIN s0.trans = DOMAIN trans
  <2>1. OfPack(p) \subseteq DOMAIN Now.trans
    BY <1>1 DEF OfPack
  <2>2. Good(CloseAll(Now, OfPack(p)), {}) /\ DOMAIN CloseAll(Now, OfPack(p)).trans = DOMAIN Now.trans
    BY <1>1, <2>1, ClosedGood
  <2> QED BY <1>1, <2>2
<1> HIDE DEF s0
<1>5. t \in Record
  <2>1. kind.man \in BOOLEAN /\ kind.family \in {4, 6}
    BY TransferAssumption DEF KindRecord
  <2>2. 0 \in Port
    BY TransferAssumption DEF Port
  <2> QED BY <2>1, <2>2 DEF Record, Status
<1>6. /\ t.pack = p /\ t.status = "RESUME" /\ ~t.lsock /\ ~t.csock /\ t.mmap = {} /\ t.start = 0
      /\ t.sent = 0 /\ t.ack = 0 /\ t.intact /\ ~t.flushed /\ t.remote = NoAddr
  OBVIOUS
<1> HIDE DEF t
<1>7. Progress(t)
  <2>1. Size[p] \in Nat
    BY TransferAssumption
  <2> QED BY <1>6, <2>1 DEF Progress
<1>8. Good(s1, {}) /\ s1.trans[i] = t /\ DOMAIN s1.trans = DOMAIN trans \cup {i}
  <2>1. s1 = Added(s0, i, t)
    BY <1>6 DEF Added
  <2> HIDE DEF s1
  <2> QED BY <1>1, <1>4, <1>5, <1>6, <1>7, <2>1, CreateGood
<1> HIDE DEF s1
<1>9. CASE Becomes(s1)
  BY <1>1, <1>8, <1>9, BecomesGood DEF Becomes
<1>10. CASE \E s2 \in SetupListen(s1, i, taken) : Becomes(s2)
  <2>1. PICK s2 \in SetupListen(s1, i, taken) : Becomes(s2)
    BY <1>10
  <2>2. i \in DOMAIN s1.trans /\ s1.trans[i].status = "RESUME"
    BY <1>6, <1>8
  <2>3. Good(s2, {}) /\ DOMAIN s2.trans = DOMAIN s1.trans
    BY <1>8, <2>2, SetupListenGood
  <2> QED BY <1>1, <1>8, <2>1, <2>3, BecomesGood DEF Becomes
<1> QED BY <1>3, <1>9, <1>10

\* A port of an old transfer that is given up is held by none of those there are.
LEMMA PortExpiresGood ==
  ASSUME TransferInv, PortExpires
  PROVE  TransferInv' /\ Returned(Now', Now)
<1>1. /\ Good(Now, {}) /\ Now.trans = trans /\ Now.file = file /\ Now.ports = listen_ports
      /\ Now = [trans |-> trans, file |-> file, ports |-> listen_ports]
      /\ transfermethod \in Method /\ Typed(Now)
  BY NowFields DEF TransferInv, Good, Now
<1>2. PICK x \in listen_ports \ PortsOf(Now, DOMAIN trans) : listen_ports' = listen_ports \ {x}
  BY DEF PortExpires
<1> DEFINE P == listen_ports \ {x}
           w == [Now EXCEPT !.ports = P]
<1>3. \A j \in DOMAIN trans : trans[j].status = "LISTENING" => trans[j].port \in P
  <2>1. \A j \in DOMAIN trans : trans[j].status = "LISTENING"
          => trans[j].port \in listen_ports /\ trans[j].port \in PortsOf(Now, DOMAIN trans)
    BY <1>1 DEF Good, Settled, PortsOf
  <2> QED BY <1>2, <2>1
<1>4. P \subseteq Port
  BY <1>1 DEF Typed
<1>5. Becomes(w)
  BY <1>1, <1>2 DEF Becomes, PortExpires
<1>6. Good(w, {}) /\ w.trans = trans /\ w.ports = P
  <2>1. \A j \in DOMAIN Now.trans \ {} : Now.trans[j].status = "LISTENING" => Now.trans[j].port \in P
    <3> HIDE DEF P
    <3> QED BY <1>1, <1>3
  <2> HIDE DEF P, w
  <2> QED BY <1>1, <1>4, <2>1, PortsGood DEF w
<1> HIDE DEF w
<1>7. Returned(w, Now)
  BY <1>1, <1>3, <1>6 DEF Returned
<1>8. transfermethod' \in Method
  BY <1>1 DEF PortExpires
<1> QED BY <1>1, <1>5, <1>6, <1>7, <1>8, StepGood

-----------------------------------------------------------------------------
(* Theorems *)

\* The invariant holds when the bot starts.
LEMMA InitGood == Init => TransferInv
<1> SUFFICES ASSUME Init PROVE TransferInv
  OBVIOUS
<1>1. /\ Now.trans = <<>> /\ Now.file = file /\ Now.ports = {} /\ DOMAIN Now.trans = {}
      /\ file = [p \in Pack |-> [count |-> 0, fd |-> FALSE, loc |-> 0, pos |-> 0,
                                 refs |-> [k \in Segments(p) |-> 0]]]
  BY NowFields DEF Init
<1>2. \A p \in Pack : Size[p] \in Nat
  BY TransferAssumption
<1>3. Typed(Now)
  <2>1. Now = [trans |-> Now.trans, file |-> Now.file, ports |-> Now.ports]
    BY DEF Now
  <2>2. Now.trans = [i \in DOMAIN Now.trans |-> Now.trans[i]]
    BY <1>1
  <2>3. \A p \in Pack : Now.file[p] \in FileRecord(p)
    BY <1>1, <1>2 DEF FileRecord
  <2> QED BY <1>1, <2>1, <2>2, <2>3 DEF Typed
<1>4. ASSUME NEW p \in Pack PROVE FileKept(Now, p)
  <2>1. Live(Now, p) = {} /\ \A k : Readers(Now, p, k) = {}
    BY <1>1 DEF Live, Readers
  <2>2. Cardinality({}) = 0
    BY FS_EmptySet
  <2>3. /\ Now.file[p].count = 0 /\ Now.file[p].fd = FALSE
        /\ \A k \in Segments(p) : Now.file[p].refs[k] = 0
    BY <1>1
  <2>4. \A k \in Segments(p) : Cardinality(Readers(Now, p, k)) = 0
    BY <2>1, <2>2
  <2> QED BY <2>1, <2>2, <2>3, <2>4 DEF FileKept
<1>5. Good(Now, {})
  BY <1>1, <1>3, <1>4 DEF Good
<1> QED BY <1>5 DEF TransferInv, Init, Method

\* Every step keeps the invariant, and every step that starts no transfer gives the
\* ports of those that stop listening back.
LEMMA NextGood ==
  ASSUME TransferInv, Next
  PROVE  TransferInv' /\ (DOMAIN trans' \subseteq DOMAIN trans => Returned(Now', Now))
<1>1. ASSUME NEW i \in Id, NEW p \in Pack, NEW kind \in Kind, Create(i, p, kind)
      PROVE  TransferInv' /\ ~(DOMAIN trans' \subseteq DOMAIN trans)
  BY <1>1, CreatedGood
<1>2. ASSUME NEW i \in DOMAIN trans, Step(i)
      PROVE  TransferInv' /\ Returned(Now', Now)
  <2>1. ASSUME NEW start \in 0..Size[trans[i].pack], FindResume(i, start)
        PROVE  TransferInv' /\ Returned(Now', Now)
    <3>1. start \in Nat
      BY OneOf
    <3> QED BY <2>1, <3>1, FindResumeGood
  <2>2. ASSUME NEW a \in IF trans[i].family = 4 THEN Addr4 ELSE Addr6, Passive(i, a)
        PROVE  TransferInv' /\ Returned(Now', Now)
    BY <2>2, PassiveGood
  <2>3. CASE Connected(i)
    BY <2>3, ConnectedGood
  <2>4. CASE NewConnection(i)
    BY <2>4, NewConnectionGood
  <2>5. CASE SendFile(i)
    BY <2>5, SendFileGood
  <2>6. CASE MapWrite(i)
    BY <2>6, MapWriteGood
  <2>7. CASE ReadWrite(i)
    BY <2>7, ReadWriteGood
  <2>8. CASE SendFails(i)
    BY <2>8, ClosingGood DEF SendFails, CloseConn
  <2>9. CASE ReadJunk(i)
    BY <2>9, ReadJunkGood
  <2>10. CASE Close(i)
    BY <2>10, ClosingGood DEF Close, CloseConn
  <2> QED BY <1>2, <2>1, <2>2, <2>3, <2>4, <2>5, <2>6, <2>7, <2>8, <2>9, <2>10 DEF Step
<1>3. ASSUME NEW i \in DOMAIN trans, Second(i)
      PROVE  TransferInv' /\ Returned(Now', Now)
  BY <1>3, SecondGood
<1>4. ASSUME NEW p \in Pack, FileChanged(p)
      PROVE  TransferInv' /\ Returned(Now', Now)
  <2>1. OfPack(p) \subseteq DOMAIN trans
    BY DEF OfPack
  <2> QED BY <1>4, <2>1, ClosingGood DEF FileChanged
<1>5. CASE PortExpires
  BY <1>5, PortExpiresGood
<1> QED BY <1>1, <1>2, <1>3, <1>4, <1>5 DEF Next

\* Where nothing happens nothing changes.
LEMMA StutterGood ==
  ASSUME TransferInv, UNCHANGED vars
  PROVE  TransferInv'
<1>1. Becomes(Now) /\ transfermethod' \in Method /\ Good(Now, {})
  BY NowFields DEF TransferInv, Becomes, vars
<1> QED BY <1>1, BecomesGood

\* The invariant holds in every state: what t_closeconn, t_check_duplicateip,
\* t_setup_send and the others do to several transfers and their file at once.
THEOREM TransferInvariant == Spec => []TransferInv
<1>1. TransferInv /\ [Next]_vars => TransferInv'
  BY NextGood, StutterGood
<1> QED BY <1>1, InitGood, PTL DEF Spec

\* Every variable keeps its type.
THEOREM TransferTypes == Spec => []TypeOK
<1>1. TransferInv => TypeOK
  BY NowFields DEF TransferInv, Good, Typed, TypeOK, FileRecord
<1> QED BY <1>1, TransferInvariant, PTL

\* The users of a descriptor and of mapped segments are counted right.
THEOREM FileSharedHolds == Spec => []FileShared
<1>1. ASSUME TransferInv PROVE FileShared
  <2>1. /\ Now.trans = trans /\ Now.file = file /\ Good(Now, {})
        /\ \A p \in Pack : FileKept(Now, p)
    BY <1>1, NowFields DEF TransferInv, Good
  <2>2. \A p \in Pack : Live(Now, p) = LiveOf(p)
    BY <2>1 DEF Live, LiveOf
  <2>3. SharedDescriptor
    <3>1. \A i \in DOMAIN trans : trans[i].status \in {"SENDING", "WAITING"} => file[trans[i].pack].fd
      BY <2>1 DEF Good, Settled
    <3>2. \A p \in Pack : \A i \in LiveOf(p) : i \in DOMAIN trans /\ trans[i].pack = p
      BY DEF LiveOf
    <3> QED BY <2>1, <2>2, <3>1, <3>2 DEF SharedDescriptor, FileKept
  <2>4. MapsCounted
    <3> SUFFICES ASSUME NEW p \in Pack, NEW k \in Segments(p)
                 PROVE  file[p].refs[k] = Cardinality({i \in LiveOf(p) : k \in trans[i].mmap})
      BY DEF MapsCounted
    <3>1. {i \in LiveOf(p) : k \in trans[i].mmap} = Readers(Now, p, k)
      BY <2>1, <2>2 DEF Readers
    <3> QED BY <2>1, <3>1 DEF FileKept
  <2> QED BY <2>3, <2>4 DEF FileShared
<1> QED BY <1>1, TransferInvariant, PTL

\* Each peer gets the bytes of the file in their order, and is counted as a download
\* only when it has acknowledged them all.
THEOREM FileReceivedHolds == Spec => []FileReceived
<1>1. TransferInv => FileReceived
  BY NowFields DEF TransferInv, Good, Progress, FileReceived, StreamIntact, CountedComplete
<1> QED BY <1>1, TransferInvariant, PTL

\* A transfer holds the sockets of its state, and a listener's port is in the list.
THEOREM SocketsKnownHolds == Spec => []SocketsKnown
<1>1. TransferInv => SocketsKnown
  BY NowFields DEF TransferInv, Good, Settled, SocketsKnown, SocketsFollowStatus, ListenersKnown
<1> QED BY <1>1, TransferInvariant, PTL

\* Who stops listening gives the port back in the same step.
THEOREM PortReturnedHolds == Spec => PortReturned
<1> DEFINE A == \A i \in DOMAIN trans :
                  /\ trans[i].status = "LISTENING"
                  /\ i \notin DOMAIN trans' \/ trans'[i].status # "LISTENING"
                  /\ DOMAIN trans' \subseteq DOMAIN trans
                  => trans[i].port \notin listen_ports'
<1>1. ASSUME TransferInv, Next PROVE A
  <2>1. DOMAIN trans' \subseteq DOMAIN trans => Returned(Now', Now)
    BY <1>1, NextGood
  <2>2. Now.trans = trans /\ Now'.trans = trans' /\ Now'.ports = listen_ports'
    BY NowFields DEF Now
  <2> QED BY <2>1, <2>2 DEF Returned
<1>2. TransferInv /\ [Next]_vars => [A]_vars
  <2> HIDE DEF A
  <2> QED BY <1>1
<1> QED BY <1>2, TransferInvariant, PTL DEF Spec, PortReturned
-----------------------------------------------------------------------------
(* Connections to one address *)

\* Whoever is connected, or about to be, was already, with the same peer.
Busy(t) == t.status \in {"CONNECTING", "SENDING"}
SamePeer(t, u) ==
  u.status = t.status /\ u.family = t.family /\ u.man = t.man /\ u.remote = t.remote /\ u.remoteip = t.remoteip
Calm(w, s) ==
  \A j \in DOMAIN w : Busy(w[j]) => j \in DOMAIN s /\ SamePeer(s[j], w[j])
\* A state is a record of its parts.
Whole(s) == s = [trans |-> s.trans, file |-> s.file, ports |-> s.ports]
Records(s) == \A j \in DOMAIN s : s[j] \in Record

\* What is kept of the peer of one who is connected is his address.
Met(t) ==
  /\ Busy(t) => t.remote \in IF t.family = 4 THEN Addr4 ELSE Addr6
  /\ t.status = "SENDING" /\ t.family = 4 => t.remoteip = t.remote
Peers(s) == \A j \in DOMAIN s : Met(s[j])

\* Where nobody is connected anew the addresses kept stay right.
LEMMA CalmPeers ==
  ASSUME NEW s, NEW w, Calm(w, s), Peers(s)
  PROVE  Peers(w)
BY DEF Calm, Peers, Met, Busy, SamePeer

\* Two such changes are one.
LEMMA CalmAgain ==
  ASSUME NEW s, NEW w, NEW x, Calm(w, s), Calm(x, w)
  PROVE  Calm(x, s)
BY DEF Calm, Busy, SamePeer

\* One transfer has changed.
LEMMA CalmOne ==
  ASSUME NEW s, NEW i \in DOMAIN s.trans, NEW t, ~Busy(t) \/ SamePeer(s.trans[i], t)
  PROVE  Calm([s.trans EXCEPT ![i] = t], s.trans)
BY DEF Calm, SamePeer

\* t_closeconn on some transfers: they are not connected then.
LEMMA CloseAllCalm ==
  ASSUME NEW s, NEW S, Records(s.trans)
  PROVE  /\ DOMAIN CloseAll(s, S).trans = DOMAIN s.trans /\ Records(CloseAll(s, S).trans)
         /\ Calm(CloseAll(s, S).trans, s.trans)
         /\ \A j \in S \cap DOMAIN s.trans : ~Busy(CloseAll(s, S).trans[j])
<1> DEFINE live == {i \in S : s.trans[i].status # "DONE"}
           c == [i \in DOMAIN s.trans |-> IF i \in live THEN Ended(s.trans[i]) ELSE s.trans[i]]
<1>1. CloseAll(s, S).trans = c
  BY DEF CloseAll
<1>2. \A t \in Record : Ended(t) \in Record /\ ~Busy(Ended(t))
  BY DEF Ended, Record, Busy, Status
<1>3. \A j \in DOMAIN s.trans : c[j] = s.trans[j] \/ (c[j] \in Record /\ ~Busy(c[j]))
  BY <1>2 DEF Records
<1>4. DOMAIN c = DOMAIN s.trans
  OBVIOUS
<1>5. \A j \in S \cap DOMAIN s.trans : ~Busy(c[j])
  BY <1>2 DEF Records, Busy
<1> HIDE DEF c, live
<1>6. Records(c) /\ Calm(c, s.trans)
  BY <1>3, <1>4 DEF Records, Calm, SamePeer
<1> QED BY <1>1, <1>4, <1>5, <1>6

\* One who has only sent more, or has sent all.
LEMMA SentSomeCalm ==
  ASSUME NEW s, Whole(s), NEW i \in DOMAIN s.trans, Records(s.trans), NEW m \in Nat, NEW from
  PROVE  Calm(SentSome(s, i, m, from).trans, s.trans)
<1> DEFINE t == s.trans[i]
           u == [t EXCEPT !.sent = @ + m, !.age = IF m > 0 THEN 0 ELSE @,
                          !.intact = @ /\ (m = 0 \/ from = t.sent)]
           v == [u EXCEPT !.status = "WAITING", !.mmap = {}]
<1>1. t \in Record
  BY DEF Records
<1>2. SamePeer(t, u) /\ ~Busy(v)
  BY <1>1 DEF Record, SamePeer, Busy
<1>3. SentSome(s, i, m, from).trans \in {[s.trans EXCEPT ![i] = u], [s.trans EXCEPT ![i] = v]}
  BY DEF SentSome, With, Whole
<1> QED BY <1>2, <1>3, CalmOne

\* Where one part of a state is replaced the others stay.
LEMMA WithPart ==
  ASSUME NEW s, Whole(s)
  PROVE  /\ \A i, t : /\ With(s, i, t).trans = [s.trans EXCEPT ![i] = t]
                      /\ With(s, i, t).file = s.file /\ With(s, i, t).ports = s.ports /\ Whole(With(s, i, t))
         /\ \A g : /\ [s EXCEPT !.file = g].trans = s.trans /\ Whole([s EXCEPT !.file = g])
         /\ \A g : /\ [s EXCEPT !.ports = g].trans = s.trans /\ Whole([s EXCEPT !.ports = g])
<1>1. s = [trans |-> s.trans, file |-> s.file, ports |-> s.ports]
  BY DEF Whole
<1>2. ASSUME NEW g
      PROVE  /\ [s EXCEPT !.trans = g] = [trans |-> g, file |-> s.file, ports |-> s.ports]
             /\ [s EXCEPT !.file = g] = [trans |-> s.trans, file |-> g, ports |-> s.ports]
             /\ [s EXCEPT !.ports = g] = [trans |-> s.trans, file |-> s.file, ports |-> g]
  BY <1>1
<1>3. \A i, t : With(s, i, t) = [trans |-> [s.trans EXCEPT ![i] = t], file |-> s.file, ports |-> s.ports]
  BY <1>2 DEF With
<1> QED BY <1>2, <1>3 DEF Whole

\* t_closeconn on a transfer that has just been changed.
LEMMA CloseOne ==
  ASSUME NEW f, NEW i \in DOMAIN f, NEW t \in Record, t.status # "DONE",
         NEW y, NEW g, g = [f EXCEPT ![i] = t], y.trans = g,
         NEW e, e = [f EXCEPT ![i] = Ended(t)]
  PROVE  CloseConn(y, i).trans = e
<1> DEFINE live == {k \in {i} : y.trans[k].status # "DONE"}
<1>1. CloseConn(y, i).trans = [k \in DOMAIN y.trans |-> IF k \in live THEN Ended(y.trans[k]) ELSE y.trans[k]]
  BY DEF CloseConn, CloseAll
<1>2. live = {i} /\ DOMAIN y.trans = DOMAIN f /\ y.trans[i] = t
  OBVIOUS
<1>3. \A k \in DOMAIN f \ {i} : y.trans[k] = f[k]
  OBVIOUS
<1> HIDE DEF live
<1>4. CloseConn(y, i).trans = [k \in DOMAIN f |-> IF k = i THEN Ended(t) ELSE f[k]]
  BY <1>1, <1>2, <1>3
<1> QED BY <1>4

\* t_setup_send: who sends then has his peer's address kept; nobody else is touched.
LEMMA SetupSendPeers ==
  ASSUME NEW s, Whole(s), NEW i \in DOMAIN s.trans, Records(s.trans), NEW opens,
         \A j \in DOMAIN s.trans \ {i} : Met(s.trans[j]),
         s.trans[i].remote \in IF s.trans[i].family = 4 THEN Addr4 ELSE Addr6
  PROVE  LET w == SetupSend(s, i, opens)
         IN /\ DOMAIN w.trans = DOMAIN s.trans /\ Records(w.trans) /\ Peers(w.trans)
            /\ \A j \in DOMAIN s.trans \ {i} : w.trans[j] = s.trans[j]
            /\ w.trans[i].family = s.trans[i].family
<1> DEFINE t == [s.trans[i] EXCEPT !.status = "SENDING"]
           f == s.file[t.pack]
           new == ~f.fd
           u == [t EXCEPT !.dcc64 = @ \/ (new /\ mirc_dcc64 /\ t.pack \in Large),
                          !.sent = t.start, !.age = 0]
           g == IF new THEN [f EXCEPT !.fd = TRUE, !.loc = 0, !.pos = 0] ELSE f
           opened == [With(s, i, u) EXCEPT !.file = [s.file EXCEPT ![t.pack] = g]]
           v == [u EXCEPT !.remoteip = IF t.family = 4 THEN t.remote ELSE @]
           w == SetupSend(s, i, opens)
<1>1. s.trans[i] \in Record
  BY DEF Records
<1>2. /\ t \in Record /\ t.status = "SENDING" /\ t.family = s.trans[i].family /\ t.remote = s.trans[i].remote
      /\ t.start \in Nat /\ t.dcc64 \in BOOLEAN /\ t.remoteip \in Addr4 \cup {NoAddr} /\ t.family \in {4, 6}
  BY <1>1 DEF Record, Status
<1>3. w = IF new /\ ~opens THEN CloseConn(With(s, i, t), i)
          ELSE IF t.remote \in Denied THEN CloseConn(opened, i) ELSE With(opened, i, v)
  BY DEF SetupSend
<1>4. With(s, i, t).trans = [s.trans EXCEPT ![i] = t] /\ opened.trans = [s.trans EXCEPT ![i] = u]
      /\ Whole(opened)
  <2> DEFINE d == With(s, i, u)
             h == [s.file EXCEPT ![t.pack] = g]
  <2>1. With(s, i, t).trans = [s.trans EXCEPT ![i] = t] /\ Whole(d) /\ d.trans = [s.trans EXCEPT ![i] = u]
    <3> HIDE DEF t, u
    <3> QED BY WithPart
  <2>2. opened = [d EXCEPT !.file = h]
    OBVIOUS
  <2> HIDE DEF d, h, t, u, opened
  <2>3. [d EXCEPT !.file = h].trans = d.trans /\ Whole([d EXCEPT !.file = h])
    BY <2>1, WithPart
  <2> QED BY <2>1, <2>2, <2>3
<1>5. With(opened, i, v).trans = [s.trans EXCEPT ![i] = v]
  <2>1. With(opened, i, v).trans = [opened.trans EXCEPT ![i] = v]
    <3> HIDE DEF opened, v
    <3> QED BY <1>4, WithPart
  <2>2. [opened.trans EXCEPT ![i] = v] = [s.trans EXCEPT ![i] = v]
    <3> HIDE DEF opened, v, u
    <3> QED BY <1>4
  <2> HIDE DEF opened, v
  <2> QED BY <2>1, <2>2
<1> DEFINE wide == t.dcc64 \/ (new /\ mirc_dcc64 /\ t.pack \in Large)
<1>6. wide \in BOOLEAN
  OBVIOUS
<1>7. u = [t EXCEPT !.dcc64 = wide, !.sent = t.start, !.age = 0]
  OBVIOUS
<1> HIDE DEF wide, t, u
<1>8. u \in Record /\ u.status = "SENDING" /\ u.family = t.family /\ u.remote = t.remote
      /\ u.remoteip = t.remoteip
  BY <1>2, <1>6, <1>7 DEF Record
<1>9. v \in Record /\ v.status = "SENDING" /\ v.family = t.family /\ v.remote = t.remote
      /\ (t.family = 4 => v.remoteip = t.remote)
  BY <1>2, <1>8 DEF Record
<1> HIDE DEF v, opened, w, new
<1>10. w.trans \in {[s.trans EXCEPT ![i] = Ended(t)], [s.trans EXCEPT ![i] = Ended(u)], [s.trans EXCEPT ![i] = v]}
  <2>1. CASE w = CloseConn(With(s, i, t), i)
    <3>1. t.status # "DONE"
      BY <1>2
    <3>2. CloseConn(With(s, i, t), i).trans = [s.trans EXCEPT ![i] = Ended(t)]
      BY <3>1, <1>2, <1>4, CloseOne
    <3> QED BY <2>1, <3>2
  <2>2. CASE w = CloseConn(opened, i)
    <3>1. u.status # "DONE"
      BY <1>8
    <3>2. CloseConn(opened, i).trans = [s.trans EXCEPT ![i] = Ended(u)]
      BY <3>1, <1>8, <1>4, CloseOne
    <3> QED BY <2>2, <3>2
  <2>3. CASE w = With(opened, i, v)
    BY <2>3, <1>5
  <2> QED BY <1>3, <2>1, <2>2, <2>3
<1>11. \A x \in Record : Ended(x) \in Record /\ Met(Ended(x)) /\ Ended(x).family = x.family
  BY DEF Record, Ended, Status, Met, Busy
<1>12. Met(v)
  BY <1>2, <1>9 DEF Met
<1>13. PICK x \in Record : w.trans = [s.trans EXCEPT ![i] = x] /\ Met(x) /\ x.family = t.family
  BY <1>2, <1>8, <1>9, <1>10, <1>11, <1>12
<1> QED BY <1>2, <1>13 DEF Records, Peers, w

\* t_check_duplicateip: nobody who sends to the new peer is one too many.
LEMMA DuplicatePeers ==
  ASSUME NEW b, NEW i \in DOMAIN b.trans, Records(b.trans), Peers(b.trans), IsFiniteSet(DOMAIN b.trans)
  PROVE  LET w == CheckDuplicateIp(b, i)
             peers == {j \in DOMAIN w.trans : /\ w.trans[j].status = "SENDING" /\ ~w.trans[j].man
                                              /\ w.trans[j].remote = w.trans[i].remote}
         IN /\ DOMAIN w.trans = DOMAIN b.trans /\ Records(w.trans) /\ Calm(w.trans, b.trans)
            /\ ignore_duplicate_ip /\ maxtransfersperperson # 0
               /\ b.trans[i].family = 4 /\ w.trans[i].status = "SENDING"
               => Cardinality(peers) <= maxtransfersperperson
<1> DEFINE w == CheckDuplicateIp(b, i)
           same == {j \in DOMAIN b.trans : /\ b.trans[j].status = "SENDING" /\ ~b.trans[j].man
                                           /\ b.trans[j].remoteip = b.trans[i].remoteip}
           peers == {j \in DOMAIN w.trans : /\ w.trans[j].status = "SENDING" /\ ~w.trans[j].man
                                            /\ w.trans[j].remote = w.trans[i].remote}
           asked == ignore_duplicate_ip /\ maxtransfersperperson # 0 /\ b.trans[i].family = 4
           closed == CloseAll(b, same)
<1>1. w = IF asked /\ TooMany(same) THEN closed ELSE b
  BY DEF CheckDuplicateIp
<1>2. /\ DOMAIN closed.trans = DOMAIN b.trans /\ Records(closed.trans) /\ Calm(closed.trans, b.trans)
      /\ \A j \in same : ~Busy(closed.trans[j])
  <2>1. same \cap DOMAIN b.trans = same
    OBVIOUS
  <2> HIDE DEF same
  <2> QED BY <2>1, CloseAllCalm
<1>3. Calm(b.trans, b.trans)
  BY DEF Calm, SamePeer
<1> HIDE DEF closed, w
<1>4. DOMAIN w.trans = DOMAIN b.trans /\ Records(w.trans) /\ Calm(w.trans, b.trans)
  BY <1>1, <1>2, <1>3
<1>5. ASSUME asked, w.trans[i].status = "SENDING"
      PROVE  Cardinality(peers) <= maxtransfersperperson
  <2>1. peers \subseteq same
    <3> SUFFICES ASSUME NEW j \in peers PROVE j \in same
      OBVIOUS
    <3>1. SamePeer(b.trans[j], w.trans[j]) /\ SamePeer(b.trans[i], w.trans[i]) /\ Busy(b.trans[j])
      BY <1>4, <1>5 DEF Calm, Busy, SamePeer
    <3>2. Met(b.trans[j]) /\ Met(b.trans[i]) /\ b.trans[j].family \in {4, 6}
      BY <1>4 DEF Peers, Records, Record
    <3>3. b.trans[j].remote = b.trans[i].remote /\ b.trans[i].remote \in Addr4
          /\ b.trans[i].remoteip = b.trans[i].remote /\ b.trans[j].status = "SENDING" /\ ~b.trans[j].man
      BY <1>5, <3>1, <3>2 DEF Met, SamePeer, Busy
    <3>4. b.trans[j].family = 4
      BY <3>1, <3>2, <3>3, TransferAssumption DEF Met
    <3>5. b.trans[j].remoteip = b.trans[i].remoteip
      BY <3>2, <3>3, <3>4 DEF Met
    <3> QED BY <1>4, <3>3, <3>5
  <2>2. IsFiniteSet(same)
    <3>1. same \subseteq DOMAIN b.trans
      OBVIOUS
    <3> HIDE DEF same
    <3> QED BY <3>1, FS_Subset
  <2>3. Cardinality(peers) <= Cardinality(same) /\ Cardinality(same) \in Nat /\ Cardinality(peers) \in Nat
    <3> HIDE DEF same, peers
    <3> QED BY <2>1, <2>2, FS_Subset, FS_CardinalityType
  <2>4. CASE TooMany(same)
    <3>1. w = closed
      BY <1>1, <1>5, <2>4
    <3>2. peers = {}
      BY <1>2, <2>1, <3>1 DEF Busy
    <3>3. Cardinality(peers) = 0
      <4> HIDE DEF peers
      <4> QED BY <3>2, FS_EmptySet
    <3> QED BY <3>3, TransferAssumption
  <2>5. CASE ~TooMany(same)
    <3> HIDE DEF same, peers
    <3> QED BY <2>3, <2>5, TransferAssumption DEF TooMany
  <2> QED BY <2>4, <2>5
<1> QED BY <1>4, <1>5 DEF w

\* What a connection must not leave behind, as DuplicatesEnded says it.
NoneTooMany ==
  \A i \in DOMAIN trans \cap DOMAIN trans' :
    /\ ignore_duplicate_ip /\ maxtransfersperperson # 0
    /\ trans[i].status = "LISTENING" /\ trans[i].family = 4
    /\ trans'[i].status = "SENDING"
    => Cardinality({j \in DOMAIN trans' :
                      /\ trans'[j].status = "SENDING" /\ ~trans'[j].man
                      /\ trans'[j].remote = trans'[i].remote})
         <= maxtransfersperperson

\* A step that connects nobody.
LEMMA CalmStep ==
  ASSUME Peers(trans), Calm(trans', trans)
  PROVE  Peers(trans') /\ NoneTooMany
<1>1. \A i \in DOMAIN trans' : trans'[i].status = "SENDING" => trans[i].status = "SENDING"
  BY DEF Calm, Busy, SamePeer
<1> QED BY <1>1, CalmPeers DEF NoneTooMany

\* A step that connects nobody who listens.
LEMMA OtherStep ==
  ASSUME NEW i \in DOMAIN trans, trans[i].status # "LISTENING",
         Peers(trans'), \A j \in DOMAIN trans' \ {i} : Busy(trans'[j]) => j \in DOMAIN trans /\ SamePeer(trans[j], trans'[j])
  PROVE  Peers(trans') /\ NoneTooMany
<1>1. \A j \in DOMAIN trans' \ {i} : trans'[j].status = "SENDING" => trans[j].status = "SENDING"
  BY DEF Busy, SamePeer
<1> QED BY <1>1 DEF NoneTooMany

\* The state before a step.
LEMMA NowWhole ==
  ASSUME TransferInv
  PROVE  Whole(Now) /\ Now.trans = trans /\ Records(trans) /\ IsFiniteSet(DOMAIN trans)
<1>1. Typed(Now) /\ Now.trans = trans
  BY NowFields DEF TransferInv, Good
<1>2. IsFiniteSet(DOMAIN trans)
  BY <1>1, TransferAssumption, FS_Subset DEF Typed
<1> QED BY <1>1, <1>2 DEF Typed, Whole, Records

\* A step that only closes transfers.
LEMMA ClosedStep ==
  ASSUME TransferInv, Peers(trans), NEW S, Becomes(CloseAll(Now, S))
  PROVE  Peers(trans') /\ NoneTooMany
<1>1. trans' = CloseAll(Now, S).trans
  BY DEF Becomes
<1> QED BY <1>1, NowWhole, CloseAllCalm, CalmStep

\* A new transfer waits for its user (t_setup_dcc, t_setuplisten).
LEMMA CreateStep ==
  ASSUME TransferInv, Peers(trans), NEW i, NEW p \in Pack, NEW kind \in Kind, Create(i, p, kind)
  PROVE  Peers(trans') /\ NoneTooMany
<1>1. PICK changed \in BOOLEAN, taken \in SUBSET Port :
       LET s0 == IF changed THEN CloseAll(Now, OfPack(p)) ELSE Now
           t == [pack |-> p, man |-> kind.man, family |-> kind.family,
                 status |-> "RESUME", start |-> 0, sent |-> 0, ack |-> 0,
                 age |-> 0, port |-> 0, lsock |-> FALSE, csock |-> FALSE,
                 remote |-> NoAddr, remoteip |-> NoAddr, dcc64 |-> FALSE,
                 mmap |-> {}, intact |-> TRUE, flushed |-> FALSE]
           s1 == [s0 EXCEPT
                    !.trans = [j \in DOMAIN s0.trans \cup {i} |->
                                 IF j = i THEN t ELSE s0.trans[j]],
                    !.file = [s0.file EXCEPT ![p].count = @ + 1]]
       IN \/ Becomes(s1)
          \/ \E s2 \in SetupListen(s1, i, taken) : Becomes(s2)
  BY DEF Create
<1> DEFINE s0 == IF changed THEN CloseAll(Now, OfPack(p)) ELSE Now
           t == [pack |-> p, man |-> kind.man, family |-> kind.family,
                 status |-> "RESUME", start |-> 0, sent |-> 0, ack |-> 0,
                 age |-> 0, port |-> 0, lsock |-> FALSE, csock |-> FALSE,
                 remote |-> NoAddr, remoteip |-> NoAddr, dcc64 |-> FALSE,
                 mmap |-> {}, intact |-> TRUE, flushed |-> FALSE]
           list == [j \in DOMAIN s0.trans \cup {i} |-> IF j = i THEN t ELSE s0.trans[j]]
           s1 == [s0 EXCEPT !.trans = list, !.file = [s0.file EXCEPT ![p].count = @ + 1]]
<1>2. Whole(s0) /\ Records(s0.trans) /\ Calm(s0.trans, trans)
  <2>1. Whole(CloseAll(Now, OfPack(p)))
    BY DEF Whole, CloseAll
  <2>2. Calm(trans, trans)
    BY DEF Calm, SamePeer
  <2> QED BY <2>1, <2>2, NowWhole, CloseAllCalm
<1>3. t \in Record /\ ~Busy(t)
  <2>1. kind \in KindRecord
    BY TransferAssumption
  <2> QED BY <2>1, TransferAssumption DEF KindRecord, Record, Status, Busy, Port
<1> HIDE DEF s0, t
<1>4. s1.trans = list /\ Whole(s1)
  <2> HIDE DEF list
  <2>1. s0 = [trans |-> s0.trans, file |-> s0.file, ports |-> s0.ports]
    BY <1>2 DEF Whole
  <2> DEFINE h == [s0.file EXCEPT ![p].count = @ + 1]
  <2>3. s1 = [s0 EXCEPT !.trans = list, !.file = h]
    OBVIOUS
  <2> HIDE DEF h
  <2>2. s1 = [trans |-> list, file |-> h, ports |-> s0.ports]
    <3> HIDE DEF s1
    <3> QED BY <2>1, <2>3
  <2> HIDE DEF s1
  <2> QED BY <2>2 DEF Whole
<1>5. Records(list) /\ Calm(list, s0.trans) /\ i \in DOMAIN list
  BY <1>2, <1>3 DEF Records, Calm, SamePeer
<1> HIDE DEF list, s1
<1>6. Calm(list, trans)
  BY <1>2, <1>5, CalmAgain
<1>7. CASE Becomes(s1)
  BY <1>4, <1>6, <1>7, CalmStep DEF Becomes
<1>8. ASSUME NEW s2 \in SetupListen(s1, i, taken), Becomes(s2)
      PROVE  Peers(trans') /\ NoneTooMany
  <2>1. Calm(CloseConn(s1, i).trans, list) /\ Whole(CloseConn(s1, i))
    <3>1. Whole(CloseConn(s1, i))
      BY DEF Whole, CloseConn, CloseAll
    <3> QED BY <3>1, <1>4, <1>5, CloseAllCalm DEF CloseConn
  <2>2. \A x : [CloseConn(s1, i) EXCEPT !.ports = @ \cup {x}].trans = CloseConn(s1, i).trans
    <3> DEFINE c == CloseConn(s1, i)
    <3> HIDE DEF c
    <3>1. Whole(c) => \A x : [c EXCEPT !.ports = @ \cup {x}].trans = c.trans
      BY DEF Whole
    <3> QED BY <2>1, <3>1 DEF c
  <2>3. ASSUME NEW x
        PROVE  Calm([With(s1, i, [s1.trans[i] EXCEPT !.status = "LISTENING", !.lsock = TRUE, !.port = x])
                       EXCEPT !.ports = @ \cup {x}].trans, list)
    <3> DEFINE r == [s1.trans[i] EXCEPT !.status = "LISTENING", !.lsock = TRUE, !.port = x]
    <3>1. s1.trans[i] \in Record
      BY <1>4, <1>5 DEF Records
    <3>2. ~Busy(r)
      BY <3>1 DEF Record, Busy
    <3> HIDE DEF r
    <3>3. [With(s1, i, r) EXCEPT !.ports = @ \cup {x}].trans = [list EXCEPT ![i] = r]
      BY <1>4 DEF With, Whole
    <3>4. Calm([list EXCEPT ![i] = r], list)
      BY <1>4, <1>5, <3>2, CalmOne
    <3> QED BY <3>3, <3>4 DEF r
  <2>4. Calm(s2.trans, list)
    BY <1>8, <2>1, <2>2, <2>3 DEF SetupListen
  <2> QED BY <1>6, <1>8, <2>4, CalmAgain, CalmStep DEF Becomes
<1> QED BY <1>1, <1>7, <1>8 DEF s0, t, list, s1

\* One transfer changes, and neither begins nor changes a connection.
LEMMA OneStep ==
  ASSUME Peers(trans), NEW i \in DOMAIN trans, NEW t, ~Busy(t) \/ SamePeer(trans[i], t),
         trans' = [trans EXCEPT ![i] = t]
  PROVE  Peers(trans') /\ NoneTooMany
<1>1. Calm(trans', trans)
  BY DEF Calm, SamePeer
<1> QED BY <1>1, CalmStep

\* The answer of a passive user: his address is one of the family asked for.
LEMMA PassiveStep ==
  ASSUME TransferInv, Peers(trans), NEW i \in DOMAIN trans,
         NEW a \in IF trans[i].family = 4 THEN Addr4 ELSE Addr6, Passive(i, a)
  PROVE  Peers(trans') /\ NoneTooMany
<1> DEFINE t == [trans[i] EXCEPT !.remote = a, !.csock = TRUE]
           s == With(Now, i, t)
           u == [s.trans[i] EXCEPT !.status = "CONNECTING"]
<1>1. Whole(Now) /\ Now.trans = trans /\ Records(trans)
  BY NowWhole
<1>2. trans[i].status = "RESUME" /\ trans[i] \in Record
  BY <1>1 DEF Passive, Records
<1>3. t \in Record /\ t.status = "RESUME" /\ ~Busy(t)
  BY <1>2 DEF Record, Addr, Busy
<1>4. t.remote = a /\ t.family = trans[i].family
  BY <1>2 DEF Record
<1> HIDE DEF t
<1>5. s.trans = [trans EXCEPT ![i] = t] /\ Whole(s)
  BY <1>1 DEF With, Whole
<1>6. s.trans[i] = t
  BY <1>5
<1> HIDE DEF s
<1>7. CASE Becomes(CloseConn(s, i))
  <2>1. Records(s.trans) /\ Calm(s.trans, trans)
    BY <1>1, <1>3, <1>5 DEF Records, Calm, SamePeer
  <2>2. Calm(CloseConn(s, i).trans, s.trans)
    BY <2>1, CloseAllCalm DEF CloseConn
  <2>3. Calm(trans', trans)
    BY <1>7, <2>1, <2>2, CalmAgain DEF Becomes
  <2> QED BY <2>3, CalmStep
<1>8. CASE Becomes(With(s, i, u))
  <2>1. u.status = "CONNECTING" /\ u.remote = a /\ u.family = trans[i].family
    BY <1>3, <1>4, <1>6 DEF Record
  <2> HIDE DEF u
  <2>2. With(s, i, u).trans = [trans EXCEPT ![i] = u]
    BY <1>5 DEF With, Whole
  <2>3. trans' = [trans EXCEPT ![i] = u]
    BY <1>8, <2>2 DEF Becomes
  <2>4. Met(u)
    BY <2>1 DEF Met, Busy
  <2>5. Peers(trans')
    BY <2>3, <2>4 DEF Peers
  <2> QED BY <1>2, <2>3, <2>5, OtherStep DEF SamePeer
<1> QED BY <1>7, <1>8 DEF Passive, s, t

\* A connection to a passive user is there: t_setup_send keeps his address.
LEMMA ConnectedStep ==
  ASSUME TransferInv, Peers(trans), NEW i \in DOMAIN trans, Connected(i)
  PROVE  Peers(trans') /\ NoneTooMany
<1>1. Whole(Now) /\ Now.trans = trans /\ Records(trans)
  BY NowWhole
<1>2. trans[i].status = "CONNECTING"
  BY DEF Connected
<1>3. CASE Becomes(CloseConn(Now, i))
  BY <1>3, ClosedStep DEF CloseConn
<1>4. ASSUME NEW opens \in BOOLEAN, Becomes(SetupSend(Now, i, opens))
      PROVE  Peers(trans') /\ NoneTooMany
  <2>1. trans' = SetupSend(Now, i, opens).trans
    BY <1>4 DEF Becomes
  <2>2. trans[i].remote \in IF trans[i].family = 4 THEN Addr4 ELSE Addr6
    BY <1>2 DEF Peers, Met, Busy
  <2>3. \A j \in DOMAIN trans : Met(trans[j])
    BY DEF Peers
  <2>4. DOMAIN trans' = DOMAIN trans /\ Peers(trans') /\ \A j \in DOMAIN trans \ {i} : trans'[j] = trans[j]
    BY <1>1, <2>1, <2>2, <2>3, SetupSendPeers
  <2> QED BY <1>2, <2>4, OtherStep DEF SamePeer
<1> QED BY <1>3, <1>4 DEF Connected

\* A user connects: t_setup_send keeps his address, t_check_duplicateip counts by it.
LEMMA NewConnectionStep ==
  ASSUME TransferInv, Peers(trans), NEW i \in DOMAIN trans, NewConnection(i)
  PROVE  Peers(trans') /\ NoneTooMany
<1>1. Whole(Now) /\ Now.trans = trans /\ Records(trans) /\ IsFiniteSet(DOMAIN trans)
  BY NowWhole
<1>2. trans[i].status = "LISTENING" /\ trans[i] \in Record
  BY <1>1 DEF NewConnection, Records
<1>3. ASSUME NEW b, Becomes(CheckDuplicateIp(b, i)), DOMAIN b.trans = DOMAIN trans, Records(b.trans),
             Peers(b.trans), b.trans[i].family = trans[i].family,
             \A j \in DOMAIN trans \ {i} : Busy(b.trans[j]) => SamePeer(trans[j], b.trans[j])
      PROVE  Peers(trans') /\ NoneTooMany
  <2>1. trans' = CheckDuplicateIp(b, i).trans
    BY <1>3 DEF Becomes
  <2>2. /\ DOMAIN trans' = DOMAIN trans /\ Calm(trans', b.trans)
        /\ ignore_duplicate_ip /\ maxtransfersperperson # 0
             /\ b.trans[i].family = 4 /\ trans'[i].status = "SENDING"
           => Cardinality({j \in DOMAIN trans' : /\ trans'[j].status = "SENDING" /\ ~trans'[j].man
                                                 /\ trans'[j].remote = trans'[i].remote})
                <= maxtransfersperperson
    <3>1. i \in DOMAIN b.trans /\ IsFiniteSet(DOMAIN b.trans)
      BY <1>1, <1>3
    <3> DEFINE w == CheckDuplicateIp(b, i)
    <3>2. /\ DOMAIN w.trans = DOMAIN b.trans /\ Calm(w.trans, b.trans)
          /\ ignore_duplicate_ip /\ maxtransfersperperson # 0
               /\ b.trans[i].family = 4 /\ w.trans[i].status = "SENDING"
             => Cardinality({j \in DOMAIN w.trans : /\ w.trans[j].status = "SENDING" /\ ~w.trans[j].man
                                                    /\ w.trans[j].remote = w.trans[i].remote})
                  <= maxtransfersperperson
      BY <1>3, <3>1, DuplicatePeers
    <3>3. w.trans = trans'
      BY <2>1
    <3> HIDE DEF w
    <3> QED BY <1>3, <3>2, <3>3
  <2>3. Peers(trans')
    BY <1>3, <2>2, CalmPeers
  <2>4. \A j \in DOMAIN trans \ {i} : trans'[j].status = "SENDING" => trans[j].status = "SENDING"
    BY <1>3, <2>2 DEF Calm, Busy, SamePeer
  <2> QED BY <1>3, <2>2, <2>3, <2>4 DEF NoneTooMany
<1>4. CASE Becomes(CheckDuplicateIp(CloseConn(Now, i), i))
  <2> DEFINE c == CloseConn(Now, i)
  <2>1. DOMAIN c.trans = DOMAIN trans /\ Records(c.trans) /\ Calm(c.trans, trans)
    BY <1>1, CloseAllCalm DEF CloseConn
  <2>2. c.trans = [trans EXCEPT ![i] = Ended(trans[i])]
    <3>1. trans = [trans EXCEPT ![i] = trans[i]]
      <4>1. Typed(Now)
        BY DEF TransferInv, Good
      <4>2. trans = [j \in DOMAIN trans |-> trans[j]]
        BY <1>1, <4>1 DEF Typed
      <4> QED BY <4>2
    <3> QED BY <1>1, <1>2, <3>1, CloseOne
  <2>3. Ended(trans[i]).family = trans[i].family
    BY <1>2 DEF Ended, Record
  <2>4. Becomes(CheckDuplicateIp(c, i))
    BY <1>4
  <2> HIDE DEF c
  <2>5. Peers(c.trans) /\ c.trans[i].family = trans[i].family
    BY <2>1, <2>2, <2>3, CalmPeers
  <2> QED BY <1>3, <2>1, <2>4, <2>5 DEF Calm
<1>5. ASSUME NEW a \in IF trans[i].family = 4 THEN Addr4 ELSE Addr6, NEW opens \in BOOLEAN,
             Becomes(CheckDuplicateIp(
               SetupSend([With(Now, i, [trans[i] EXCEPT !.remote = a, !.csock = TRUE, !.lsock = FALSE])
                            EXCEPT !.ports = @ \ {trans[i].port}], i, opens), i))
      PROVE  Peers(trans') /\ NoneTooMany
  <2> DEFINE r == [trans[i] EXCEPT !.remote = a, !.csock = TRUE, !.lsock = FALSE]
             s == [With(Now, i, r) EXCEPT !.ports = @ \ {trans[i].port}]
             b == SetupSend(s, i, opens)
  <2>1. r \in Record /\ r.remote = a /\ r.family = trans[i].family
    BY <1>2 DEF Record, Addr
  <2> HIDE DEF r
  <2>2. s.trans = [trans EXCEPT ![i] = r] /\ Whole(s)
    <3> DEFINE d == With(Now, i, r)
               h == d.ports \ {trans[i].port}
    <3>1. Whole(d) /\ d.trans = [trans EXCEPT ![i] = r]
      BY <1>1, WithPart
    <3>2. s = [d EXCEPT !.ports = h]
      OBVIOUS
    <3> HIDE DEF d, h, s
    <3>3. [d EXCEPT !.ports = h].trans = d.trans /\ Whole([d EXCEPT !.ports = h])
      BY <3>1, WithPart
    <3> QED BY <3>1, <3>2, <3>3
  <2> HIDE DEF s
  <2>3. /\ i \in DOMAIN s.trans /\ DOMAIN s.trans = DOMAIN trans /\ Records(s.trans)
        /\ \A j \in DOMAIN s.trans \ {i} : Met(s.trans[j]) /\ s.trans[j] = trans[j]
        /\ s.trans[i] = r
    BY <1>1, <2>1, <2>2 DEF Records, Peers
  <2>4. /\ DOMAIN b.trans = DOMAIN trans /\ Records(b.trans) /\ Peers(b.trans)
        /\ \A j \in DOMAIN trans \ {i} : b.trans[j] = trans[j]
        /\ b.trans[i].family = trans[i].family
    BY <2>1, <2>2, <2>3, SetupSendPeers
  <2>5. Becomes(CheckDuplicateIp(b, i))
    BY <1>5 DEF s, r
  <2> HIDE DEF b
  <2> QED BY <1>3, <2>4, <2>5 DEF SamePeer
<1> QED BY <1>4, <1>5 DEF NewConnection

\* A round that uses mmap connects nobody.
LEMMA MapWriteStep ==
  ASSUME TransferInv, Peers(trans), NEW i \in DOMAIN trans, MapWrite(i)
  PROVE  Peers(trans') /\ NoneTooMany
<1> DEFINE t == trans[i]
           p == t.pack
           k == t.sent \div SegSize
           s == Mapped(Now, i, k)
           dropped == [With(Now, i, [t EXCEPT !.mmap = {}])
                         EXCEPT !.file = [file EXCEPT ![p].refs = Unref(Now, p, {i})]]
<1>1. Whole(Now) /\ Now.trans = trans /\ Records(trans)
  BY NowWhole
<1>2. t \in Record
  BY <1>1 DEF Records
<1>3. \A S \in SUBSET Segment : SamePeer(t, [t EXCEPT !.mmap = S]) /\ [t EXCEPT !.mmap = S] \in Record
  BY <1>2 DEF SamePeer, Record
<1>4. k \in Nat
  BY <1>2, TransferAssumption DEF Record
<1>5. Whole(s) /\ Records(s.trans) /\ Calm(s.trans, trans) /\ i \in DOMAIN s.trans
  <2> DEFINE x == [t EXCEPT !.mmap = {k}]
             refs == Unref(Now, p, {i})
             w == [With(Now, i, x) EXCEPT !.file = [Now.file EXCEPT ![p].refs = [refs EXCEPT ![k] = @ + 1]]]
  <2>1. s = IF k \in t.mmap THEN Now ELSE w
    BY <1>1 DEF Mapped
  <2>2. x \in Record /\ SamePeer(t, x)
    BY <1>3, <1>4 DEF Segment
  <2>3. Calm(trans, trans)
    BY DEF Calm, SamePeer
  <2> HIDE DEF x, refs, t, k, p
  <2>4. Whole(w) /\ w.trans = [trans EXCEPT ![i] = x]
    <3> DEFINE d == With(Now, i, x)
               h == [Now.file EXCEPT ![p].refs = [refs EXCEPT ![k] = @ + 1]]
    <3>1. Whole(d) /\ d.trans = [trans EXCEPT ![i] = x]
      BY <1>1, WithPart
    <3> HIDE DEF d, h
    <3>2. [d EXCEPT !.file = h].trans = d.trans /\ Whole([d EXCEPT !.file = h])
      BY <3>1, WithPart
    <3> QED BY <3>1, <3>2 DEF d, h
  <2> HIDE DEF w, s
  <2>5. Records(w.trans) /\ Calm(w.trans, trans) /\ i \in DOMAIN w.trans
    BY <1>1, <2>2, <2>4 DEF Records, Calm, t, SamePeer
  <2> QED BY <1>1, <2>1, <2>3, <2>4, <2>5
<1>6. ASSUME NEW m \in Nat, Becomes(SentSome(s, i, m, t.sent))
      PROVE  Peers(trans') /\ NoneTooMany
  <2> HIDE DEF s
  <2>1. Calm(SentSome(s, i, m, t.sent).trans, s.trans)
    BY <1>5, SentSomeCalm
  <2>2. trans' = SentSome(s, i, m, t.sent).trans
    BY <1>6 DEF Becomes
  <2>3. Calm(trans', trans)
    BY <1>5, <2>1, <2>2, CalmAgain
  <2> QED BY <2>3, CalmStep
<1>7. CASE Becomes(dropped)
  <2> DEFINE x == [t EXCEPT !.mmap = {}]
  <2>1. SamePeer(t, x)
    BY <1>3 DEF Segment
  <2>2. dropped.trans = [trans EXCEPT ![i] = x]
    <3> DEFINE d == With(Now, i, x)
               h == [file EXCEPT ![p].refs = Unref(Now, p, {i})]
    <3>1. Whole(d) /\ d.trans = [trans EXCEPT ![i] = x]
      BY <1>1, WithPart
    <3> HIDE DEF d, h
    <3>2. [d EXCEPT !.file = h].trans = d.trans
      BY <3>1, WithPart
    <3> QED BY <3>1, <3>2 DEF d, h
  <2> QED BY <1>7, <2>1, <2>2, OneStep DEF Becomes
<1>8. \A end : \A m \in 0..(end - t.sent) : m \in Nat
  OBVIOUS
<1> HIDE DEF s, dropped
<1> QED BY <1>6, <1>7, <1>8 DEF MapWrite, s, dropped

\* Nor does one that uses sendfile or read and write.
LEMMA SendStep ==
  ASSUME TransferInv, Peers(trans), NEW i \in DOMAIN trans, SendFile(i) \/ ReadWrite(i)
  PROVE  Peers(trans') /\ NoneTooMany
<1>1. Whole(Now) /\ Now.trans = trans /\ Records(trans)
  BY NowWhole
<1>2. ASSUME NEW s, Whole(s), s.trans = trans, NEW m \in Nat, NEW from, Becomes(SentSome(s, i, m, from))
      PROVE  Peers(trans') /\ NoneTooMany
  <2>1. Calm(SentSome(s, i, m, from).trans, trans)
    BY <1>1, <1>2, SentSomeCalm
  <2>2. trans' = SentSome(s, i, m, from).trans
    BY <1>2 DEF Becomes
  <2> QED BY <2>1, <2>2, CalmStep
<1>3. CASE SendFile(i)
  <2>1. CASE UNCHANGED trans
    <3>1. Calm(trans', trans)
      BY <2>1 DEF Calm, SamePeer
    <3> QED BY <3>1, CalmStep
  <2>2. ASSUME NEW m \in 0..(Size[trans[i].pack] - trans[i].sent), Becomes(SentSome(Now, i, m, trans[i].sent))
        PROVE  Peers(trans') /\ NoneTooMany
    BY <1>1, <1>2, <2>2
  <2> QED BY <1>3, <2>1, <2>2 DEF SendFile
<1>4. CASE ReadWrite(i)
  <2>1. \E g, from : \E m \in Nat : Becomes(SentSome([Now EXCEPT !.file = g], i, m, from))
    <3> DEFINE t == trans[i]
               f == Seek(file[t.pack], t.sent)
    <3>1. PICK n \in 0..(Size[t.pack] - f.pos) : \E m \in 0..n :
            Becomes(SentSome([Now EXCEPT !.file =
                      [file EXCEPT ![t.pack] = [f EXCEPT !.loc = @ + n, !.pos = @ + n]]], i, m, f.pos))
      BY <1>4 DEF ReadWrite
    <3> HIDE DEF f
    <3> QED BY <3>1
  <2>2. \A g : Whole([Now EXCEPT !.file = g]) /\ [Now EXCEPT !.file = g].trans = trans
    BY <1>1 DEF Whole
  <2> QED BY <1>2, <2>1, <2>2
<1> QED BY <1>3, <1>4

\* An acknowledgement connects nobody.
LEMMA ReadJunkStep ==
  ASSUME TransferInv, Peers(trans), NEW i \in DOMAIN trans, ReadJunk(i)
  PROVE  Peers(trans') /\ NoneTooMany
<1>1. trans[i] \in Record
  BY NowWhole DEF Records
<1>2. CASE Becomes(CloseConn(Now, i))
  BY <1>2, ClosedStep DEF CloseConn
<1>3. ASSUME NEW a \in trans[i].ack..trans[i].sent,
             trans' = [trans EXCEPT ![i] =
                         IF FlushedAt([trans[i] EXCEPT !.ack = a, !.age = 0], a)
                           THEN [[trans[i] EXCEPT !.ack = a, !.age = 0] EXCEPT !.status = "DONE", !.csock = FALSE,
                                                                             !.flushed = TRUE]
                           ELSE [trans[i] EXCEPT !.ack = a, !.age = 0]]
      PROVE  Peers(trans') /\ NoneTooMany
  <2> DEFINE t == [trans[i] EXCEPT !.ack = a, !.age = 0]
             u == IF FlushedAt(t, a) THEN [t EXCEPT !.status = "DONE", !.csock = FALSE, !.flushed = TRUE] ELSE t
  <2>1. ~Busy(u) \/ SamePeer(trans[i], u)
    BY <1>1 DEF Busy, SamePeer, Record
  <2>2. trans' = [trans EXCEPT ![i] = u]
    BY <1>3
  <2> HIDE DEF u
  <2> QED BY <2>1, <2>2, OneStep
<1> QED BY <1>2, <1>3 DEF ReadJunk

\* Nor does the visit of the one-second job.
LEMMA SecondStep ==
  ASSUME TransferInv, Peers(trans), NEW i \in DOMAIN trans, Second(i)
  PROVE  Peers(trans') /\ NoneTooMany
<1>1. Whole(Now) /\ Now.trans = trans /\ Records(trans)
  BY NowWhole
<1>2. ASSUME NEW s, Whole(s), Calm(s.trans, trans), Becomes(Without(s, i))
      PROVE  Peers(trans') /\ NoneTooMany
  <2>1. trans' = [j \in DOMAIN s.trans \ {i} |-> s.trans[j]]
    BY <1>2 DEF Becomes, Without, Whole
  <2>2. Calm(trans', trans)
    BY <1>2, <2>1 DEF Calm
  <2> QED BY <2>2, CalmStep
<1>3. CASE Becomes(Without(CloseConn(Now, i), i))
  <2>1. Whole(CloseConn(Now, i))
    BY DEF Whole, CloseConn, CloseAll
  <2>2. Calm(CloseConn(Now, i).trans, trans)
    BY <1>1, CloseAllCalm DEF CloseConn
  <2> QED BY <1>2, <1>3, <2>1, <2>2
<1>4. CASE Becomes(Without(Now, i))
  <2>1. Calm(trans, trans)
    BY DEF Calm, SamePeer
  <2> QED BY <1>1, <1>2, <1>4, <2>1
<1>5. CASE trans' = [trans EXCEPT ![i].age = IF @ < Patience THEN @ + 1 ELSE @]
  <2> DEFINE n == IF trans[i].age < Patience THEN trans[i].age + 1 ELSE trans[i].age
             t == [trans[i] EXCEPT !.age = n]
  <2>1. trans' = [trans EXCEPT ![i] = t]
    BY <1>5
  <2>2. SamePeer(trans[i], t)
    BY <1>1 DEF Records, Record, SamePeer
  <2> HIDE DEF t
  <2> QED BY <2>1, <2>2, OneStep
<1> QED BY <1>3, <1>4, <1>5 DEF Second

\* Every step: a host with too many transfers is only left where nobody has connected.
LEMMA PeersNext ==
  ASSUME TransferInv, Peers(trans), [Next]_vars
  PROVE  Peers(trans') /\ NoneTooMany
<1>1. ASSUME NEW i \in DOMAIN trans, Step(i)
      PROVE  Peers(trans') /\ NoneTooMany
  <2>1. ASSUME NEW start \in 0..Size[trans[i].pack], FindResume(i, start)
        PROVE  Peers(trans') /\ NoneTooMany
    <3> DEFINE t == [trans[i] EXCEPT !.start = start, !.ack = start]
    <3>1. trans[i] \in Record
      BY NowWhole DEF Records
    <3>2. SamePeer(trans[i], t)
      BY <3>1 DEF Record, SamePeer
    <3>3. trans' = [trans EXCEPT ![i] = t]
      BY <2>1 DEF FindResume
    <3> HIDE DEF t
    <3> QED BY <3>2, <3>3, OneStep
  <2>2. CASE SendFails(i) \/ Close(i)
    BY <2>2, ClosedStep DEF SendFails, Close, CloseConn
  <2> QED BY <1>1, <2>1, <2>2, PassiveStep, ConnectedStep, NewConnectionStep, MapWriteStep, SendStep,
            ReadJunkStep DEF Step
<1>2. CASE PortExpires \/ UNCHANGED vars
  <2>1. trans' = trans
    BY <1>2 DEF PortExpires, vars
  <2>2. Calm(trans', trans)
    BY <2>1 DEF Calm, SamePeer
  <2> QED BY <2>2, CalmStep
<1>3. ASSUME NEW p \in Pack, FileChanged(p)
      PROVE  Peers(trans') /\ NoneTooMany
  BY <1>3, ClosedStep DEF FileChanged
<1> QED BY <1>1, <1>2, <1>3, SecondStep, CreateStep DEF Next

\* After a user has connected no more than maxtransfersperperson transfers send to his
\* address, whoever was connected before (t_check_duplicateip).
THEOREM DuplicatesEndedHolds == Spec => DuplicatesEnded
<1>1. Init => Peers(trans)
  BY DEF Init, Peers
<1>2. TransferInv /\ TransferInv' /\ Peers(trans) /\ [Next]_vars => Peers(trans')
  BY PeersNext
<1>3. Peers(trans)' <=> Peers(trans')
  BY DEF Peers
<1>4. TransferInv /\ Peers(trans) /\ [Next]_vars => [NoneTooMany]_vars
  BY PeersNext
<1>5. Spec => []Peers(trans)
  BY <1>1, <1>2, <1>3, TransferInvariant, PTL DEF Spec
<1>6. DuplicatesEnded <=> [][NoneTooMany]_vars
  BY DEF DuplicatesEnded, NoneTooMany
<1> QED BY <1>4, <1>5, <1>6, TransferInvariant, PTL DEF Spec
=============================================================================
