--------------------------- MODULE RestartProofs ---------------------------
(***************************************************************************)
(* What outlives the process: ignores and the items of the state file.     *)
(*                                                                         *)
(* IgnoreKept for any users, masks and times, any threshold and rate, and  *)
(* any number of entries.  An entry goes when a drop leaves it with 0, so  *)
(* one with b drops left, b at least 1, stays for b leaks; one with less   *)
(* than that lasts at least as long as one with 1.  What has been announced*)
(* for a mask is covered by an entry that lasts that long, in the list     *)
(* while the bot runs (counted from the last leak) and in the file (counted*)
(* from when it was written): Covered.  The file is written whenever       *)
(* something is announced and whenever an entry goes, so what it says may  *)
(* be old but is true.                                                     *)
(*                                                                         *)
(* KeptOverStart for any packs, requests and configurations.  A pack is a  *)
(* list of items, each written on a condition, and reading goes through    *)
(* them in their order: ReadNext says what one condition and one item do   *)
(* to a field, PackRead puts the twelve together.  A request is a number   *)
(* in the file, so it is found only if no pack before it is left out.      *)
(***************************************************************************)
EXTENDS Ignores, StateItems, QueuesTheorems

Entry == [mask : Mask, bucket : Int, ignoring : BOOLEAN]
Lasts(b) == IF b > 1 THEN b ELSE 1
Covers(e, at, m, f) == e.mask = m /\ e.ignoring = TRUE /\ f <= at + 1 + Threshold * Lasts(e.bucket)
Covered(l, at, m, f) == \E i \in DOMAIN l : Covers(l[i], at, m, f)

Typed ==
  /\ list \in Seq(Entry) /\ dec \in Nat /\ clock \in Nat /\ running \in BOOLEAN
  /\ onDisk \in [list : Seq(Entry), at : Nat]
  /\ promised \in [Mask -> [from : Int, to : Int]]
  /\ dec <= clock /\ onDisk.at <= clock /\ (running => clock <= dec + Threshold)
  /\ \A i \in DOMAIN onDisk.list : onDisk.list[i].ignoring
Promises ==
  \A m \in Mask : clock < promised[m].from =>
    /\ running => Covered(list, dec, m, promised[m].from)
    /\ Covered(onDisk.list, onDisk.at, m, promised[m].from)
IgnInv == Typed /\ Promises

\* No bucket has overflowed what the file holds.
Small == \A i \in DOMAIN list : list[i].bucket < Word32
SmallList(l) == \A i \in DOMAIN l : l[i].bucket < Word32
-----------------------------------------------------------------------------
(* Entries *)

\* More drops last longer, by the threshold each.
LEMMA LongerLasts ==
  ASSUME NEW a \in Int, NEW b \in Int, Lasts(a) <= Lasts(b)
  PROVE  /\ Threshold * Lasts(a) \in Nat /\ Threshold * Lasts(b) \in Nat
         /\ Threshold * Lasts(a) <= Threshold * Lasts(b)
<1> DEFINE x == Lasts(a)
           y == Lasts(b)
<1>1. x \in Nat /\ y \in Nat /\ x <= y /\ Threshold \in Nat
  BY IgnoresAssumption DEF Lasts
<1> HIDE DEF x, y
<1>2. x * Threshold <= y * Threshold /\ x * Threshold \in Nat /\ y * Threshold \in Nat
  BY <1>1, TimesOrder
<1>3. Threshold * x = x * Threshold /\ Threshold * y = y * Threshold
  BY <1>1
<1> QED BY <1>2, <1>3 DEF x, y

\* An entry that changes covers what it did unless it loses drops.
LEMMA CoversMore ==
  ASSUME NEW e \in Entry, NEW d \in Entry, NEW at \in Int, NEW now \in Int, NEW m, NEW f \in Int,
         Covers(e, at, m, f), d.mask = e.mask, d.ignoring = e.ignoring, Lasts(e.bucket) <= Lasts(d.bucket), at <= now
  PROVE  Covers(d, now, m, f)
<1> DEFINE x == Threshold * Lasts(e.bucket)
           y == Threshold * Lasts(d.bucket)
<1>1. x \in Nat /\ y \in Nat /\ x <= y
  <2>1. e.bucket \in Int /\ d.bucket \in Int
    BY DEF Entry
  <2> QED BY <2>1, LongerLasts
<1>2. f <= at + 1 + x /\ e.mask = m /\ e.ignoring = TRUE
  BY DEF Covers
<1> HIDE DEF x, y
<1>3. f <= now + 1 + y
  BY <1>1, <1>2
<1> QED BY <1>2, <1>3 DEF Covers, y

\* One entry of a list changes.
LEMMA CoveredChanged ==
  ASSUME NEW q \in Seq(Entry), NEW i \in DOMAIN q, NEW d \in Entry, NEW at \in Int, NEW m, NEW f \in Int,
         q[i].ignoring => d.mask = q[i].mask /\ d.ignoring = q[i].ignoring /\ Lasts(q[i].bucket) <= Lasts(d.bucket),
         Covered(q, at, m, f)
  PROVE  Covered([q EXCEPT ![i] = d], at, m, f)
<1> DEFINE r == [q EXCEPT ![i] = d]
<1>1. PICK j \in DOMAIN q : Covers(q[j], at, m, f)
  BY DEF Covered
<1>2. DOMAIN r = DOMAIN q /\ r[i] = d /\ (j # i => r[j] = q[j]) /\ q[i] \in Entry
  OBVIOUS
<1>3. CASE j # i
  BY <1>1, <1>2, <1>3 DEF Covered
<1>4. CASE j = i
  <2>1. q[i].ignoring = TRUE
    BY <1>1, <1>4 DEF Covers
  <2>2. Covers(d, at, m, f)
    BY <1>1, <1>2, <1>4, <2>1, CoversMore
  <2> HIDE DEF r
  <2> QED BY <1>2, <2>2 DEF Covered, r
<1> QED BY <1>3, <1>4

\* write_statefile writes all that covers something.
LEMMA WrittenCovers ==
  ASSUME NEW l \in Seq(Entry), SmallList(l), Typed
  PROVE  /\ Written(l) \in [list : Seq(Entry), at : Nat] /\ Written(l).at = clock
         /\ \A i \in DOMAIN Written(l).list : Written(l).list[i].ignoring
         /\ \A at \in Int, m \in Mask, f \in Int : at <= clock /\ Covered(l, at, m, f) => Covered(Written(l).list, clock, m, f)
<1> DEFINE K == {i \in DOMAIN l : l[i].ignoring}
           kept == Keep(l, K)
           out == [i \in DOMAIN kept |-> [kept[i] EXCEPT !.bucket = @ % Word32]]
<1>1. K \subseteq DOMAIN l
  OBVIOUS
<1>2. kept \in Seq({l[i] : i \in K}) /\ kept \in Seq(Entry)
  BY <1>1, KeepType
<1>3. Written(l) = [list |-> out, at |-> clock]
  BY DEF Written
<1>4. clock \in Nat
  BY DEF Typed
<1>5. \A i \in K : l[i].ignoring = TRUE /\ l[i] \in Entry /\ l[i].bucket < Word32
  <2> SUFFICES ASSUME NEW i \in K PROVE l[i].ignoring = TRUE /\ l[i] \in Entry /\ l[i].bucket < Word32
    OBVIOUS
  <2>1. i \in DOMAIN l /\ l[i] \in Entry /\ l[i].ignoring
    OBVIOUS
  <2>2. l[i].ignoring \in BOOLEAN
    BY <2>1 DEF Entry
  <2> QED BY <2>1, <2>2 DEF SmallList
<1>6. ASSUME NEW i \in DOMAIN kept
      PROVE  /\ kept[i] \in Entry /\ kept[i].ignoring = TRUE /\ kept[i].bucket \in Int /\ kept[i].bucket < Word32
             /\ out[i] \in Entry /\ out[i].mask = kept[i].mask /\ out[i].ignoring = TRUE
             /\ Lasts(kept[i].bucket) <= Lasts(out[i].bucket)
  <2> DEFINE e == kept[i]
             b == e.bucket % Word32
  <2>1. kept[i] \in {l[j] : j \in K}
    <3> DEFINE R == {l[j] : j \in K}
    <3>1. kept \in Seq(R)
      BY <1>2
    <3> HIDE DEF R, kept
    <3>2. kept[i] \in R
      BY <3>1
    <3> QED BY <3>2 DEF R
  <2>2. PICK j \in K : e = l[j]
    BY <2>1
  <2>3. e \in Entry /\ e.ignoring = TRUE /\ e.bucket \in Int /\ e.bucket < Word32
    BY <1>5, <2>2 DEF Entry
  <2>4. out[i] = [e EXCEPT !.bucket = b]
    OBVIOUS
  <2> HIDE DEF e, out
  <2>5. Word32 \in Nat /\ Word32 > 0
    BY IgnoresAssumption
  <2>6. b \in Nat /\ (e.bucket >= 0 => b = e.bucket)
    BY <2>3, <2>5
  <2>7. Lasts(e.bucket) <= Lasts(b)
    BY <2>3, <2>6 DEF Lasts
  <2> HIDE DEF b
  <2>8. out[i] \in Entry /\ out[i].mask = e.mask /\ out[i].ignoring = TRUE /\ out[i].bucket = b
    BY <2>3, <2>4, <2>6 DEF Entry
  <2> QED BY <2>3, <2>7, <2>8 DEF e
<1>7. DOMAIN kept = 1..Len(kept) /\ Len(kept) \in Nat /\ DOMAIN out = DOMAIN kept
  <2> HIDE DEF kept
  <2> QED BY <1>2
<1> HIDE DEF kept
<1>8. out \in Seq(Entry)
  <2>1. \A i \in 1..Len(kept) : out[i] \in Entry
    BY <1>6, <1>7
  <2>2. out = [i \in 1..Len(kept) |-> out[i]]
    BY <1>7
  <2> HIDE DEF out
  <2> QED BY <1>7, <2>1, <2>2
<1> HIDE DEF out
<1>9. ASSUME NEW at \in Int, NEW m \in Mask, NEW f \in Int, at <= clock, Covered(l, at, m, f)
      PROVE  Covered(out, clock, m, f)
  <2>1. PICK i \in DOMAIN l : Covers(l[i], at, m, f)
    BY <1>9 DEF Covered
  <2>2. i \in K
    BY <2>1 DEF Covers
  <2>3. PICK j \in DOMAIN kept : kept[j] = l[i]
    BY <1>1, <2>2, KeepFinds DEF kept
  <2>4. Covers(kept[j], at, m, f)
    BY <2>1, <2>3
  <2>5. Covers(out[j], clock, m, f)
    <3>1. kept[j] \in Entry /\ out[j] \in Entry /\ out[j].mask = kept[j].mask /\ out[j].ignoring = kept[j].ignoring
          /\ Lasts(kept[j].bucket) <= Lasts(out[j].bucket)
      BY <1>6
    <3> QED BY <1>4, <1>9, <2>4, <3>1, CoversMore
  <2> QED BY <1>7, <2>5 DEF Covered
<1>10. Written(l).list = out /\ Written(l).at = clock /\ Written(l) \in [list : Seq(Entry), at : Nat]
  BY <1>3, <1>4, <1>8
<1>11. \A i \in DOMAIN out : out[i].ignoring
  BY <1>6, <1>7
<1> QED BY <1>9, <1>10, <1>11

\* get_ignore finds the entry or adds one, and leaves the others.
LEMMA GetIgnore ==
  ASSUME NEW l \in Seq(Entry), NEW m \in Mask
  PROVE  LET q == get_ignore(l, m)
             i == Got(l, m)
         IN /\ q \in Seq(Entry) /\ i \in DOMAIN q /\ q[i] \in Entry
            /\ \A at \in Int, k \in Mask, f \in Int : Covered(l, at, k, f) => Covered(q, at, k, f)
<1> DEFINE q == get_ignore(l, m)
           i == Got(l, m)
<1>1. CASE Found(l, m)
  <2> DEFINE K == {j \in DOMAIN l : Matches(l[j], m)}
  <2>1. K \subseteq Nat /\ K # {}
    BY <1>1 DEF Found
  <2>2. First(K) \in K
    <3> HIDE DEF K
    <3> QED BY <2>1, FirstType
  <2>3. q = l /\ i = First(K)
    BY <1>1 DEF get_ignore, Got, Place
  <2> QED BY <2>2, <2>3
<1>2. CASE ~Found(l, m)
  <2> DEFINE e == [mask |-> m, bucket |-> 0, ignoring |-> FALSE]
  <2>1. q = Append(l, e) /\ i = Len(l) + 1
    BY <1>2 DEF get_ignore, Got
  <2>2. e \in Entry
    BY DEF Entry
  <2> HIDE DEF e, q, i
  <2>3. q \in Seq(Entry) /\ DOMAIN q = 1..(Len(l) + 1) /\ i \in DOMAIN q /\ \A j \in DOMAIN l : j \in DOMAIN q /\ q[j] = l[j]
    BY <2>1, <2>2
  <2>4. q[i] \in Entry
    BY <2>3
  <2>5. \A at \in Int, k \in Mask, f \in Int : Covered(l, at, k, f) => Covered(q, at, k, f)
    BY <2>3 DEF Covered
  <2> QED BY <2>3, <2>4, <2>5 DEF q, i
<1> QED BY <1>1, <1>2
-----------------------------------------------------------------------------
(* The actions *)

\* A step that keeps what is announced, or announces something that the new list covers,
\* and may write the list.
LEMMA Announced ==
  ASSUME IgnInv, running, running' = TRUE, UNCHANGED <<dec, clock>>, list' \in Seq(Entry), SmallList(list'),
         onDisk' = onDisk \/ onDisk' = Written(list'),
         NEW k, promised' \in [Mask -> [from : Int, to : Int]],
         \A m \in Mask : m # k => /\ promised'[m].from = promised[m].from
                                 /\ \A f \in Int : Covered(list, dec, m, f) => Covered(list', dec, m, f),
         k \in Mask /\ clock < promised'[k].from =>
           /\ Covered(list', dec, k, promised'[k].from)
           /\ onDisk' = Written(list') \/ Covered(onDisk.list, onDisk.at, k, promised'[k].from)
  PROVE  IgnInv'
<1>1. Typed /\ Promises
  BY DEF IgnInv
<1>2. /\ Written(list') \in [list : Seq(Entry), at : Nat] /\ Written(list').at = clock
      /\ \A i \in DOMAIN Written(list').list : Written(list').list[i].ignoring
      /\ \A at \in Int, m \in Mask, f \in Int : at <= clock /\ Covered(list', at, m, f) => Covered(Written(list').list, clock, m, f)
  BY <1>1, WrittenCovers
<1>3. dec \in Nat /\ clock \in Nat /\ dec <= clock /\ onDisk.at <= clock
  BY <1>1 DEF Typed
<1>4. Typed'
  <2>1. CASE onDisk' = onDisk
    BY <1>1, <2>1 DEF Typed
  <2>2. CASE onDisk' = Written(list')
    BY <1>1, <1>2, <2>2 DEF Typed
  <2> QED BY <2>1, <2>2
<1>5. ASSUME NEW m \in Mask, clock < promised'[m].from
      PROVE  Covered(list', dec, m, promised'[m].from) /\ Covered(onDisk'.list, onDisk'.at, m, promised'[m].from)
  <2> DEFINE f == promised'[m].from
  <2>1. f \in Int
    OBVIOUS
  <2>2. /\ Covered(list', dec, m, f)
        /\ onDisk' = Written(list') \/ Covered(onDisk.list, onDisk.at, m, f)
    <3>1. CASE m = k
      BY <1>5, <3>1
    <3>2. CASE m # k
      <4>1. f = promised[m].from /\ (Covered(list, dec, m, f) => Covered(list', dec, m, f))
        BY <2>1, <3>2
      <4>2. Covered(list, dec, m, f) /\ Covered(onDisk.list, onDisk.at, m, f)
        BY <1>1, <1>5, <4>1 DEF Promises
      <4> QED BY <4>1, <4>2
    <3> QED BY <3>1, <3>2
  <2> HIDE DEF f
  <2>3. CASE onDisk' = Written(list')
    BY <1>2, <1>3, <2>1, <2>2, <2>3 DEF f
  <2>4. CASE onDisk' = onDisk /\ onDisk' # Written(list')
    BY <2>2, <2>4 DEF f
  <2> QED BY <2>3, <2>4
<1>6. Promises'
  <2>1. ASSUME NEW m \in Mask, clock' < promised'[m].from
        PROVE  Covered(list', dec', m, promised'[m].from) /\ Covered(onDisk'.list, onDisk'.at, m, promised'[m].from)
    BY <1>5, <2>1
  <2> QED BY <2>1 DEF Promises, Covered, Covers, Lasts
<1> QED BY <1>4, <1>6 DEF IgnInv

\* What is announced ends no later than the entry that was given drops for it.
LEMMA AnnouncedLasts ==
  ASSUME Typed, running, NEW b \in Nat, NEW t \in Int, t <= Threshold * (b + 1)
  PROVE  clock + t - 2 * Threshold \in Int /\ clock + t - 2 * Threshold <= dec + 1 + Threshold * Lasts(b)
<1> DEFINE x == Threshold * b
           y == Threshold * Lasts(b)
<1>1. x \in Nat /\ y \in Nat /\ x <= y
  <2> DEFINE c == Lasts(b)
  <2>1. c \in Nat /\ b <= c /\ Threshold \in Nat
    BY IgnoresAssumption DEF Lasts
  <2> HIDE DEF c
  <2>2. b * Threshold <= c * Threshold /\ b * Threshold \in Nat /\ c * Threshold \in Nat
    BY <2>1, TimesOrder
  <2>3. Threshold * b = b * Threshold /\ Threshold * c = c * Threshold
    BY <2>1
  <2> QED BY <2>2, <2>3 DEF c
<1>2. Threshold * (b + 1) = x + Threshold /\ Threshold \in Nat
  BY IgnoresAssumption
<1>3. clock \in Nat /\ dec \in Nat /\ clock <= dec + Threshold
  BY DEF Typed
<1> HIDE DEF x, y
<1> QED BY <1>1, <1>2, <1>3 DEF y

\* check_ignore, for a message of any user.
LEMMA MessageKeeps ==
  ASSUME IgnInv, NEW m \in User, Message(m), Small'
  PROVE  IgnInv'
<1> DEFINE l == get_ignore(list, m)
           i == Got(list, m)
           e == l[i]
           b == e.bucket + 1
           d == [e EXCEPT !.bucket = b]
           g == [d EXCEPT !.ignoring = TRUE]
           now == [l EXCEPT ![i].bucket = @ + 1]
           full == ~l[i].ignoring /\ now[i].bucket >= Rate
<1>1. Typed /\ Promises /\ running /\ running' = TRUE /\ UNCHANGED <<dec, clock>> /\ m \in Mask
  BY DEF IgnInv, Message, Mask, Typed
<1>2. CASE m \in Excluded
  <2>1. UNCHANGED igVars
    BY <1>2 DEF Message, igVars
  <2> QED BY <2>1 DEF igVars, IgnInv, Typed, Promises, Covered, Covers, Lasts
<1>3. CASE m \notin Excluded
  <2>1. check_ignore(m)
    BY <1>3 DEF Message
  <2>2. list \in Seq(Entry) /\ promised \in [Mask -> [from : Int, to : Int]]
    BY <1>1 DEF Typed
  <2>3. /\ l \in Seq(Entry) /\ i \in DOMAIN l /\ e \in Entry
        /\ \A at \in Int, k \in Mask, f \in Int : Covered(list, at, k, f) => Covered(l, at, k, f)
    BY <1>1, <2>2, GetIgnore
  <2>4. /\ list' = IF full THEN [now EXCEPT ![i].ignoring = TRUE] ELSE now
        /\ IF full
             THEN /\ onDisk' = Saved(list')
                  /\ Announce(l[i].mask, Threshold * (now[i].bucket + 1))
             ELSE /\ UNCHANGED onDisk
                  /\ promised' = IF l[i].ignoring
                                   THEN [promised EXCEPT ![l[i].mask].to = @ + Threshold]
                                   ELSE promised
    BY <2>1 DEF check_ignore
  <2> HIDE DEF l, i
  <2>5. now = [l EXCEPT ![i] = d] /\ now[i] = d /\ d \in Entry /\ d.bucket = b /\ d.mask = e.mask /\ d.ignoring = e.ignoring
        /\ e.mask \in Mask /\ e.ignoring \in BOOLEAN /\ e.bucket \in Int /\ b \in Int
    <3>1. e.mask \in Mask /\ e.ignoring \in BOOLEAN /\ e.bucket \in Int /\ b \in Int
      BY <2>3 DEF Entry
    <3>2. d \in Entry /\ d.bucket = b /\ d.mask = e.mask /\ d.ignoring = e.ignoring
      BY <2>3, <3>1 DEF Entry
    <3>3. now = [l EXCEPT ![i] = d]
      OBVIOUS
    <3>4. now[i] = d
      BY <2>3, <3>3
    <3> QED BY <3>1, <3>2, <3>3, <3>4
  <2>6. [now EXCEPT ![i].ignoring = TRUE] = [l EXCEPT ![i] = g]
    BY <2>3, <2>5
  <2>7. g \in Entry /\ g.bucket = b /\ g.mask = e.mask /\ g.ignoring = TRUE
    BY <2>3, <2>5 DEF Entry
  <2>8. dec \in Nat
    BY <1>1 DEF Typed
  <2> HIDE DEF d, g, now, e, b
  <2>9. CASE full
    <3>1. /\ list' = [l EXCEPT ![i] = g] /\ onDisk' = Written(list') /\ e.ignoring = FALSE /\ b >= Rate
          /\ promised' = [promised EXCEPT ![e.mask] = [from |-> clock + Threshold * (b + 1) - 2 * Threshold,
                                                       to |-> clock + Threshold * (b + 1)]]
      <4>1. ~e.ignoring /\ b >= Rate
        BY <2>5, <2>9 DEF e
      <4>2. Announce(e.mask, Threshold * (b + 1))
        BY <2>4, <2>5, <2>9 DEF e
      <4> QED BY <2>4, <2>5, <2>6, <2>9, <4>1, <4>2 DEF Saved, Announce
    <3>2. list' \in Seq(Entry) /\ list'[i] = g /\ i \in DOMAIN list'
      BY <2>3, <2>7, <3>1
    <3> DEFINE t == Threshold * (b + 1)
               f == clock + t - 2 * Threshold
    <3>3. b \in Nat /\ t \in Int /\ clock \in Int
      BY <1>1, <2>5, <3>1, IgnoresAssumption DEF Typed
    <3>4. f \in Int /\ f <= dec + 1 + Threshold * Lasts(b)
      <4>1. t <= Threshold * (b + 1)
        BY <3>3
      <4> HIDE DEF t
      <4> QED BY <1>1, <3>3, <4>1, AnnouncedLasts
    <3>5. promised' \in [Mask -> [from : Int, to : Int]] /\ promised'[e.mask].from = f
          /\ \A k \in Mask : k # e.mask => promised'[k].from = promised[k].from
      <4> DEFINE p == [from |-> f, to |-> clock + t]
      <4>1. p \in [from : Int, to : Int] /\ p.from = f
        BY <3>3, <3>4
      <4>2. promised' = [promised EXCEPT ![e.mask] = p]
        BY <3>1
      <4> HIDE DEF p, f, t
      <4> QED BY <2>2, <2>5, <4>1, <4>2
    <3> HIDE DEF f, t
    <3>6. ASSUME NEW k \in Mask, NEW x \in Int, Covered(list, dec, k, x) PROVE Covered(list', dec, k, x)
      <4>1. Covered(l, dec, k, x)
        BY <2>3, <2>8, <3>6
      <4>2. l[i].ignoring => g.mask = l[i].mask /\ g.ignoring = l[i].ignoring /\ Lasts(l[i].bucket) <= Lasts(g.bucket)
        BY <3>1 DEF e
      <4>3. l \in Seq(Entry) /\ i \in DOMAIN l /\ g \in Entry /\ dec \in Int /\ x \in Int
        BY <2>3, <2>7, <2>8
      <4>4. Covered([l EXCEPT ![i] = g], dec, k, x)
        BY ONLY <4>1, <4>2, <4>3, CoveredChanged
      <4> QED BY <3>1, <4>4
    <3>7. Covered(list', dec, e.mask, f)
      BY <2>7, <3>2, <3>4 DEF Covered, Covers
    <3>8. SmallList(list')
      BY DEF Small, SmallList
    <3> QED BY <1>1, <2>5, <3>1, <3>2, <3>5, <3>6, <3>7, <3>8, Announced
  <2>10. CASE ~full
    <3>1. list' = [l EXCEPT ![i] = d] /\ onDisk' = onDisk
      BY <2>4, <2>5, <2>10
    <3>2. list' \in Seq(Entry)
      BY <2>3, <2>5, <3>1
    <3>3. promised' \in [Mask -> [from : Int, to : Int]] /\ \A k \in Mask : promised'[k].from = promised[k].from
      <4>1. CASE e.ignoring
        <5> DEFINE p == [promised[e.mask] EXCEPT !.to = @ + Threshold]
        <5>1. promised' = [promised EXCEPT ![e.mask].to = @ + Threshold]
          BY <2>4, <2>10, <4>1 DEF e
        <5>2. promised' = [promised EXCEPT ![e.mask] = p]
          BY <5>1
        <5>3. p \in [from : Int, to : Int] /\ p.from = promised[e.mask].from
          BY <2>2, <2>5, IgnoresAssumption
        <5> HIDE DEF p
        <5> QED BY <2>2, <2>5, <5>2, <5>3
      <4>2. CASE ~e.ignoring
        BY <2>2, <2>4, <2>10, <4>2 DEF e
      <4> QED BY <4>1, <4>2
    <3>4. ASSUME NEW k \in Mask, NEW x \in Int, Covered(list, dec, k, x) PROVE Covered(list', dec, k, x)
      <4>1. Covered(l, dec, k, x)
        BY <2>3, <2>8, <3>4
      <4>2. Lasts(l[i].bucket) <= Lasts(d.bucket)
        BY <2>5 DEF Lasts, e, b
      <4>3. d.mask = l[i].mask /\ d.ignoring = l[i].ignoring
        BY <2>5 DEF e
      <4>4. l \in Seq(Entry) /\ i \in DOMAIN l /\ d \in Entry /\ dec \in Int /\ x \in Int
        BY <2>3, <2>5, <2>8
      <4>5. Covered([l EXCEPT ![i] = d], dec, k, x)
        BY ONLY <4>1, <4>2, <4>3, <4>4, CoveredChanged
      <4> QED BY <3>1, <4>5
    <3>5. SmallList(list')
      BY DEF Small, SmallList
    <3>6. e.mask \in Mask /\ clock < promised'[e.mask].from =>
            Covered(list', dec, e.mask, promised'[e.mask].from) /\ Covered(onDisk.list, onDisk.at, e.mask, promised'[e.mask].from)
      <4> SUFFICES ASSUME clock < promised'[e.mask].from
                   PROVE Covered(list', dec, e.mask, promised'[e.mask].from) /\ Covered(onDisk.list, onDisk.at, e.mask, promised'[e.mask].from)
        OBVIOUS
      <4>1. promised'[e.mask].from = promised[e.mask].from /\ promised[e.mask].from \in Int
        BY <2>2, <2>5, <3>3
      <4>2. Covered(list, dec, e.mask, promised[e.mask].from) /\ Covered(onDisk.list, onDisk.at, e.mask, promised[e.mask].from)
        BY <1>1, <2>5, <4>1 DEF Promises
      <4> QED BY <2>5, <3>4, <4>1, <4>2
    <3> QED BY <1>1, <2>5, <3>1, <3>2, <3>3, <3>4, <3>5, <3>6, Announced
  <2> HIDE DEF full
  <2> QED BY <2>9, <2>10
<1> QED BY <1>2, <1>3

\* IGNORE, punishslowusers and ignore_duplicate_ip.
LEMMA IgnoreKeeps ==
  ASSUME IgnInv, NEW m \in Mask, NEW time \in Times, Ignore(m, time), Small'
  PROVE  IgnInv'
<1> DEFINE l == get_ignore(list, m)
           i == Got(list, m)
           e == l[i]
           b == time \div Threshold
           g == [[e EXCEPT !.ignoring = TRUE] EXCEPT !.bucket = b]
           f == clock + time - 2 * Threshold
           p == [from |-> f, to |-> clock + time]
<1>1. Typed /\ Promises /\ running /\ running' = TRUE /\ UNCHANGED <<dec, clock>>
  BY DEF IgnInv, Ignore, Typed
<1>2. list \in Seq(Entry) /\ promised \in [Mask -> [from : Int, to : Int]] /\ dec \in Int /\ clock \in Int
  BY <1>1 DEF Typed
<1>3. /\ l \in Seq(Entry) /\ i \in DOMAIN l /\ e \in Entry
      /\ \A at \in Int, k \in Mask, x \in Int : Covered(list, at, k, x) => Covered(l, at, k, x)
  BY <1>2, GetIgnore
<1>4. /\ list' = [l EXCEPT ![i].ignoring = TRUE, ![i].bucket = time \div Threshold]
      /\ onDisk' = Written(list') /\ promised' = [promised EXCEPT ![e.mask] = p]
  BY DEF Ignore, Announce
<1>5. time \in Nat /\ Threshold \in Nat /\ Threshold > 0
  BY IgnoresAssumption
<1>6. b \in Nat /\ time <= Threshold * (b + 1)
  <2>1. b \in Nat /\ time = Threshold * b + (time % Threshold) /\ time % Threshold \in 0..(Threshold - 1)
    BY <1>5
  <2> HIDE DEF b
  <2>2. Threshold * (b + 1) = Threshold * b + Threshold /\ Threshold * b \in Nat
    BY <1>5, <2>1
  <2> QED BY <1>5, <2>1, <2>2
<1>7. f \in Int /\ f <= dec + 1 + Threshold * Lasts(b)
  <2> HIDE DEF b
  <2> QED BY <1>1, <1>5, <1>6, AnnouncedLasts
<1>8. e.mask \in Mask /\ g \in Entry /\ g.mask = e.mask /\ g.bucket = b /\ g.ignoring = TRUE
  <2> HIDE DEF b, e
  <2>1. [e EXCEPT !.ignoring = TRUE] \in Entry /\ [e EXCEPT !.ignoring = TRUE].mask = e.mask /\ e.mask \in Mask
    BY <1>3 DEF Entry
  <2> DEFINE h == [e EXCEPT !.ignoring = TRUE]
  <2>2. h.ignoring = TRUE /\ h \in Entry /\ h.mask = e.mask /\ b \in Int
    BY <1>3, <1>6, <2>1 DEF Entry
  <2> HIDE DEF h
  <2>3. [h EXCEPT !.bucket = b] \in Entry /\ [h EXCEPT !.bucket = b].mask = h.mask /\ [h EXCEPT !.bucket = b].bucket = b
        /\ [h EXCEPT !.bucket = b].ignoring = h.ignoring
    BY ONLY <2>2 DEF Entry
  <2> QED BY <2>1, <2>2, <2>3 DEF h
<1> HIDE DEF l, i, b
<1>9. list' = [l EXCEPT ![i] = g]
  <2> DEFINE h == [e EXCEPT !.ignoring = TRUE]
             r == [l EXCEPT ![i] = h]
  <2>1. r[i] = h
    BY <1>3
  <2>2. list' = [r EXCEPT ![i].bucket = b]
    BY <1>4 DEF b
  <2>3. list' = [r EXCEPT ![i] = [h EXCEPT !.bucket = b]]
    BY <2>1, <2>2
  <2> QED BY <2>3
<1> HIDE DEF g, e
<1>10. list' \in Seq(Entry) /\ i \in DOMAIN list' /\ list'[i] = g
  BY <1>3, <1>8, <1>9
<1>11. SmallList(list')
  BY DEF Small, SmallList
<1>12. Covered(list', dec, e.mask, f)
  <2> HIDE DEF f
  <2> QED BY <1>7, <1>8, <1>10 DEF Covered, Covers
<1>13. ASSUME NEW k \in Mask, k # e.mask, NEW x \in Int, Covered(list, dec, k, x) PROVE Covered(list', dec, k, x)
  <2>1. Covered(l, dec, k, x)
    BY <1>2, <1>3, <1>13
  <2>2. PICK j \in DOMAIN l : Covers(l[j], dec, k, x)
    BY <2>1 DEF Covered
  <2>3. j # i
    BY <1>13, <2>2 DEF Covers, e
  <2>4. j \in DOMAIN list' /\ list'[j] = l[j]
    BY <1>3, <1>9, <2>3
  <2> QED BY <2>2, <2>4 DEF Covered
<1>14. promised' \in [Mask -> [from : Int, to : Int]] /\ promised'[e.mask].from = f
       /\ \A k \in Mask : k # e.mask => promised'[k].from = promised[k].from
  <2>1. p \in [from : Int, to : Int] /\ p.from = f
    BY <1>2, <1>5, <1>7
  <2>2. promised' = [promised EXCEPT ![e.mask] = p]
    BY <1>4 DEF e
  <2> HIDE DEF p, f
  <2> QED BY <1>2, <1>8, <2>1, <2>2
<1> HIDE DEF f, p
<1>15. onDisk' = Written(list')
  BY <1>4
<1> DEFINE k == e.mask
<1>16. \A n \in Mask : n # k => /\ promised'[n].from = promised[n].from
                               /\ \A x \in Int : Covered(list, dec, n, x) => Covered(list', dec, n, x)
  BY <1>13, <1>14
<1>17. k \in Mask /\ clock < promised'[k].from => Covered(list', dec, k, promised'[k].from)
  BY <1>12, <1>14
<1> HIDE DEF k
<1> QED BY ONLY IgnInv, <1>1, <1>10, <1>11, <1>14, <1>15, <1>16, <1>17, Announced

\* An administrator who is not excluded from the checks.
LEMMA AdminKeeps ==
  ASSUME IgnInv, Admin \cap Excluded = {}, NEW m \in User, AdminMessage(m), Small'
  PROVE  IgnInv'
<1> DEFINE l == get_ignore(list, m)
           i == Got(list, m)
           e == l[i]
           g == [e EXCEPT !.bucket = 0]
<1>1. Typed /\ Promises /\ running /\ running' = TRUE /\ UNCHANGED <<dec, clock>> /\ m \in Mask
  BY DEF IgnInv, AdminMessage, Typed, Mask
<1>2. list \in Seq(Entry) /\ promised \in [Mask -> [from : Int, to : Int]] /\ dec \in Int
  BY <1>1 DEF Typed
<1>3. /\ l \in Seq(Entry) /\ i \in DOMAIN l /\ e \in Entry
      /\ \A at \in Int, k \in Mask, x \in Int : Covered(list, at, k, x) => Covered(l, at, k, x)
  BY <1>1, <1>2, GetIgnore
<1>4. /\ list' = [l EXCEPT ![i].bucket = 0] /\ UNCHANGED <<onDisk, promised>> /\ ~l[i].ignoring
  BY DEF AdminMessage
<1>5. list' = [l EXCEPT ![i] = g] /\ g \in Entry
  BY <1>3, <1>4 DEF Entry
<1> HIDE DEF l, i, g
<1>6. list' \in Seq(Entry) /\ SmallList(list')
  BY <1>3, <1>5 DEF Small, SmallList
<1>7. ASSUME NEW k \in Mask, NEW x \in Int, Covered(list, dec, k, x) PROVE Covered(list', dec, k, x)
  <2>1. Covered(l, dec, k, x)
    BY <1>2, <1>3, <1>7
  <2>2. Covered([l EXCEPT ![i] = g], dec, k, x)
    BY <1>2, <1>3, <1>4, <1>5, <2>1, CoveredChanged
  <2> QED BY <1>5, <2>2
<1> DEFINE k == m
<1>8. clock < promised[k].from => Covered(list', dec, k, promised[k].from) /\ Covered(onDisk.list, onDisk.at, k, promised[k].from)
  <2>1. promised[k].from \in Int
    BY <1>1, <1>2
  <2> QED BY <1>1, <1>7, <2>1 DEF Promises
<1> QED BY <1>1, <1>2, <1>4, <1>6, <1>7, <1>8, Announced

\* UNIGNORE: what was announced for others stays.
LEMMA UnignoreKeeps ==
  ASSUME IgnInv, NEW m \in Mask, Unignore(m), Small'
  PROVE  IgnInv'
<1> DEFINE same == {i \in DOMAIN list : list[i].mask = m}
           o == First(same)
<1>1. Typed /\ Promises /\ running /\ running' = TRUE /\ UNCHANGED <<dec, clock>>
  BY DEF IgnInv, Unignore, Typed
<1>2. list \in Seq(Entry) /\ promised \in [Mask -> [from : Int, to : Int]] /\ dec \in Int /\ clock \in Nat
  BY <1>1 DEF Typed
<1>3. /\ same # {} /\ list' = Drop(list, o) /\ onDisk' = Written(list') /\ promised' = [promised EXCEPT ![m] = NoPromise]
  BY DEF Unignore
<1>4. o \in DOMAIN list /\ list[o].mask = m
  <2>1. same \subseteq Nat
    BY <1>2
  <2>2. o \in same
    <3> HIDE DEF same
    <3> QED BY <1>3, <2>1, FirstType
  <2> QED BY <2>2
<1> HIDE DEF o, same
<1>5. list' \in Seq(Entry) /\ SmallList(list')
  BY <1>2, <1>3, <1>4, DropType DEF Small, SmallList
<1>6. ASSUME NEW k \in Mask, k # m, NEW x \in Int, Covered(list, dec, k, x) PROVE Covered(list', dec, k, x)
  <2>1. PICK j \in DOMAIN list : Covers(list[j], dec, k, x)
    BY <1>6 DEF Covered
  <2>2. j \in DOMAIN list \ {o}
    BY <1>4, <1>6, <2>1 DEF Covers
  <2>3. \E n \in DOMAIN Keep(list, DOMAIN list \ {o}) : Keep(list, DOMAIN list \ {o})[n] = list[j]
    <3>1. DOMAIN list \ {o} \subseteq DOMAIN list
      OBVIOUS
    <3> QED BY <1>2, <2>2, <3>1, KeepFinds
  <2> QED BY <1>3, <2>1, <2>3 DEF Covered, Drop
<1>7. promised' \in [Mask -> [from : Int, to : Int]] /\ promised'[m].from = 0
      /\ \A k \in Mask : k # m => promised'[k].from = promised[k].from
  <2>1. NoPromise \in [from : Int, to : Int] /\ NoPromise.from = 0
    BY DEF NoPromise
  <2> QED BY <1>2, <1>3, <2>1
<1>8. ~(clock < promised'[m].from)
  BY <1>2, <1>7
<1> QED BY <1>1, <1>3, <1>5, <1>6, <1>7, <1>8, Announced

\* The state file is written.
LEMMA SaveKeeps ==
  ASSUME IgnInv, Save, Small'
  PROVE  IgnInv'
<1>1. Typed /\ Promises /\ running /\ running' = TRUE /\ UNCHANGED <<dec, clock>>
  BY DEF IgnInv, Save, Typed
<1>2. list' = list /\ promised' = promised /\ onDisk' = Written(list')
  BY DEF Save
<1>3. list' \in Seq(Entry) /\ SmallList(list') /\ promised' \in [Mask -> [from : Int, to : Int]]
  BY <1>1, <1>2 DEF Typed, Small, SmallList
<1>4. \A k \in Mask : clock < promised'[k].from => Covered(list', dec, k, promised'[k].from)
  BY <1>1, <1>2 DEF Promises
<1> QED BY <1>1, <1>2, <1>3, <1>4, Announced

\* The drops of a bucket, in time.
LEMMA LastsTimes ==
  ASSUME NEW b \in Int
  PROVE  /\ Threshold * Lasts(b) \in Nat /\ Threshold <= Threshold * Lasts(b)
         /\ b >= 1 => Threshold * Lasts(b) = Threshold * b
         /\ b <= 1 => Threshold * Lasts(b) = Threshold
<1>1. Threshold \in Nat
  BY IgnoresAssumption
<1>2. CASE b > 1
  <2>1. b \in Nat /\ 1 <= b /\ Lasts(b) = b /\ 1 \in Nat
    BY <1>2 DEF Lasts
  <2>2. 1 * Threshold <= b * Threshold /\ b * Threshold \in Nat
    BY <1>1, <2>1, TimesOrder
  <2>3. 1 * Threshold = Threshold /\ b * Threshold = Threshold * b
    BY <1>1
  <2> QED BY <1>2, <2>1, <2>2, <2>3
<1>3. CASE b <= 1
  <2>1. Lasts(b) = 1
    BY <1>3 DEF Lasts
  <2>2. Threshold * 1 = Threshold
    BY <1>1
  <2> QED BY <1>1, <1>3, <2>1, <2>2
<1> QED BY <1>2, <1>3

\* A drop leaves an entry that covers what is due after the next one.
LEMMA LeakCovers ==
  ASSUME NEW e \in Entry, NEW d \in Entry, NEW m, NEW f \in Int, Typed, clock + 1 > dec + Threshold, clock + 1 < f,
         Covers(e, dec, m, f), d.mask = e.mask, d.ignoring = e.ignoring, d.bucket \in {e.bucket - 1, e.bucket}
  PROVE  e.bucket > 1 /\ Covers(d, dec + Threshold, m, f)
<1>1. e.bucket \in Int /\ d.bucket \in Int
  BY DEF Entry
<1>2. dec \in Nat /\ clock \in Nat /\ Threshold \in Nat
  BY IgnoresAssumption DEF Typed
<1>3. e.mask = m /\ e.ignoring = TRUE /\ f <= dec + 1 + Threshold * Lasts(e.bucket)
  BY DEF Covers
<1>4. e.bucket > 1
  <2>1. e.bucket <= 1 => f <= dec + 1 + Threshold
    BY <1>1, <1>3, LastsTimes
  <2> QED BY <1>1, <1>2, <2>1
<1>5. f <= dec + Threshold + 1 + Threshold * Lasts(d.bucket)
  <2> DEFINE b == e.bucket
             c == e.bucket - 1
  <2>1. /\ Threshold * Lasts(b) = Threshold * b
        /\ Threshold * Lasts(c) = Threshold * c /\ Threshold * Lasts(c) \in Nat /\ Threshold * Lasts(b) \in Nat
    BY <1>1, <1>4, LastsTimes
  <2>2. Threshold * b = Threshold * c + Threshold
    BY <1>1, <1>2
  <2> DEFINE x == Threshold * Lasts(b)
             y == Threshold * Lasts(c)
  <2>3. x = y + Threshold /\ x \in Nat /\ y \in Nat /\ f <= dec + 1 + x
    BY <1>3, <2>1, <2>2
  <2>4. Threshold * Lasts(d.bucket) \in {x, y}
    <3>1. d.bucket = b \/ d.bucket = c
      OBVIOUS
    <3> HIDE DEF b, c
    <3> QED BY <3>1
  <2> HIDE DEF b, c, x, y
  <2> QED BY <1>2, <2>3, <2>4
<1> QED BY <1>3, <1>4, <1>5 DEF Covers

\* The list while drops leave it.
LEMMA HalfwayTyped ==
  ASSUME NEW l \in Seq(Entry), SmallList(l)
  PROVE  /\ Leaked(l) \in Seq(Entry) /\ DOMAIN Leaked(l) = DOMAIN l
         /\ Halfway(l) \in Seq(Entry) /\ DOMAIN Halfway(l) = DOMAIN l /\ SmallList(Halfway(l))
         /\ \A i \in DOMAIN l :
              /\ l[i] \in Entry /\ l[i].bucket \in Int
              /\ Leaked(l)[i].mask = l[i].mask /\ Leaked(l)[i].ignoring = l[i].ignoring /\ Leaked(l)[i].bucket = l[i].bucket - 1
              /\ Halfway(l)[i].mask = l[i].mask /\ Halfway(l)[i].bucket \in {l[i].bucket - 1, l[i].bucket}
              /\ l[i].bucket # 1 => Halfway(l)[i].ignoring = l[i].ignoring
<1> DEFINE A == Leaked(l)
           B == Halfway(l)
<1>1. ASSUME NEW i \in DOMAIN l
      PROVE  /\ l[i] \in Entry /\ l[i].bucket \in Int /\ l[i].bucket < Word32
             /\ A[i] \in Entry /\ A[i].mask = l[i].mask /\ A[i].ignoring = l[i].ignoring /\ A[i].bucket = l[i].bucket - 1
             /\ B[i] \in Entry /\ B[i].mask = l[i].mask /\ B[i].bucket \in {l[i].bucket - 1, l[i].bucket}
             /\ l[i].bucket # 1 => B[i].ignoring = l[i].ignoring
  <2> DEFINE e == l[i]
             b == e.bucket - 1
             r == i \notin Released(l)
             h == [e EXCEPT !.bucket = b]
             g == e.ignoring /\ r
             d == [h EXCEPT !.ignoring = g]
  <2>1. e \in Entry /\ e.bucket \in Int /\ e.ignoring \in BOOLEAN /\ e.mask \in Mask
    <3>1. e \in Entry
      OBVIOUS
    <3> HIDE DEF e
    <3> QED BY <3>1 DEF Entry
  <2>2. e.bucket < Word32
    BY DEF SmallList
  <2>3. A[i] = h
    BY DEF Leaked
  <2>4. B[i] = e \/ B[i] = [e EXCEPT !.bucket = @ - 1, !.ignoring = @ /\ r]
    BY DEF Halfway
  <2>5. [e EXCEPT !.bucket = @ - 1, !.ignoring = @ /\ r] = d
    BY <2>1 DEF Entry
  <2>6. e.bucket # 1 => r
    BY DEF Released
  <2>7. r \in BOOLEAN
    OBVIOUS
  <2> HIDE DEF e, r, b, A, B, d
  <2>8. b \in Int /\ b = e.bucket - 1
    BY <2>1 DEF b
  <2>9. h \in Entry /\ h.mask = e.mask /\ h.ignoring = e.ignoring /\ h.bucket = b
    BY <2>1, <2>8 DEF Entry
  <2> HIDE DEF h
  <2>10. g \in BOOLEAN /\ (r => g = e.ignoring)
    BY <2>1, <2>7
  <2> HIDE DEF g
  <2>11. d \in Entry /\ d.mask = e.mask /\ d.bucket = b /\ d.ignoring = g
    BY <2>9, <2>10 DEF Entry, d
  <2>12. e.bucket # 1 => d.ignoring = e.ignoring
    BY <2>6, <2>10, <2>11
  <2>13. B[i] = e \/ B[i] = d
    BY <2>4, <2>5
  <2>14. B[i] \in Entry /\ B[i].mask = e.mask /\ B[i].bucket \in {b, e.bucket} /\ (e.bucket # 1 => B[i].ignoring = e.ignoring)
    BY <2>1, <2>11, <2>12, <2>13
  <2> QED BY <2>1, <2>2, <2>3, <2>8, <2>9, <2>14 DEF e
<1>2. DOMAIN A = DOMAIN l /\ DOMAIN B = DOMAIN l /\ DOMAIN l = 1..Len(l) /\ Len(l) \in Nat
  BY DEF Leaked, Halfway
<1>3. A = [i \in 1..Len(l) |-> A[i]] /\ B = [i \in 1..Len(l) |-> B[i]]
  BY <1>2 DEF Leaked, Halfway
<1> HIDE DEF A, B
<1>4. A \in Seq(Entry) /\ B \in Seq(Entry)
  BY <1>1, <1>2, <1>3
<1>5. SmallList(B)
  <2> SUFFICES ASSUME NEW i \in DOMAIN l PROVE B[i].bucket < Word32
    BY <1>2 DEF SmallList
  <2>1. B[i].bucket \in {l[i].bucket - 1, l[i].bucket} /\ l[i].bucket \in Int /\ l[i].bucket < Word32 /\ Word32 \in Int
    BY <1>1, IgnoresAssumption
  <2> QED BY <2>1
<1> QED BY <1>1, <1>2, <1>4, <1>5 DEF A, B

\* A second, with or without a drop.
LEMMA SecondKeeps ==
  ASSUME IgnInv, Small, IgnoreSecond
  PROVE  IgnInv'
<1>1. Typed /\ Promises /\ SmallList(list)
  BY DEF IgnInv, Small, SmallList
<1>2. clock' = clock + 1 /\ running' = running /\ promised' = promised
  BY DEF IgnoreSecond
<1>3. /\ list \in Seq(Entry) /\ dec \in Nat /\ clock \in Nat /\ promised \in [Mask -> [from : Int, to : Int]]
      /\ Threshold \in Nat /\ Threshold > 0
  BY <1>1, IgnoresAssumption DEF Typed
<1>4. CASE running /\ clock' > dec + Threshold
  <2> DEFINE A == Leaked(list)
             B == Halfway(list)
             K == {i \in DOMAIN list : list[i].bucket # 1}
             W == Written(B)
  <2>1. /\ dec' = dec + Threshold /\ list' = Keep(A, K)
        /\ onDisk' = IF Released(list) # {} THEN [W EXCEPT !.at = clock'] ELSE onDisk
    BY <1>4 DEF IgnoreSecond, Decay
  <2>2. /\ A \in Seq(Entry) /\ DOMAIN A = DOMAIN list
        /\ B \in Seq(Entry) /\ DOMAIN B = DOMAIN list /\ SmallList(B)
        /\ \A i \in DOMAIN list :
             /\ list[i] \in Entry /\ list[i].bucket \in Int
             /\ A[i].mask = list[i].mask /\ A[i].ignoring = list[i].ignoring /\ A[i].bucket = list[i].bucket - 1
             /\ B[i].mask = list[i].mask /\ B[i].bucket \in {list[i].bucket - 1, list[i].bucket}
             /\ list[i].bucket # 1 => B[i].ignoring = list[i].ignoring
    BY <1>1, <1>3, HalfwayTyped
  <2>3. /\ W \in [list : Seq(Entry), at : Nat] /\ W.at = clock
        /\ \A i \in DOMAIN W.list : W.list[i].ignoring
        /\ \A at \in Int, m \in Mask, f \in Int : at <= clock /\ Covered(B, at, m, f) => Covered(W.list, clock, m, f)
    <3> HIDE DEF B
    <3> QED BY <1>1, <2>2, WrittenCovers
  <2> DEFINE V == [W EXCEPT !.at = clock']
  <2> HIDE DEF A, B, W
  <2>4. V \in [list : Seq(Entry), at : Nat] /\ V.at = clock + 1 /\ V.list = W.list
    BY <1>2, <1>3, <2>3
  <2> HIDE DEF V
  <2>5. list' \in Seq(Entry)
    <3>1. K \subseteq DOMAIN A
      BY <2>2
    <3> QED BY <2>1, <2>2, <3>1, KeepType
  <2>6. onDisk' = V \/ (onDisk' = onDisk)
    BY <2>1 DEF V
  <2>7. dec' <= clock' /\ (running' => clock' <= dec' + Threshold) /\ dec' \in Nat /\ clock' \in Nat /\ dec + Threshold <= clock
    BY <1>1, <1>2, <1>3, <1>4, <2>1 DEF Typed
  <2>8. Typed'
    <3>1. onDisk' \in [list : Seq(Entry), at : Nat] /\ onDisk'.at <= clock' /\ \A i \in DOMAIN onDisk'.list : onDisk'.list[i].ignoring
      <4>1. CASE onDisk' = V
        BY <1>2, <1>3, <2>3, <2>4, <4>1
      <4>2. CASE onDisk' = onDisk
        BY <1>1, <1>2, <1>3, <4>2 DEF Typed
      <4> QED BY <2>6, <4>1, <4>2
    <3> QED BY <1>1, <1>2, <2>5, <2>7, <3>1 DEF Typed
  <2>9. ASSUME NEW m \in Mask, clock' < promised'[m].from
        PROVE  Covered(list', dec', m, promised'[m].from) /\ Covered(onDisk'.list, onDisk'.at, m, promised'[m].from)
    <3> DEFINE f == promised[m].from
    <3>1. f \in Int /\ clock + 1 < f /\ promised'[m].from = f
      BY <1>2, <1>3, <2>9
    <3>2. Covered(list, dec, m, f) /\ Covered(onDisk.list, onDisk.at, m, f)
      <4>1. clock < promised[m].from
        BY <1>3, <3>1
      <4> QED BY <1>1, <1>4, <4>1 DEF Promises
    <3> HIDE DEF f
    <3>3. PICK i \in DOMAIN list : Covers(list[i], dec, m, f)
      BY <3>2 DEF Covered
    <3>4. A[i] \in Entry /\ B[i] \in Entry /\ list[i] \in Entry
      BY <2>2
    <3>5. list[i].bucket > 1 /\ Covers(A[i], dec + Threshold, m, f)
      <4>1. A[i].mask = list[i].mask /\ A[i].ignoring = list[i].ignoring /\ A[i].bucket \in {list[i].bucket - 1, list[i].bucket}
        BY <2>2
      <4>2. clock + 1 > dec + Threshold
        BY <1>2, <1>4
      <4> QED BY <1>1, <3>1, <3>3, <3>4, <4>1, <4>2, LeakCovers
    <3>6. Covers(B[i], dec + Threshold, m, f)
      <4>1. list[i].bucket # 1 /\ list[i].bucket \in Int
        BY <2>2, <3>5
      <4>2. B[i].mask = list[i].mask /\ B[i].ignoring = list[i].ignoring /\ B[i].bucket \in {list[i].bucket - 1, list[i].bucket}
        BY <2>2, <4>1
      <4>3. clock + 1 > dec + Threshold
        BY <1>2, <1>4
      <4> QED BY <1>1, <3>1, <3>3, <3>4, <4>2, <4>3, LeakCovers
    <3>7. Covered(list', dec', m, f)
      <4>1. i \in K /\ K \subseteq DOMAIN A
        BY <2>2, <3>5
      <4> HIDE DEF K
      <4>2. A \in Seq(Entry)
        BY <2>2
      <4>3. \E j \in DOMAIN Keep(A, K) : Keep(A, K)[j] = A[i]
        BY ONLY <4>1, <4>2, KeepFinds
      <4>4. PICK j \in DOMAIN Keep(A, K) : Keep(A, K)[j] = A[i]
        BY <4>3
      <4>5. list' = Keep(A, K)
        BY <2>1 DEF K
      <4> QED BY <2>1, <3>5, <4>4, <4>5 DEF Covered
    <3>8. CASE onDisk' = V
      <4>1. Covered(B, dec + Threshold, m, f)
        BY <2>2, <3>6 DEF Covered
      <4>2. dec + Threshold \in Int /\ dec + Threshold <= clock
        BY <1>3, <2>7
      <4>3. Covered(W.list, clock, m, f)
        BY <2>3, <3>1, <4>1, <4>2
      <4>4. PICK j \in DOMAIN W.list : Covers(W.list[j], clock, m, f)
        BY <4>3 DEF Covered
      <4>5. W.list[j] \in Entry
        <5>1. W.list \in Seq(Entry)
          BY <2>3
        <5> QED BY <4>4, <5>1
      <4>6. Covers(W.list[j], clock + 1, m, f)
        <5>1. clock \in Int /\ clock + 1 \in Int /\ clock <= clock + 1
          BY <1>3
        <5>2. Lasts(W.list[j].bucket) <= Lasts(W.list[j].bucket)
          BY <4>5 DEF Entry, Lasts
        <5> QED BY <3>1, <4>4, <4>5, <5>1, <5>2, CoversMore
      <4> QED BY <2>4, <3>1, <3>7, <3>8, <4>4, <4>6 DEF Covered
    <3>9. CASE onDisk' = onDisk
      BY <3>1, <3>2, <3>7, <3>9
    <3> QED BY <2>6, <3>8, <3>9
  <2>10. Promises'
    <3> QED BY <2>9 DEF Promises, Covered, Covers, Lasts
  <2> QED BY <2>8, <2>10 DEF IgnInv
<1>5. CASE ~(running /\ clock' > dec + Threshold)
  <2>1. UNCHANGED <<dec, list, onDisk>>
    BY <1>5 DEF IgnoreSecond
  <2>2. Typed'
    BY <1>1, <1>2, <1>3, <1>5, <2>1 DEF Typed
  <2>3. Promises'
    <3>1. ASSUME NEW m \in Mask, clock' < promised'[m].from
          PROVE  /\ running' => Covered(list', dec', m, promised'[m].from)
                 /\ Covered(onDisk'.list, onDisk'.at, m, promised'[m].from)
      <4>1. clock < promised[m].from
        BY <1>2, <1>3, <3>1
      <4> QED BY <1>1, <1>2, <2>1, <4>1 DEF Promises
    <3> QED BY <3>1 DEF Promises, Covered, Covers, Lasts
  <2> QED BY <2>2, <2>3 DEF IgnInv
<1> QED BY <1>4, <1>5

\* A crash loses the list, not the file.
LEMMA CrashKeeps ==
  ASSUME IgnInv, Crash
  PROVE  IgnInv'
<1>1. Typed /\ Promises
  BY DEF IgnInv
<1>2. running' = FALSE /\ list' = <<>> /\ UNCHANGED <<dec, clock, onDisk, promised>>
  BY DEF Crash
<1>3. Typed'
  <2>1. list' \in Seq(Entry)
    BY <1>2
  <2>2. /\ dec' \in Nat /\ clock' \in Nat /\ promised' \in [Mask -> [from : Int, to : Int]] /\ dec' <= clock'
        /\ onDisk' \in [list : Seq(Entry), at : Nat] /\ onDisk'.at <= clock'
        /\ \A i \in DOMAIN onDisk'.list : onDisk'.list[i].ignoring
    BY <1>1, <1>2 DEF Typed
  <2> QED BY <1>2, <2>1, <2>2 DEF Typed
<1>4. Promises'
  BY <1>1, <1>2 DEF Promises, Covered, Covers, Lasts
<1> QED BY <1>3, <1>4 DEF IgnInv

\* An entry that is read back has lost the drops of the time since it was written.
LEMMA RestoredCovers ==
  ASSUME Typed, NEW e \in Entry, NEW m, NEW f \in Int, clock < f, Covers(e, onDisk.at, m, f),
         NEW k, k = (clock - onDisk.at) \div Threshold
  PROVE  k \in Nat /\ f <= clock + 1 + Threshold * Lasts(e.bucket - k)
<1> DEFINE at == onDisk.at
           T == Threshold
           b == e.bucket
           x == clock - at
<1>1. at \in Nat /\ clock \in Nat /\ at <= clock /\ T \in Nat /\ T > 0 /\ b \in Int
  BY IgnoresAssumption DEF Typed, Entry
<1>2. f <= at + 1 + T * Lasts(b)
  BY DEF Covers
<1> HIDE DEF at, T, b
<1>3. x \in Nat
  BY <1>1
<1>4. k = x \div T
  BY DEF at, T
<1>5. k \in Nat /\ T * k \in Nat /\ T * k <= x
  <2> HIDE DEF x
  <2>1. k \in Nat /\ x = T * k + (x % T) /\ x % T \in 0..(T - 1)
    BY ONLY <1>1, <1>3, <1>4
  <2>2. T * k \in Nat
    BY ONLY <1>1, <2>1
  <2> QED BY ONLY <1>3, <2>1, <2>2
<1>6. /\ b \in Int /\ T * Lasts(b) \in Nat /\ (b >= 1 => T * Lasts(b) = T * b) /\ (b <= 1 => T * Lasts(b) = T)
      /\ T * Lasts(b - k) \in Nat /\ T <= T * Lasts(b - k) /\ (b - k >= 1 => T * Lasts(b - k) = T * (b - k))
  <2>1. b - k \in Int
    BY <1>1, <1>5
  <2> QED BY <1>1, <2>1, LastsTimes DEF T
<1> DEFINE y == T * Lasts(b - k)
           z == T * Lasts(b)
           u == T * k
<1>7. CASE b - k >= 1
  <2>1. z = T * b /\ y = T * (b - k)
    BY <1>1, <1>5, <1>6, <1>7
  <2>2. T * b = T * (b - k) + T * k
    BY <1>1, <1>5
  <2>3. z = y + u /\ z \in Nat /\ y \in Nat /\ u \in Nat /\ u <= x
    BY <1>5, <1>6, <2>1, <2>2
  <2> HIDE DEF y, z, u
  <2>4. f <= at + 1 + z
    BY <1>2 DEF z
  <2>5. f <= clock + 1 + y
    BY <1>1, <2>3, <2>4
  <2> QED BY <1>5, <2>5 DEF y, T, b
<1>8. CASE b >= 1 /\ ~(b - k >= 1)
  <2>1. b \in Nat /\ k \in Nat /\ T \in Nat /\ b <= k
    BY <1>1, <1>5, <1>8
  <2>2. b * T <= k * T
    BY <2>1, TimesOrder
  <2>3. b * T = T * b /\ k * T = T * k
    BY <2>1
  <2>4. z <= u /\ z \in Nat /\ y \in Nat /\ u \in Nat /\ u <= x
    BY <1>5, <1>6, <1>8, <2>2, <2>3
  <2> HIDE DEF y, z, u
  <2>5. f <= at + 1 + z
    BY <1>2 DEF z
  <2>6. f <= clock + 1 + y
    BY <1>1, <2>4, <2>5
  <2> QED BY <1>5, <2>6 DEF y, T, b
<1>9. CASE ~(b >= 1)
  <2>1. z = T /\ y \in Nat /\ T <= y
    BY <1>6, <1>9
  <2> HIDE DEF y, z
  <2>2. f <= at + 1 + z
    BY <1>2 DEF z
  <2>3. f <= clock + 1 + y
    BY <1>1, <2>1, <2>2
  <2> QED BY <1>5, <2>3 DEF y, T, b
<1> QED BY <1>7, <1>8, <1>9

\* A restart: the file is read, and the leak starts anew.
LEMMA RestoreKeeps ==
  ASSUME IgnInv, Restore
  PROVE  IgnInv'
<1> DEFINE q == onDisk.list
           k == (clock - onDisk.at) \div Threshold
           r == [i \in DOMAIN q |-> [q[i] EXCEPT !.bucket = @ - k]]
<1>1. Typed /\ Promises
  BY DEF IgnInv
<1>2. running' = TRUE /\ dec' = clock /\ list' = r /\ UNCHANGED <<clock, onDisk, promised>>
  BY DEF Restore
<1>3. /\ q \in Seq(Entry) /\ clock \in Nat /\ onDisk.at \in Nat /\ onDisk.at <= clock /\ Threshold \in Nat /\ Threshold > 0
      /\ promised \in [Mask -> [from : Int, to : Int]]
  BY <1>1, IgnoresAssumption DEF Typed
<1>4. k \in Nat
  <2> DEFINE x == clock - onDisk.at
  <2>1. x \in Nat
    BY <1>3
  <2> HIDE DEF x
  <2>2. Threshold \in Nat /\ Threshold > 0
    BY <1>3
  <2>3. x \div Threshold \in Nat
    BY ONLY <2>1, <2>2
  <2> QED BY <2>3 DEF x
<1> HIDE DEF k
<1>5. ASSUME NEW i \in DOMAIN q
      PROVE  /\ q[i] \in Entry /\ r[i] \in Entry /\ r[i].mask = q[i].mask /\ r[i].ignoring = q[i].ignoring
             /\ r[i].bucket = q[i].bucket - k
  <2> DEFINE e == q[i]
             b == e.bucket - k
  <2>1. e \in Entry
    BY <1>3
  <2>2. r[i] = [e EXCEPT !.bucket = b]
    OBVIOUS
  <2> HIDE DEF r, e
  <2>3. b \in Int
    BY <1>4, <2>1 DEF Entry
  <2>4. b = e.bucket - k
    OBVIOUS
  <2> HIDE DEF b
  <2>5. r[i] \in Entry /\ r[i].mask = e.mask /\ r[i].ignoring = e.ignoring /\ r[i].bucket = b
    BY <2>1, <2>2, <2>3 DEF Entry
  <2> QED BY <2>1, <2>4, <2>5 DEF e
<1>6. DOMAIN r = DOMAIN q /\ r \in Seq(Entry)
  <2>1. DOMAIN q = 1..Len(q) /\ Len(q) \in Nat /\ DOMAIN r = DOMAIN q
    BY <1>3
  <2>2. r = [i \in 1..Len(q) |-> r[i]]
    BY <2>1
  <2> HIDE DEF r
  <2> QED BY <1>5, <2>1, <2>2
<1> HIDE DEF r
<1>7. Typed'
  <2>1. dec' \in Nat /\ clock' \in Nat /\ dec' <= clock' /\ clock' <= dec' + Threshold /\ running' \in BOOLEAN
    BY <1>2, <1>3
  <2>2. /\ onDisk' \in [list : Seq(Entry), at : Nat] /\ onDisk'.at <= clock'
        /\ \A i \in DOMAIN onDisk'.list : onDisk'.list[i].ignoring
        /\ promised' \in [Mask -> [from : Int, to : Int]]
    BY <1>1, <1>2 DEF Typed
  <2> QED BY <1>2, <1>6, <2>1, <2>2 DEF Typed
<1>8. ASSUME NEW m \in Mask, clock' < promised'[m].from
      PROVE  Covered(list', dec', m, promised'[m].from) /\ Covered(onDisk'.list, onDisk'.at, m, promised'[m].from)
  <2> DEFINE f == promised[m].from
  <2>1. f \in Int /\ clock < f /\ promised'[m].from = f
    BY <1>2, <1>3, <1>8
  <2>2. Covered(q, onDisk.at, m, f)
    BY <1>1, <2>1 DEF Promises
  <2> HIDE DEF f
  <2>3. PICK i \in DOMAIN q : Covers(q[i], onDisk.at, m, f)
    BY <2>2 DEF Covered
  <2>4. q[i] \in Entry /\ r[i].mask = q[i].mask /\ r[i].ignoring = q[i].ignoring /\ r[i].bucket = q[i].bucket - k
    BY <1>5
  <2>5. f <= clock + 1 + Threshold * Lasts(q[i].bucket - k)
    BY <1>1, <2>1, <2>3, <2>4, RestoredCovers DEF k
  <2>6. Covers(r[i], clock, m, f)
    BY <2>3, <2>4, <2>5 DEF Covers
  <2>7. Covered(list', dec', m, f)
    BY <1>2, <1>6, <2>6 DEF Covered
  <2> QED BY <1>2, <2>1, <2>2, <2>7
<1>9. Promises'
  BY <1>8 DEF Promises, Covered, Covers, Lasts
<1> QED BY <1>7, <1>9 DEF IgnInv
-----------------------------------------------------------------------------
(* The theorem *)

LEMMA IgnInit ==
  ASSUME IgnoresInit
  PROVE  IgnInv
<1>1. /\ list = <<>> /\ dec = 0 /\ clock = 0 /\ onDisk = [list |-> <<>>, at |-> 0]
      /\ running = TRUE /\ promised = [m \in Mask |-> NoPromise]
  BY DEF IgnoresInit
<1>2. NoPromise \in [from : Int, to : Int] /\ NoPromise.from = 0
  BY DEF NoPromise
<1>3. Typed
  <2>1. list \in Seq(Entry) /\ onDisk.list = <<>> /\ onDisk.at = 0 /\ onDisk \in [list : Seq(Entry), at : Nat]
    BY <1>1
  <2>2. promised \in [Mask -> [from : Int, to : Int]]
    BY <1>1, <1>2
  <2> QED BY <1>1, <2>1, <2>2, IgnoresAssumption DEF Typed
<1>4. \A m \in Mask : ~(clock < promised[m].from)
  BY <1>1, <1>2
<1> QED BY <1>3, <1>4 DEF IgnInv, Promises

\* Every step keeps it, as long as no bucket overflows what the file holds.
LEMMA IgnStep ==
  ASSUME IgnInv, Small, Small', Admin \cap Excluded = {}, [IgnoresNext]_igVars
  PROVE  IgnInv'
<1>1. CASE \E m \in User : Message(m)
  BY <1>1, MessageKeeps
<1>2. CASE \E m \in User : AdminMessage(m)
  BY <1>2, AdminKeeps
<1>3. CASE \E m \in Mask : Unignore(m)
  BY <1>3, UnignoreKeeps
<1>4. CASE \E m \in Mask, time \in Times : Ignore(m, time)
  BY <1>4, IgnoreKeeps
<1>5. CASE Save
  BY <1>5, SaveKeeps
<1>6. CASE Crash
  BY <1>6, CrashKeeps
<1>7. CASE IgnoreSecond
  BY <1>7, SecondKeeps
<1>8. CASE Restore
  BY <1>8, RestoreKeeps
<1>9. CASE UNCHANGED igVars
  BY <1>9 DEF igVars, IgnInv, Typed, Promises, Covered, Covers, Lasts
<1> QED BY <1>1, <1>2, <1>3, <1>4, <1>5, <1>6, <1>7, <1>8, <1>9 DEF IgnoresNext, IgnoresEvent

\* What is announced is covered, so somebody's entry ignores him.
LEMMA IgnKept ==
  ASSUME IgnInv
  PROVE  IgnoreKept /\ IgnoresTypeOK
<1>1. Typed /\ Promises
  BY DEF IgnInv
<1>2. IgnoreKept
  BY <1>1 DEF IgnoreKept, Promises, Covered, Covers, Ignoring
<1>3. ASSUME NEW i \in DOMAIN list
      PROVE list[i].mask \in Mask /\ list[i].bucket \in Int /\ list[i].ignoring \in BOOLEAN
  <2>1. list[i] \in Entry
    BY <1>1 DEF Typed
  <2> QED BY <2>1 DEF Entry
<1>4. IgnoresTypeOK
  BY <1>1, <1>3 DEF Typed, IgnoresTypeOK
<1> QED BY <1>2, <1>4

\* Whoever was told to be ignored for a time is ignored that long, through crashes too, if
\* administrators are not in autoignore_exclude and no bucket outgrows its 32 bits in the file.
THEOREM IgnoreKeptHolds ==
  ASSUME Admin \cap Excluded = {}
  PROVE  IgnoresSpec /\ []Small => [](IgnoreKept /\ IgnoresTypeOK)
<1>1. IgnoresInit => IgnInv
  BY IgnInit
<1>2. IgnInv /\ Small /\ Small' /\ [IgnoresNext]_igVars => IgnInv'
  BY IgnStep
<1>3. IgnInv => IgnoreKept /\ IgnoresTypeOK
  BY IgnKept
<1> QED BY <1>1, <1>2, <1>3, PTL DEF IgnoresSpec
-----------------------------------------------------------------------------
(* Reading what was written *)

Tags == {"FILE", "DESC", "NOTE", "GETS", "MINSPEED", "MAXSPEED", "LOCK", "DLIMIT_MAX", "DLIMIT_USED",
         "DLIMIT_DESC", "XTIME", "COLOR"}
ItemOK(x) == \E q \in PackItems, tag \in Tags : x = [tag |-> tag, val |-> q[tag]]
ItemSet == {x \in [tag : Tags, val : Text \cup Nat \cup Speed] : ItemOK(x)}

\* A field of a pack takes the value of another pack's.
LEMMA FieldSet ==
  ASSUME NEW p \in PackItems, NEW q \in PackItems, NEW tag \in Tags
  PROVE  /\ [p EXCEPT ![tag] = q[tag]] \in PackItems /\ [p EXCEPT ![tag] = q[tag]][tag] = q[tag]
         /\ \A f \in Tags \ {tag} : [p EXCEPT ![tag] = q[tag]][f] = p[f]
<1>1. DOMAIN p = Tags
  BY DEF PackItems, Tags
<1>2. [p EXCEPT ![tag] = q[tag]] \in PackItems
  BY DEF PackItems, Tags
<1> QED BY <1>1, <1>2

LEMMA ItemIs ==
  ASSUME NEW q \in PackItems, NEW tag \in Tags
  PROVE  [tag |-> tag, val |-> q[tag]] \in ItemSet
<1>1. q[tag] \in Text \cup Nat \cup Speed
  BY DEF PackItems, Tags, Text
<1> QED BY <1>1 DEF ItemSet, ItemOK

\* An item changes the field it is for, the file's name the description, too.
LEMMA ItemRead ==
  ASSUME NEW p \in PackItems, NEW x \in ItemSet
  PROVE  ReadItem(p, x) \in PackItems
<1>1. PICK q \in PackItems, tag \in Tags : x = [tag |-> tag, val |-> q[tag]]
  BY DEF ItemSet, ItemOK
<1>2. [p EXCEPT ![tag] = q[tag]] \in PackItems
  BY FieldSet
<1>3. CASE tag = "FILE"
  <2>1. ReadItem(p, x) = [p EXCEPT !.FILE = q.FILE, !.DESC = 1]
    BY <1>1, <1>3 DEF ReadItem
  <2>2. [p EXCEPT !.FILE = q.FILE, !.DESC = 1] \in PackItems
    <3>1. q.FILE \in Nat /\ 1 \in Text
      BY DEF PackItems, Text
    <3> QED BY <3>1 DEF PackItems
  <2> QED BY <2>1, <2>2
<1>4. CASE tag # "FILE"
  <2>1. ReadItem(p, x) = p \/ ReadItem(p, x) = [p EXCEPT ![tag] = q[tag]]
    BY <1>1, <1>4 DEF ReadItem
  <2> QED BY <1>2, <2>1
<1> QED BY <1>3, <1>4

\* The items are read one after another.
Turns(f, p, seq) ==
  f[0] = p /\ \A k \in 1..Len(seq) : f[k] = ReadItem(f[k - 1], seq[k])
LEMMA ReadTurns ==
  ASSUME NEW p \in PackItems, NEW seq \in Seq(ItemSet)
  PROVE  \E f \in [0..Len(seq) -> PackItems] : Turns(f, p, seq) /\ ReadPack(p, seq) = f[Len(seq)]
<1> DEFINE m == Len(seq)
           Is(f) == f = [k \in 0..m |-> IF k = 0 THEN p ELSE ReadItem(f[k - 1], seq[k])]
           D == [k \in 1..m |-> [v \in PackItems |-> ReadItem(v, seq[k])]]
           V == CHOOSE f : Is(f)
<1>1. ReadPack(p, seq) = V[m]
  BY DEF ReadPack
<1>2. m \in Nat /\ \A k \in 1..m : seq[k] \in ItemSet /\ k \in 0..m /\ k # 0 /\ k - 1 \in 0..m
  OBVIOUS
<1>3. \A k \in 1..m : \A v \in PackItems : ReadItem(v, seq[k]) \in PackItems
  BY <1>2, ItemRead
<1> HIDE DEF m
<1>4. D \in StepsOf(m, PackItems) /\ \A k \in 1..m : \A v \in PackItems : D[k][v] = ReadItem(v, seq[k])
  BY <1>3 DEF StepsOf
<1> HIDE DEF D
<1>5. Made(m, PackItems, p, D)
  BY <1>2, <1>4, Iterated
<1>6. \E f : Is(f)
  <2>1. PICK f \in [0..m -> PackItems] : f[0] = p /\ \A k \in 1..m : f[k] = D[k][f[k - 1]]
    BY <1>5 DEF Made
  <2>2. \A k \in 1..m : f[k] = ReadItem(f[k - 1], seq[k])
    BY <1>2, <1>4, <2>1
  <2>3. \A k \in 0..m : k # 0 => k \in 1..m
    BY <1>2
  <2>4. \A k \in 0..m : f[k] = IF k = 0 THEN p ELSE ReadItem(f[k - 1], seq[k])
    BY <2>1, <2>2, <2>3
  <2>5. f = [k \in 0..m |-> f[k]]
    BY <2>1
  <2>6. Is(f)
    BY ONLY <2>4, <2>5
  <2> QED BY <2>6
<1>7. Is(V)
  <2> HIDE DEF Is
  <2> QED BY <1>6
<1> HIDE DEF V
<1>8. V[0] = p /\ \A k \in 1..m : V[k] = ReadItem(V[k - 1], seq[k])
  BY <1>2, <1>7
<1>9. V = [k \in 0..m |-> V[k]]
  BY <1>7
<1> HIDE DEF Is
<1>10. \A k \in 0..m : V[k] \in PackItems
  <2>1. \A k \in 1..m : V[k - 1] \in PackItems => V[k] = D[k][V[k - 1]]
    BY <1>4, <1>8
  <2> QED BY <1>5, <1>8, <2>1 DEF Made
<1>11. V \in [0..m -> PackItems]
  BY <1>9, <1>10
<1> QED BY <1>1, <1>8, <1>11 DEF Turns, m

\* One item more is read last.
LEMMA ReadAppend ==
  ASSUME NEW p \in PackItems, NEW seq \in Seq(ItemSet), NEW x \in ItemSet
  PROVE  /\ ReadPack(p, Append(seq, x)) = ReadItem(ReadPack(p, seq), x)
         /\ ReadPack(p, seq) \in PackItems /\ ReadPack(p, <<>>) = p
<1> DEFINE n == Len(seq)
           long == Append(seq, x)
<1>1. n \in Nat /\ long \in Seq(ItemSet) /\ Len(long) = n + 1 /\ long[n + 1] = x /\ \A k \in 1..n : long[k] = seq[k]
  OBVIOUS
<1>2. PICK f \in [0..n -> PackItems] : Turns(f, p, seq) /\ ReadPack(p, seq) = f[n]
  BY ReadTurns
<1> HIDE DEF long
<1>3. PICK g \in [0..(n + 1) -> PackItems] : Turns(g, p, long) /\ ReadPack(p, long) = g[n + 1]
  BY <1>1, ReadTurns
<1> HIDE DEF n
<1>4. g[0] = f[0] /\ \A k \in 1..n : f[k - 1] = g[k - 1] => f[k] = g[k]
  BY <1>1, <1>2, <1>3 DEF Turns, n
<1>5. f[n] = g[n]
  <2> DEFINE P == {k \in 0..n : f[k] = g[k]}
  <2>1. 0 \in P
    BY <1>1, <1>4
  <2>2. ASSUME NEW k \in 1..n, k - 1 \in P PROVE k \in P
    BY <1>1, <1>4, <2>2
  <2>3. 0..n \subseteq P
    <3> HIDE DEF P
    <3> QED BY <1>1, <2>1, <2>2, Climb
  <2> QED BY <1>1, <2>3
<1>6. g[n + 1] = ReadItem(g[n], x)
  <2>1. n + 1 \in 1..Len(long) /\ (n + 1) - 1 = n
    BY <1>1
  <2> QED BY <1>1, <1>3, <2>1 DEF Turns
<1>7. f[n] \in PackItems
  BY <1>1, <1>2
<1>8. ReadPack(p, <<>>) = p
  <2>1. <<>> \in Seq(ItemSet) /\ Len(<<>>) = 0
    OBVIOUS
  <2>2. PICK h \in [0..0 -> PackItems] : Turns(h, p, <<>>) /\ ReadPack(p, <<>>) = h[0]
    BY <2>1, ReadTurns
  <2> QED BY <2>2 DEF Turns
<1> QED BY <1>2, <1>3, <1>5, <1>6, <1>7, <1>8 DEF long

\* Another field is written, or not, and read.
LEMMA ReadNext ==
  ASSUME NEW b \in PackItems, NEW p \in PackItems, NEW seq \in Seq(ItemSet), NEW cond \in BOOLEAN,
         NEW tag \in Tags \ {"FILE"}, tag \in {"MINSPEED", "MAXSPEED"} /\ cond => p[tag] # 0
  PROVE  /\ seq \o When(cond, p, tag) \in Seq(ItemSet) /\ ReadPack(b, seq \o When(cond, p, tag)) \in PackItems
         /\ ReadPack(b, seq \o When(cond, p, tag))[tag] = IF cond THEN p[tag] ELSE ReadPack(b, seq)[tag]
         /\ \A f \in Tags \ {tag} : ReadPack(b, seq \o When(cond, p, tag))[f] = ReadPack(b, seq)[f]
<1> DEFINE x == [tag |-> tag, val |-> p[tag]]
           r == ReadPack(b, seq)
           longer == seq \o When(cond, p, tag)
<1>1. x \in ItemSet
  BY ItemIs
<1>2. r \in PackItems
  BY <1>1, ReadAppend
<1>3. CASE cond
  <2>1. longer = Append(seq, x)
    BY <1>3 DEF When, ItemOf
  <2>2. longer \in Seq(ItemSet)
    BY <1>1, <2>1
  <2>3. ReadPack(b, longer) = ReadItem(r, x)
    BY <1>1, <2>1, ReadAppend
  <2>4. ReadItem(r, x) = [r EXCEPT ![tag] = p[tag]]
    BY <1>3 DEF ReadItem
  <2> DEFINE t == [r EXCEPT ![tag] = p[tag]]
  <2>5. t \in PackItems /\ t[tag] = p[tag] /\ \A f \in Tags \ {tag} : t[f] = r[f]
    <3> HIDE DEF r
    <3> QED BY <1>2, FieldSet
  <2>6. ReadPack(b, longer) = t
    BY <2>3, <2>4
  <2> HIDE DEF t, longer, x, r
  <2>7. ReadPack(b, longer) \in PackItems /\ ReadPack(b, longer)[tag] = p[tag]
        /\ \A f \in Tags \ {tag} : ReadPack(b, longer)[f] = r[f]
    BY <2>5, <2>6
  <2> QED BY <1>3, <2>2, <2>7 DEF longer, r
<1>4. CASE ~cond
  <2>1. longer = seq
    BY <1>4 DEF When
  <2> QED BY <1>2, <1>4, <2>1
<1> QED BY <1>3, <1>4

\* A configuration's pack without a file.
LEMMA BlankIs ==
  ASSUME NEW c \in Conf
  PROVE  Blank(c) \in PackItems /\ c.old \in BOOLEAN
<1>1. c \in [mins : Speed, maxs : Speed, idle : Nat, nets : Nat, old : BOOLEAN]
  BY ItemsAssumption
<1>2. c.mins \in Speed /\ c.maxs \in Speed /\ c.old \in BOOLEAN /\ 0 \in Text /\ 0 \in 0..1
  BY <1>1 DEF Text
<1> QED BY <1>2 DEF Blank, PackItems

\* What is not written is found anyway: it is the file's name, or nothing, or a default.
LEMMA PackRead ==
  ASSUME NEW p \in PackItems, NEW c \in Conf, NEW d \in Conf, NEW q,
         q = ReadPack(Blank(d), write_statefile_xdccs(p, c))
  PROVE  /\ q \in PackItems
         /\ \A f \in Tags \ {"MINSPEED", "MAXSPEED", "DLIMIT_USED"} : q[f] = p[f]
         /\ q.MINSPEED = IF p.MINSPEED \notin {0, c.mins} THEN p.MINSPEED ELSE d.mins
         /\ q.MAXSPEED = IF p.MAXSPEED \notin {0, c.maxs} THEN p.MAXSPEED ELSE d.maxs
         /\ p.DLIMIT_MAX # 0 => q.DLIMIT_USED = p.DLIMIT_USED
<1> DEFINE b == Blank(d)
           s1 == ItemOf(p, "FILE")
           s2 == s1 \o When(c.old \/ p.DESC # 1, p, "DESC")
           s3 == s2 \o When(c.old \/ p.NOTE # 0, p, "NOTE")
           s4 == s3 \o ItemOf(p, "GETS")
           s5 == s4 \o When(p.MINSPEED \notin {0, c.mins}, p, "MINSPEED")
           s6 == s5 \o When(p.MAXSPEED \notin {0, c.maxs}, p, "MAXSPEED")
           s7 == s6 \o When(p.LOCK # 0, p, "LOCK")
           s8 == s7 \o When(p.DLIMIT_MAX # 0, p, "DLIMIT_MAX")
           s9 == s8 \o When(p.DLIMIT_MAX # 0, p, "DLIMIT_USED")
           s10 == s9 \o When(p.DLIMIT_DESC # 0, p, "DLIMIT_DESC")
           s11 == s10 \o When(p.XTIME # 0, p, "XTIME")
           s12 == s11 \o When(p.COLOR # 0, p, "COLOR")
           r(s) == ReadPack(b, s)
<1>0. write_statefile_xdccs(p, c) = s12
  BY DEF write_statefile_xdccs
<1>b. b \in PackItems /\ c.old \in BOOLEAN
  BY BlankIs
<1>1. s1 \in Seq(ItemSet) /\ r(s1) = [b EXCEPT !.FILE = p.FILE, !.DESC = 1] /\ r(s1) \in PackItems
  <2> DEFINE x == [tag |-> "FILE", val |-> p["FILE"]]
  <2>1. x \in ItemSet
    BY ItemIs DEF Tags
  <2>2. s1 = Append(<<>>, x) /\ <<>> \in Seq(ItemSet)
    BY DEF ItemOf
  <2>3. s1 \in Seq(ItemSet)
    <3> HIDE DEF x, s1
    <3> QED BY <2>1, <2>2
  <2>4. r(s1) = ReadItem(b, x)
    <3> HIDE DEF x, s1, b
    <3>1. ReadPack(b, Append(<<>>, x)) = ReadItem(ReadPack(b, <<>>), x) /\ ReadPack(b, <<>>) = b
      BY <1>b, <2>1, <2>2, ReadAppend
    <3> QED BY <2>2, <3>1
  <2>5. ReadItem(b, x) = [b EXCEPT !.FILE = p.FILE, !.DESC = 1]
    BY DEF ReadItem
  <2>6. ReadItem(b, x) \in PackItems
    <3> HIDE DEF x, b
    <3> QED BY <1>b, <2>1, ItemRead
  <2> QED BY <2>3, <2>4, <2>5, <2>6
<1>m. \A f \in Tags \ {"FILE", "DESC"} : r(s1)[f] = b[f]
  BY <1>1, <1>b DEF PackItems, Tags
<1>n. r(s1).FILE = p.FILE /\ r(s1).DESC = 1
  BY <1>1, <1>b DEF PackItems
<1> DEFINE Step(s, t, cond, tag) ==
             /\ t \in Seq(ItemSet) /\ r(t) \in PackItems
             /\ r(t)[tag] = IF cond THEN p[tag] ELSE r(s)[tag]
             /\ \A f \in Tags \ {tag} : r(t)[f] = r(s)[f]
<1>t. /\ "DESC" \in Tags \ {"FILE"} /\ "NOTE" \in Tags \ {"FILE"} /\ "GETS" \in Tags \ {"FILE"}
      /\ "MINSPEED" \in Tags \ {"FILE"} /\ "MAXSPEED" \in Tags \ {"FILE"} /\ "LOCK" \in Tags \ {"FILE"}
      /\ "DLIMIT_MAX" \in Tags \ {"FILE"} /\ "DLIMIT_USED" \in Tags \ {"FILE"} /\ "DLIMIT_DESC" \in Tags \ {"FILE"}
      /\ "XTIME" \in Tags \ {"FILE"} /\ "COLOR" \in Tags \ {"FILE"}
  BY DEF Tags
<1>g. ASSUME NEW s \in Seq(ItemSet), NEW cond \in BOOLEAN, NEW tag \in Tags \ {"FILE"},
             tag \in {"MINSPEED", "MAXSPEED"} /\ cond => p[tag] # 0
      PROVE  Step(s, s \o When(cond, p, tag), cond, tag)
  <2> HIDE DEF b
  <2>1. /\ s \o When(cond, p, tag) \in Seq(ItemSet) /\ ReadPack(b, s \o When(cond, p, tag)) \in PackItems
        /\ ReadPack(b, s \o When(cond, p, tag))[tag] = IF cond THEN p[tag] ELSE ReadPack(b, s)[tag]
        /\ \A f \in Tags \ {tag} : ReadPack(b, s \o When(cond, p, tag))[f] = ReadPack(b, s)[f]
    BY <1>b, <1>g, ReadNext
  <2> QED BY <2>1
<1> HIDE DEF r, Step
<1>2. Step(s1, s2, c.old \/ p.DESC # 1, "DESC")
  <2> HIDE DEF s1
  <2> QED BY <1>1, <1>b, <1>t, <1>g
<1>3. Step(s2, s3, c.old \/ p.NOTE # 0, "NOTE")
  <2>1. s2 \in Seq(ItemSet)
    BY <1>2 DEF Step
  <2> HIDE DEF s2
  <2> QED BY <2>1, <1>b, <1>t, <1>g
<1>4. Step(s3, s4, TRUE, "GETS")
  <2>1. s3 \in Seq(ItemSet) /\ s4 = s3 \o When(TRUE, p, "GETS")
    BY <1>3 DEF Step, When
  <2> HIDE DEF s3, s4
  <2> QED BY <2>1, <1>t, <1>g
<1>5. Step(s4, s5, p.MINSPEED \notin {0, c.mins}, "MINSPEED")
  <2>1. s4 \in Seq(ItemSet)
    BY <1>4 DEF Step
  <2> HIDE DEF s4
  <2> QED BY <2>1, <1>t, <1>g
<1>6. Step(s5, s6, p.MAXSPEED \notin {0, c.maxs}, "MAXSPEED")
  <2>1. s5 \in Seq(ItemSet)
    BY <1>5 DEF Step
  <2> HIDE DEF s5
  <2> QED BY <2>1, <1>t, <1>g
<1>7. Step(s6, s7, p.LOCK # 0, "LOCK")
  <2>1. s6 \in Seq(ItemSet)
    BY <1>6 DEF Step
  <2> HIDE DEF s6
  <2> QED BY <2>1, <1>t, <1>g
<1>8. Step(s7, s8, p.DLIMIT_MAX # 0, "DLIMIT_MAX")
  <2>1. s7 \in Seq(ItemSet)
    BY <1>7 DEF Step
  <2> HIDE DEF s7
  <2> QED BY <2>1, <1>t, <1>g
<1>9. Step(s8, s9, p.DLIMIT_MAX # 0, "DLIMIT_USED")
  <2>1. s8 \in Seq(ItemSet)
    BY <1>8 DEF Step
  <2> HIDE DEF s8
  <2> QED BY <2>1, <1>t, <1>g
<1>10. Step(s9, s10, p.DLIMIT_DESC # 0, "DLIMIT_DESC")
  <2>1. s9 \in Seq(ItemSet)
    BY <1>9 DEF Step
  <2> HIDE DEF s9
  <2> QED BY <2>1, <1>t, <1>g
<1>11. Step(s10, s11, p.XTIME # 0, "XTIME")
  <2>1. s10 \in Seq(ItemSet)
    BY <1>10 DEF Step
  <2> HIDE DEF s10
  <2> QED BY <2>1, <1>t, <1>g
<1>12. Step(s11, s12, p.COLOR # 0, "COLOR")
  <2>1. s11 \in Seq(ItemSet)
    BY <1>11 DEF Step
  <2> HIDE DEF s11
  <2> QED BY <2>1, <1>t, <1>g
<1>13. q = r(s12)
  BY <1>0 DEF r
<1>14. /\ b.NOTE = 0 /\ b.GETS = 0 /\ b.MINSPEED = d.mins /\ b.MAXSPEED = d.maxs /\ b.LOCK = 0
       /\ b.DLIMIT_MAX = 0 /\ b.DLIMIT_DESC = 0 /\ b.XTIME = 0 /\ b.COLOR = 0
  BY DEF Blank
<1> HIDE DEF s1, s2, s3, s4, s5, s6, s7, s8, s9, s10, s11, s12, b
<1>15. q \in PackItems
  BY <1>12, <1>13 DEF Step
<1>16. q.FILE = p.FILE
  BY <1>2, <1>3, <1>4, <1>5, <1>6, <1>7, <1>8, <1>9, <1>10, <1>11, <1>12, <1>13, <1>n DEF Step, Tags
<1>17. q.DESC = p.DESC
  BY <1>2, <1>3, <1>4, <1>5, <1>6, <1>7, <1>8, <1>9, <1>10, <1>11, <1>12, <1>13, <1>n DEF Step, Tags
<1>18. q.NOTE = p.NOTE /\ q.GETS = p.GETS
  BY <1>m, <1>2, <1>3, <1>4, <1>5, <1>6, <1>7, <1>8, <1>9, <1>10, <1>11, <1>12, <1>13, <1>14 DEF Step, Tags
<1>19. q.MINSPEED = IF p.MINSPEED \notin {0, c.mins} THEN p.MINSPEED ELSE d.mins
  BY <1>m, <1>2, <1>3, <1>4, <1>5, <1>6, <1>7, <1>8, <1>9, <1>10, <1>11, <1>12, <1>13, <1>14 DEF Step, Tags
<1>20. q.MAXSPEED = IF p.MAXSPEED \notin {0, c.maxs} THEN p.MAXSPEED ELSE d.maxs
  BY <1>m, <1>2, <1>3, <1>4, <1>5, <1>6, <1>7, <1>8, <1>9, <1>10, <1>11, <1>12, <1>13, <1>14 DEF Step, Tags
<1>21. q.LOCK = p.LOCK /\ q.DLIMIT_MAX = p.DLIMIT_MAX
  BY <1>m, <1>2, <1>3, <1>4, <1>5, <1>6, <1>7, <1>8, <1>9, <1>10, <1>11, <1>12, <1>13, <1>14 DEF Step, Tags
<1>22. (p.DLIMIT_MAX # 0 => q.DLIMIT_USED = p.DLIMIT_USED) /\ q.DLIMIT_DESC = p.DLIMIT_DESC
  BY <1>m, <1>2, <1>3, <1>4, <1>5, <1>6, <1>7, <1>8, <1>9, <1>10, <1>11, <1>12, <1>13, <1>14 DEF Step, Tags
<1>23. q.XTIME = p.XTIME /\ q.COLOR = p.COLOR
  BY <1>m, <1>2, <1>3, <1>4, <1>5, <1>6, <1>7, <1>8, <1>9, <1>10, <1>11, <1>12, <1>13, <1>14 DEF Step, Tags
<1> QED BY <1>15, <1>16, <1>17, <1>18, <1>19, <1>20, <1>21, <1>22, <1>23 DEF Tags
-----------------------------------------------------------------------------
(* What the bot has and what is in the file *)

Memory == [packs : Seq(PackItems), main : Seq(QueueItem), idle : Seq(QueueItem), used : 0..(Two32 * Two32 - 1)]
\* Each pack has a file, and who waits does so for one of the packs.
Leads(seq, l) == \A k \in DOMAIN seq : \E i \in DOMAIN l : l[i].FILE = seq[k].file
Consistent(m) ==
  /\ m \in Memory /\ \A i \in DOMAIN m.packs : m.packs[i].FILE # 0
  /\ Leads(m.main, m.packs) /\ Leads(m.idle, m.packs)
ItemsInv ==
  /\ alive \in BOOLEAN /\ settings \in Conf /\ Consistent(memory) /\ (~alive => memory.packs = <<>>)
  /\ wasSaved = [mem |-> wasSaved.mem, conf |-> wasSaved.conf] /\ Consistent(wasSaved.mem) /\ wasSaved.conf \in Conf
  /\ items = write_statefile_dinoex(wasSaved.mem, wasSaved.conf)

\* Packs that change keep their files.
LEMMA PacksChange ==
  ASSUME NEW m, Consistent(m), NEW l \in Seq(PackItems), DOMAIN l = DOMAIN m.packs,
         \A i \in DOMAIN l : l[i].FILE = m.packs[i].FILE
  PROVE  Consistent([m EXCEPT !.packs = l])
<1>1. [m EXCEPT !.packs = l] \in Memory
  BY DEF Consistent, Memory
<1>2. [m EXCEPT !.packs = l].packs = l /\ [m EXCEPT !.packs = l].main = m.main /\ [m EXCEPT !.packs = l].idle = m.idle
  BY DEF Consistent, Memory
<1> QED BY <1>1, <1>2 DEF Consistent, Leads

\* What is changed and saved.
LEMMA WrittenKeeps ==
  ASSUME ItemsInv, NEW m, Consistent(m), WrittenItems(m)
  PROVE  ItemsInv'
<1>1. memory' = m /\ alive /\ alive' = alive /\ settings' = settings /\ settings \in Conf
  BY DEF WrittenItems, ItemsInv
<1>2. wasSaved' = [mem |-> m, conf |-> settings] /\ items' = write_statefile_dinoex(m, settings)
  BY DEF WrittenItems, SavedItems
<1> QED BY <1>1, <1>2 DEF ItemsInv

\* What is changed and not saved.
LEMMA UnwrittenKeeps ==
  ASSUME ItemsInv, NEW m, Consistent(m), Unwritten(m)
  PROVE  ItemsInv'
<1>1. memory' = m /\ alive /\ UNCHANGED <<alive, settings, items, wasSaved>>
  BY DEF Unwritten
<1> QED BY <1>1 DEF ItemsInv

\* A field of some packs.
LEMMA SetFieldKeeps ==
  ASSUME ItemsInv, NEW S, NEW tag \in Tags \ {"FILE"}, NEW v,
         \A p \in PackItems : [p EXCEPT ![tag] = v] \in PackItems,
         SetField(S, tag, v)
  PROVE  ItemsInv'
<1> DEFINE l == [i \in DOMAIN memory.packs |-> IF i \in S THEN [memory.packs[i] EXCEPT ![tag] = v] ELSE memory.packs[i]]
<1>1. memory.packs \in Seq(PackItems) /\ Consistent(memory)
  BY DEF ItemsInv, Consistent, Memory
<1>2. l \in Seq(PackItems) /\ DOMAIN l = DOMAIN memory.packs
  BY <1>1
<1>3. ASSUME NEW i \in DOMAIN l PROVE l[i].FILE = memory.packs[i].FILE
  BY <1>1, <1>3 DEF PackItems
<1>4. WrittenItems([memory EXCEPT !.packs = l])
  BY DEF SetField
<1> HIDE DEF l
<1> QED BY <1>1, <1>2, <1>3, <1>4, PacksChange, WrittenKeeps

\* DLIMIT_MAX and what has to be reached.
LEMMA LimitedIs ==
  ASSUME NEW p \in PackItems, NEW max \in Nat
  PROVE  Limited(p, max) \in PackItems /\ Limited(p, max).FILE = p.FILE
<1> DEFINE u == IF max = 0 THEN 0 ELSE p.GETS + max
<1>1. u \in Nat
  BY DEF PackItems
<1>2. Limited(p, max) = [p EXCEPT !.DLIMIT_MAX = max, !.DLIMIT_USED = u]
  BY DEF Limited
<1> HIDE DEF u
<1> QED BY <1>1, <1>2 DEF PackItems

\* The commands on packs.
LEMMA CommandKeeps ==
  ASSUME ItemsInv, Command
  PROVE  ItemsInv'
<1> USE DEF Tags
<1>1. memory.packs \in Seq(PackItems) /\ Consistent(memory)
  BY DEF ItemsInv, Consistent, Memory
<1>2. ASSUME NEW i \in DOMAIN memory.packs, ChDesc(i) PROVE ItemsInv'
  <2>1. PICK d \in Text : SetField({i}, "DESC", d)
    BY <1>2 DEF ChDesc
  <2>2. \A p \in PackItems : [p EXCEPT !["DESC"] = d] \in PackItems
    BY DEF PackItems
  <2> QED BY <2>1, <2>2, SetFieldKeeps
<1>3. ASSUME NEW i \in DOMAIN memory.packs, ChNote(i) PROVE ItemsInv'
  <2>1. PICK d \in Text : SetField({i}, "NOTE", d)
    BY <1>3 DEF ChNote, Text
  <2>2. \A p \in PackItems : [p EXCEPT !["NOTE"] = d] \in PackItems
    BY DEF PackItems
  <2> QED BY <2>1, <2>2, SetFieldKeeps
<1>4. ASSUME NEW i \in DOMAIN memory.packs, ChTime(i) PROVE ItemsInv'
  <2>1. PICK d \in 0..1 : SetField({i}, "XTIME", d)
    BY <1>4 DEF ChTime
  <2>2. \A p \in PackItems : [p EXCEPT !["XTIME"] = d] \in PackItems
    BY DEF PackItems
  <2> QED BY <2>1, <2>2, SetFieldKeeps
<1>5. ASSUME NEW i \in DOMAIN memory.packs, ChLimitInfo(i) PROVE ItemsInv'
  <2>1. PICK d \in Text : SetField({i}, "DLIMIT_DESC", d)
    BY <1>5 DEF ChLimitInfo, Text
  <2>2. \A p \in PackItems : [p EXCEPT !["DLIMIT_DESC"] = d] \in PackItems
    BY DEF PackItems
  <2> QED BY <2>1, <2>2, SetFieldKeeps
<1>6. ASSUME NEW S, ChMins(S) PROVE ItemsInv'
  <2>1. PICK d \in Speed : SetField(S, "MINSPEED", d)
    BY <1>6 DEF ChMins
  <2>2. \A p \in PackItems : [p EXCEPT !["MINSPEED"] = d] \in PackItems
    BY DEF PackItems
  <2> QED BY <2>1, <2>2, SetFieldKeeps
<1>7. ASSUME NEW S, ChMaxs(S) PROVE ItemsInv'
  <2>1. PICK d \in Speed : SetField(S, "MAXSPEED", d)
    BY <1>7 DEF ChMaxs
  <2>2. \A p \in PackItems : [p EXCEPT !["MAXSPEED"] = d] \in PackItems
    BY DEF PackItems
  <2> QED BY <2>1, <2>2, SetFieldKeeps
<1>8. ASSUME NEW S, ChLimit(S) PROVE ItemsInv'
  <2>1. PICK max \in Nat :
          WrittenItems([memory EXCEPT !.packs = [i \in DOMAIN @ |-> IF i \in S THEN Limited(@[i], max) ELSE @[i]]])
    BY <1>8, ItemsAssumption DEF ChLimit
  <2> DEFINE l == [i \in DOMAIN memory.packs |-> IF i \in S THEN Limited(memory.packs[i], max) ELSE memory.packs[i]]
  <2>2. l \in Seq(PackItems) /\ DOMAIN l = DOMAIN memory.packs /\ \A i \in DOMAIN l : l[i].FILE = memory.packs[i].FILE
    <3>1. \A i \in DOMAIN memory.packs : memory.packs[i] \in PackItems
      BY <1>1
    <3>2. \A i \in DOMAIN memory.packs : /\ Limited(memory.packs[i], max) \in PackItems
                                         /\ Limited(memory.packs[i], max).FILE = memory.packs[i].FILE
      BY <3>1, LimitedIs
    <3>3. DOMAIN memory.packs = 1..Len(memory.packs) /\ Len(memory.packs) \in Nat
      BY <1>1
    <3>4. l \in [1..Len(memory.packs) -> PackItems]
      BY <3>1, <3>2, <3>3
    <3> QED BY <3>2, <3>3, <3>4
  <2>3. WrittenItems([memory EXCEPT !.packs = l])
    BY <2>1
  <2> HIDE DEF l
  <2> QED BY <1>1, <2>2, <2>3, PacksChange, WrittenKeeps
<1>9. ASSUME NEW S, ChGets(S) PROVE ItemsInv'
  <2>1. PICK d \in Nat : SetField(S, "GETS", d)
    BY <1>9, ItemsAssumption DEF ChGets
  <2>2. \A p \in PackItems : [p EXCEPT !["GETS"] = d] \in PackItems
    BY DEF PackItems
  <2> QED BY <2>1, <2>2, SetFieldKeeps
<1>10. ASSUME NEW S, ChColor(S) PROVE ItemsInv'
  <2>1. PICK d \in 0..1 : SetField(S, "COLOR", d)
    BY <1>10 DEF ChColor
  <2>2. \A p \in PackItems : [p EXCEPT !["COLOR"] = d] \in PackItems
    BY DEF PackItems
  <2> QED BY <2>1, <2>2, SetFieldKeeps
<1>11. ASSUME NEW S, Lock(S) \/ Unlock(S) PROVE ItemsInv'
  <2>1. PICK d \in Text : SetField(S, "LOCK", d)
    BY <1>11 DEF Lock, Unlock, Text
  <2>2. \A p \in PackItems : [p EXCEPT !["LOCK"] = d] \in PackItems
    BY DEF PackItems
  <2> QED BY <2>1, <2>2, SetFieldKeeps
<1> QED BY <1>2, <1>3, <1>4, <1>5, <1>6, <1>7, <1>8, <1>9, <1>10, <1>11
        DEF Command, LockGroup, UnlockGroup, Relock

\* A request, a download that ends, and the day on which limits start anew.
LEMMA QueuedKeeps ==
  ASSUME ItemsInv, NEW n \in Asker, NEW net \in 0..1, NEW i \in DOMAIN memory.packs,
         Queued(n, net, memory.packs[i].FILE)
  PROVE  ItemsInv'
<1> DEFINE r == [file |-> memory.packs[i].FILE, nick |-> n, net |-> net]
<1>1. memory \in Memory /\ Consistent(memory) /\ memory.main \in Seq(QueueItem) /\ memory.idle \in Seq(QueueItem)
  BY DEF ItemsInv, Consistent, Memory
<1>2. r \in QueueItem /\ r.file = memory.packs[i].FILE
  <2>1. memory.packs[i] \in PackItems
    BY <1>1 DEF Memory
  <2>2. memory.packs[i].FILE \in Nat /\ net \in Nat
    BY <2>1 DEF PackItems
  <2> QED BY <2>2 DEF QueueItem
<1>3. Unwritten([memory EXCEPT !.main = Append(@, r)]) \/ Unwritten([memory EXCEPT !.idle = Append(@, r)])
  BY DEF Queued
<1> HIDE DEF r
<1>4. ASSUME NEW q \in Seq(QueueItem), Leads(q, memory.packs)
      PROVE  Append(q, r) \in Seq(QueueItem) /\ Leads(Append(q, r), memory.packs)
  BY <1>2, <1>4 DEF Leads
<1>5. Leads(memory.main, memory.packs) /\ Leads(memory.idle, memory.packs)
  BY <1>1 DEF Consistent
<1>6. Consistent([memory EXCEPT !.main = Append(@, r)])
  <2> DEFINE a == Append(memory.main, r)
  <2>1. a \in Seq(QueueItem) /\ Leads(a, memory.packs)
    BY <1>1, <1>4, <1>5
  <2> HIDE DEF a
  <2>2. Consistent([memory EXCEPT !.main = a])
    BY <1>1, <2>1 DEF Consistent, Memory
  <2> QED BY <2>2 DEF a
<1>7. Consistent([memory EXCEPT !.idle = Append(@, r)])
  <2> DEFINE a == Append(memory.idle, r)
  <2>1. a \in Seq(QueueItem) /\ Leads(a, memory.packs)
    BY <1>1, <1>4, <1>5
  <2> HIDE DEF a
  <2>2. Consistent([memory EXCEPT !.idle = a])
    BY <1>1, <2>1 DEF Consistent, Memory
  <2> QED BY <2>2 DEF a
<1> QED BY <1>3, <1>6, <1>7, UnwrittenKeeps

LEMMA DownloadedKeeps ==
  ASSUME ItemsInv, NEW i \in DOMAIN memory.packs, NEW bytes \in Bytes, Downloaded(i, bytes)
  PROVE  ItemsInv'
<1> DEFINE p == [memory.packs[i] EXCEPT !.GETS = @ + 1]
           l == [memory.packs EXCEPT ![i] = p]
           u == memory.used + bytes
           m == [memory EXCEPT !.packs = l]
<1>1. memory \in Memory /\ Consistent(memory) /\ memory.packs \in Seq(PackItems)
  BY DEF ItemsInv, Consistent, Memory
<1>2. memory.packs[i] \in PackItems
  BY <1>1
<1>3. p \in PackItems /\ p.FILE = memory.packs[i].FILE
  BY <1>2 DEF PackItems
<1> HIDE DEF p
<1>4. l \in Seq(PackItems) /\ DOMAIN l = DOMAIN memory.packs /\ \A j \in DOMAIN l : l[j].FILE = memory.packs[j].FILE
  BY <1>1, <1>3
<1>5. u \in 0..(Two32 * Two32 - 1)
  <2> DEFINE w == Two32 * Two32
  <2>1. w \in Nat /\ memory.used \in 0..(w - 1) /\ bytes \in Nat /\ memory.used + bytes < w
    BY <1>1, ItemsAssumption DEF Downloaded, Memory
  <2> HIDE DEF w
  <2>2. u \in 0..(w - 1)
    BY <2>1
  <2> QED BY <2>2 DEF w
<1>6. Unwritten([memory EXCEPT !.packs = l, !.used = u])
  BY DEF Downloaded, p
<1> HIDE DEF l, u
<1>7. Consistent(m)
  BY <1>1, <1>4, PacksChange
<1>8. m \in Memory /\ [memory EXCEPT !.packs = l, !.used = u] = [m EXCEPT !.used = u]
  BY <1>7 DEF Consistent
<1> HIDE DEF m
<1>9. Consistent([m EXCEPT !.used = u])
  BY <1>5, <1>7, <1>8 DEF Consistent, Memory
<1> QED BY <1>6, <1>8, <1>9, UnwrittenKeeps

LEMMA ResetKeeps ==
  ASSUME ItemsInv, reset_download_limits
  PROVE  ItemsInv'
<1> DEFINE again(p) == IF p.DLIMIT_MAX = 0 THEN p ELSE Limited(p, p.DLIMIT_MAX)
           l == [i \in DOMAIN memory.packs |-> again(memory.packs[i])]
<1>1. memory.packs \in Seq(PackItems) /\ Consistent(memory)
  BY DEF ItemsInv, Consistent, Memory
<1>2. \A p \in PackItems : again(p) \in PackItems /\ again(p).FILE = p.FILE
  <2>1. \A p \in PackItems : p.DLIMIT_MAX \in Nat
    BY DEF PackItems
  <2> QED BY <2>1, LimitedIs
<1>3. Unwritten([memory EXCEPT !.packs = l])
  BY DEF reset_download_limits
<1> HIDE DEF again
<1>4. l \in Seq(PackItems) /\ DOMAIN l = DOMAIN memory.packs /\ \A i \in DOMAIN l : l[i].FILE = memory.packs[i].FILE
  BY <1>1, <1>2
<1> HIDE DEF l
<1> QED BY <1>1, <1>3, <1>4, PacksChange, UnwrittenKeeps

\* REHASH.
LEMMA RehashKeeps ==
  ASSUME ItemsInv, NEW c \in Conf, RehashSpeeds(c)
  PROVE  ItemsInv'
<1> DEFINE follow(p) == [p EXCEPT !.MINSPEED = Follows(@, settings.mins, c.mins), !.MAXSPEED = Follows(@, settings.maxs, c.maxs)]
           l == [i \in DOMAIN memory.packs |-> follow(memory.packs[i])]
<1>1. memory.packs \in Seq(PackItems) /\ Consistent(memory)
  BY DEF ItemsInv, Consistent, Memory
<1>2. \A p \in PackItems : follow(p) \in PackItems /\ follow(p).FILE = p.FILE
  <2>1. c.mins \in Speed /\ c.maxs \in Speed
    BY ItemsAssumption
  <2> QED BY <2>1 DEF PackItems, Follows
<1>3. memory' = [memory EXCEPT !.packs = l] /\ settings' = c /\ alive /\ UNCHANGED <<alive, items, wasSaved>>
  BY DEF RehashSpeeds
<1> HIDE DEF follow
<1>4. l \in Seq(PackItems) /\ DOMAIN l = DOMAIN memory.packs /\ \A i \in DOMAIN l : l[i].FILE = memory.packs[i].FILE
  BY <1>1, <1>2
<1> HIDE DEF l
<1>5. Consistent(memory')
  BY <1>1, <1>3, <1>4, PacksChange
<1> QED BY <1>3, <1>5 DEF ItemsInv

\* The end, after saving or without.
LEMMA EndKeeps ==
  ASSUME ItemsInv, ItemsExit \/ ItemsCrash
  PROVE  ItemsInv'
<1> DEFINE none == [memory EXCEPT !.packs = <<>>, !.main = <<>>, !.idle = <<>>]
<1>1. memory' = none /\ alive' = FALSE /\ settings' = settings
  BY DEF ItemsExit, ItemsCrash, Ends
<1>2. Consistent(none) /\ none.packs = <<>>
  <2>1. memory \in Memory
    BY DEF ItemsInv, Consistent
  <2>2. none.packs = <<>> /\ none.main = <<>> /\ none.idle = <<>> /\ none.used = memory.used
    BY <2>1 DEF Memory
  <2>3. none \in Memory
    <3>1. <<>> \in Seq(PackItems) /\ <<>> \in Seq(QueueItem)
      OBVIOUS
    <3> QED BY <2>1, <3>1 DEF Memory
  <2> HIDE DEF none
  <2> QED BY <2>2, <2>3 DEF Consistent, Leads
<1>3. CASE ItemsExit
  <2>1. wasSaved' = [mem |-> memory, conf |-> settings] /\ items' = write_statefile_dinoex(memory, settings)
    BY <1>3 DEF ItemsExit, SavedItems
  <2> HIDE DEF none
  <2> QED BY <1>1, <1>2, <2>1 DEF ItemsInv
<1>4. CASE ItemsCrash
  <2>1. UNCHANGED <<items, wasSaved>>
    BY <1>4 DEF ItemsCrash
  <2> HIDE DEF none
  <2> QED BY <1>1, <1>2, <2>1 DEF ItemsInv
<1> QED BY <1>3, <1>4
-----------------------------------------------------------------------------
(* A start *)

\* Where all are kept the list is the same.
LEMMA KeepAll ==
  ASSUME NEW T, NEW q \in Seq(T)
  PROVE  Keep(q, DOMAIN q) = q
<1> DEFINE n == Len(q)
           K == DOMAIN q
<1>1. n \in Nat /\ K = 1..n /\ K \subseteq 1..n /\ Cardinality(K) = n
  BY IntervalSize
<1> HIDE DEF n, K
<1>2. ASSUME NEW j \in 1..n PROVE Nth(K, j) = j
  <2> DEFINE k == Nth(K, j)
  <2>1. k \in K /\ Cardinality(K \cap (1..k)) = j
    BY <1>1, <1>2, NthExists
  <2> HIDE DEF k
  <2>2. k \in 1..n /\ K \cap (1..k) = 1..k
    BY <1>1, <2>1
  <2>3. Cardinality(1..k) = k
    BY <2>2, IntervalSize
  <2> QED BY <2>1, <2>2, <2>3 DEF k
<1>3. Keep(q, K) = [j \in 1..n |-> q[j]]
  BY <1>1, <1>2 DEF Keep
<1> QED BY <1>1, <1>3 DEF n, K

\* The number of a request's pack.
LEMMA NumberLeads ==
  ASSUME NEW m, NEW seq, Leads(seq, m.packs), NEW k \in DOMAIN seq
  PROVE  NumberOf(m, seq[k].file) \in DOMAIN m.packs /\ m.packs[NumberOf(m, seq[k].file)].FILE = seq[k].file
BY DEF Leads, NumberOf

\* An entry of a list that goes on with another one is of the first or the second.
LEMMA JoinedIndex ==
  ASSUME NEW S, NEW a \in Seq(S), NEW b \in Seq(S)
  PROVE  /\ a \o b \in Seq(S) /\ Len(a \o b) = Len(a) + Len(b) /\ DOMAIN (a \o b) = 1..(Len(a) + Len(b))
         /\ \A k \in 1..Len(a) : k \in DOMAIN a /\ (a \o b)[k] = a[k]
         /\ \A k \in 1..(Len(a) + Len(b)) : k > Len(a) => k - Len(a) \in DOMAIN b /\ (a \o b)[k] = b[k - Len(a)]
OBVIOUS

\* What the file has of a request, the number of the pack in place of the pack.
OneOf(m) == [pack : DOMAIN m.packs, nick : Asker, net : Nat]
Like(m, w, s) ==
  /\ w \in Seq(OneOf(m)) /\ Len(w) = Len(s)
  /\ \A k \in DOMAIN s : w[k].nick = s[k].nick /\ w[k].net = s[k].net /\ m.packs[w[k].pack].FILE = s[k].file
LEMMA LikeJoined ==
  ASSUME NEW m, NEW s \in Seq(QueueItem), NEW t \in Seq(QueueItem), NEW a, NEW b, Like(m, a, s), Like(m, b, t)
  PROVE  Like(m, a \o b, s \o t)
<1> DEFINE One == OneOf(m)
           n == Len(s)
<1>1. /\ a \in Seq(One) /\ b \in Seq(One) /\ Len(a) = n /\ Len(b) = Len(t) /\ n \in Nat /\ Len(t) \in Nat
      /\ DOMAIN s = 1..n /\ DOMAIN t = 1..Len(t)
  BY DEF Like
<1> HIDE DEF One, n
<1>2. /\ a \o b \in Seq(One) /\ Len(a \o b) = n + Len(t)
      /\ \A k \in 1..n : (a \o b)[k] = a[k]
      /\ \A k \in 1..(n + Len(t)) : k > n => k - n \in DOMAIN b /\ (a \o b)[k] = b[k - n]
  <2>1. a \in Seq(One) /\ b \in Seq(One)
    BY <1>1
  <2>2. /\ a \o b \in Seq(One) /\ Len(a \o b) = Len(a) + Len(b)
        /\ \A k \in 1..Len(a) : k \in DOMAIN a /\ (a \o b)[k] = a[k]
        /\ \A k \in 1..(Len(a) + Len(b)) : k > Len(a) => k - Len(a) \in DOMAIN b /\ (a \o b)[k] = b[k - Len(a)]
    BY ONLY <2>1, JoinedIndex
  <2> QED BY <1>1, <2>2
<1>3. /\ Len(s \o t) = n + Len(t) /\ DOMAIN (s \o t) = 1..(n + Len(t))
      /\ \A k \in 1..n : (s \o t)[k] = s[k]
      /\ \A k \in 1..(n + Len(t)) : k > n => k - n \in DOMAIN t /\ (s \o t)[k] = t[k - n]
  BY JoinedIndex DEF n
<1>4. \A k \in DOMAIN (s \o t) : /\ (a \o b)[k].nick = (s \o t)[k].nick /\ (a \o b)[k].net = (s \o t)[k].net
                                 /\ m.packs[(a \o b)[k].pack].FILE = (s \o t)[k].file
  <2> SUFFICES ASSUME NEW k \in 1..(n + Len(t))
               PROVE  /\ (a \o b)[k].nick = (s \o t)[k].nick /\ (a \o b)[k].net = (s \o t)[k].net
                      /\ m.packs[(a \o b)[k].pack].FILE = (s \o t)[k].file
    BY <1>3
  <2>1. CASE k \in 1..n
    <3>1. (a \o b)[k] = a[k] /\ (s \o t)[k] = s[k] /\ k \in DOMAIN s
      BY <1>1, <1>2, <1>3, <2>1
    <3> QED BY <3>1 DEF Like
  <2>2. CASE k > n
    <3>1. (a \o b)[k] = b[k - n] /\ (s \o t)[k] = t[k - n] /\ k - n \in DOMAIN t
      BY <1>2, <1>3, <2>2
    <3> QED BY <3>1 DEF Like
  <2> QED BY <1>1, <2>1, <2>2
<1> QED BY <1>2, <1>3, <1>4 DEF Like, One

\* The requests in the file, those of both queues after one another.
LEMMA QueueWritten ==
  ASSUME NEW m, Consistent(m), NEW c
  PROVE  m.main \o m.idle \in Seq(QueueItem) /\ Like(m, write_statefile_dinoex(m, c).queue, m.main \o m.idle)
<1> DEFINE One == OneOf(m)
           a == write_statefile_queue(m, m.main)
           b == write_statefile_queue(m, m.idle)
<1>1. ASSUME NEW s \in Seq(QueueItem), Leads(s, m.packs) PROVE Like(m, write_statefile_queue(m, s), s)
  <2> DEFINE w == write_statefile_queue(m, s)
  <2>1. \A k \in DOMAIN s : /\ NumberOf(m, s[k].file) \in DOMAIN m.packs
                            /\ m.packs[NumberOf(m, s[k].file)].FILE = s[k].file
    <3> SUFFICES ASSUME NEW k \in DOMAIN s
                 PROVE  NumberOf(m, s[k].file) \in DOMAIN m.packs /\ m.packs[NumberOf(m, s[k].file)].FILE = s[k].file
      OBVIOUS
    <3> QED BY <1>1, NumberLeads
  <2>2. \A k \in DOMAIN s : s[k] \in QueueItem
    BY <1>1
  <2>3. \A k \in DOMAIN s : s[k].nick \in Asker /\ s[k].net \in Nat
    BY <2>2 DEF QueueItem
  <2>4. DOMAIN s = 1..Len(s) /\ Len(s) \in Nat
    BY <1>1
  <2>5. w = [k \in 1..Len(s) |-> [pack |-> NumberOf(m, s[k].file), nick |-> s[k].nick, net |-> s[k].net]]
    BY <2>4 DEF write_statefile_queue
  <2> HIDE DEF w
  <2>6. w \in [1..Len(s) -> One]
    BY <2>1, <2>3, <2>4, <2>5 DEF OneOf
  <2>7. \A k \in DOMAIN s : w[k].nick = s[k].nick /\ w[k].net = s[k].net /\ m.packs[w[k].pack].FILE = s[k].file
    BY <2>1, <2>4, <2>5
  <2>8. w \in Seq(One) /\ Len(w) = Len(s)
    <3> HIDE DEF One
    <3> QED BY <2>4, <2>6
  <2> QED BY <2>7, <2>8 DEF w, Like
<1>2. m.main \in Seq(QueueItem) /\ m.idle \in Seq(QueueItem)
  BY DEF Consistent, Memory
<1>3. Like(m, a, m.main) /\ Like(m, b, m.idle)
  BY <1>1, <1>2 DEF Consistent
<1>4. write_statefile_dinoex(m, c).queue = a \o b
  BY DEF write_statefile_dinoex
<1> HIDE DEF a, b
<1>5. m.main \o m.idle \in Seq(QueueItem)
  BY <1>2, JoinedIndex
<1> QED BY <1>2, <1>3, <1>4, <1>5, LikeJoined

\* The packs that are read, before those that are not complete go.
Kept(p, q, c, d) ==
  /\ \A f \in Tags \ {"MINSPEED", "MAXSPEED", "DLIMIT_USED"} : q[f] = p[f]
  /\ q.MINSPEED = IF p.MINSPEED \notin {0, c.mins} THEN p.MINSPEED ELSE d.mins
  /\ q.MAXSPEED = IF p.MAXSPEED \notin {0, c.maxs} THEN p.MAXSPEED ELSE d.maxs
  /\ p.DLIMIT_MAX # 0 => q.DLIMIT_USED = p.DLIMIT_USED
ListRead(d) == [i \in DOMAIN items.packs |-> ReadPack(Blank(d), items.packs[i])]
LEMMA PacksRead ==
  ASSUME ItemsInv, NEW d \in Conf
  PROVE  /\ ListRead(d) \in Seq(PackItems) /\ DOMAIN ListRead(d) = DOMAIN wasSaved.mem.packs
         /\ Len(ListRead(d)) = Len(wasSaved.mem.packs)
         /\ \A i \in DOMAIN ListRead(d) : Kept(wasSaved.mem.packs[i], ListRead(d)[i], wasSaved.conf, d)
<1> DEFINE l == wasSaved.mem.packs
           c == wasSaved.conf
           r == ListRead(d)
<1>1. l \in Seq(PackItems) /\ c \in Conf
  BY DEF ItemsInv, Consistent, Memory
<1>2. items.packs = [i \in DOMAIN l |-> write_statefile_xdccs(l[i], c)]
  BY DEF ItemsInv, write_statefile_dinoex
<1>3. r = [i \in DOMAIN l |-> ReadPack(Blank(d), write_statefile_xdccs(l[i], c))]
  BY <1>2 DEF ListRead
<1> HIDE DEF l, c, r
<1>4. DOMAIN l = 1..Len(l) /\ Len(l) \in Nat /\ \A i \in DOMAIN l : l[i] \in PackItems
  BY <1>1
<1>5. ASSUME NEW i \in DOMAIN l PROVE r[i] \in PackItems /\ Kept(l[i], r[i], c, d)
  <2>1. l[i] \in PackItems /\ r[i] = ReadPack(Blank(d), write_statefile_xdccs(l[i], c))
    BY <1>3, <1>4
  <2> QED BY <1>1, <2>1, PackRead DEF Kept
<1>6. r \in [1..Len(l) -> PackItems] /\ DOMAIN r = DOMAIN l
  BY <1>3, <1>4, <1>5
<1>7. r \in Seq(PackItems) /\ Len(r) = Len(l)
  BY <1>4, <1>6
<1> QED BY <1>5, <1>6, <1>7 DEF r, l, c

\* What a start reads is in order again, whatever has been left out.
LEMMA StartReads ==
  ASSUME ItemsInv, NEW d \in Conf
  PROVE  Consistent(RestoredItems(d)) /\ RestoredItems(d).used = wasSaved.mem.used
<1> DEFINE r == ListRead(d)
           K == {i \in DOMAIN r : Complete(r[i])}
           packs == Keep(r, K)
           KQ == {k \in DOMAIN items.queue : items.queue[k].pack \in DOMAIN packs}
           known == Keep(items.queue, KQ)
           queue == read_statefile_queue(packs, d)
           m == RestoredItems(d)
           saved == wasSaved.mem
<1>1. r \in Seq(PackItems) /\ Consistent(saved) /\ d.idle \in Nat
  BY PacksRead, ItemsAssumption DEF ItemsInv
<1>2. ReadPacks(d) = packs
  BY DEF ReadPacks, ListRead
<1>3. packs \in Seq(PackItems) /\ \A i \in DOMAIN packs : packs[i].FILE # 0
  <2>1. K \subseteq DOMAIN r
    OBVIOUS
  <2>2. packs \in Seq({r[i] : i \in K}) /\ packs \in Seq(PackItems)
    <3> HIDE DEF K, r
    <3> QED BY <1>1, <2>1, KeepType
  <2>3. \A p \in {r[i] : i \in K} : p.FILE # 0
    BY DEF Complete
  <2> HIDE DEF packs, K, r
  <2> QED BY <2>2, <2>3
<1>4. items.queue \in Seq(OneOf(saved))
  BY <1>1, QueueWritten DEF ItemsInv, Like
<1> HIDE DEF packs, saved
<1>5. known \in Seq({items.queue[k] : k \in KQ})
  <2>1. KQ \subseteq DOMAIN items.queue
    OBVIOUS
  <2> HIDE DEF KQ
  <2> QED BY <1>4, <2>1, KeepType
<1>6. \A e \in {items.queue[k] : k \in KQ} : e.pack \in DOMAIN packs /\ e.nick \in Asker /\ e.net \in Nat
  <2>1. \A k \in DOMAIN items.queue : items.queue[k] \in OneOf(saved)
    BY <1>4
  <2> QED BY <2>1 DEF OneOf
<1>7. \A k \in DOMAIN known : known[k].pack \in DOMAIN packs /\ known[k].nick \in Asker /\ known[k].net \in Nat
  <2> HIDE DEF known, KQ
  <2> QED BY <1>5, <1>6
<1>8. DOMAIN known = 1..Len(known) /\ Len(known) \in Nat
  BY <1>5
<1>9. queue = [k \in DOMAIN known |-> [file |-> packs[known[k].pack].FILE, nick |-> known[k].nick,
                                       net |-> IF known[k].net > d.nets THEN 0 ELSE known[k].net]]
  BY DEF read_statefile_queue
<1> HIDE DEF known, KQ, queue
<1>10. \A i \in DOMAIN packs : packs[i].FILE \in Nat
  <2>1. \A i \in DOMAIN packs : packs[i] \in PackItems
    BY <1>3
  <2> QED BY <2>1 DEF PackItems
<1>11. queue \in Seq(QueueItem) /\ Leads(queue, packs)
  <2>1. queue \in [1..Len(known) -> QueueItem]
    BY <1>7, <1>8, <1>9, <1>10 DEF QueueItem
  <2>2. queue \in Seq(QueueItem)
    BY <1>8, <2>1
  <2>3. \A k \in DOMAIN queue : queue[k].file = packs[known[k].pack].FILE /\ known[k].pack \in DOMAIN packs
    BY <1>7, <1>9
  <2> QED BY <2>2, <2>3 DEF Leads
<1>12. saved.used \in 0..(Two32 * Two32 - 1) /\ saved.used \in Nat
  <2> DEFINE w == Two32 * Two32
  <2>1. w \in Nat /\ saved.used \in 0..(w - 1)
    BY <1>1, ItemsAssumption DEF Consistent, Memory
  <2> HIDE DEF w
  <2>2. saved.used \in Nat
    BY <2>1
  <2> QED BY <2>1, <2>2 DEF w
<1>13. items.used[1] * Two32 + items.used[2] = saved.used
  <2> DEFINE u == saved.used
  <2>1. items.used = <<u \div Two32, u % Two32>>
    BY DEF ItemsInv, write_statefile_dinoex, fix_uint64, saved
  <2> HIDE DEF u
  <2>2. u \in Nat /\ Two32 \in Nat /\ Two32 > 0
    BY <1>12, ItemsAssumption DEF u
  <2>3. u = (u \div Two32) * Two32 + (u % Two32)
    BY <2>2
  <2> QED BY <2>1, <2>3 DEF u
<1>14. m = [packs |-> packs, used |-> saved.used,
            main |-> IF d.idle > 0 THEN <<>> ELSE queue, idle |-> IF d.idle > 0 THEN queue ELSE <<>>]
  BY <1>2, <1>13 DEF RestoredItems, queue
<1> HIDE DEF m
<1>15. /\ m.packs = packs /\ m.used = saved.used
       /\ m.main \in {<<>>, queue} /\ m.idle \in {<<>>, queue}
  BY <1>14
<1>16. <<>> \in Seq(QueueItem) /\ Leads(<<>>, packs)
  BY DEF Leads
<1>17. m \in Memory
  BY <1>3, <1>11, <1>12, <1>14, <1>16 DEF Memory
<1>18. Leads(m.main, packs) /\ Leads(m.idle, packs)
  BY <1>11, <1>15, <1>16
<1> QED BY <1>3, <1>15, <1>17, <1>18 DEF Consistent, m, saved

\* A start.
LEMMA StartKeeps ==
  ASSUME ItemsInv, NEW d \in Conf, ItemsStart(d)
  PROVE  ItemsInv'
<1>1. alive' = TRUE /\ settings' = d /\ memory' = RestoredItems(d) /\ UNCHANGED <<items, wasSaved>>
  BY DEF ItemsStart
<1> QED BY <1>1, StartReads DEF ItemsInv

\* If no pack has an empty description nothing is left out.
LEMMA StartFinds ==
  ASSUME ItemsInv, NEW d \in Conf, ItemsStart(d)
  PROVE  KeptAtStart
<1> DEFINE w == wasSaved.mem
           r == ListRead(d)
           K == {i \in DOMAIN r : Complete(r[i])}
           both == w.main \o w.idle
           q == items.queue
           KQ == {k \in DOMAIN q : q[k].pack \in DOMAIN r}
           queue == read_statefile_queue(r, d)
<1> SUFFICES ASSUME \A i \in DOMAIN w.packs : w.packs[i].DESC # 0
             PROVE  /\ memory'.used = w.used /\ Same(w.packs, memory'.packs, SamePack)
                    /\ Same(both, memory'.main \o memory'.idle, SameRequest)
  BY DEF KeptAtStart
<1>1. memory' = RestoredItems(d) /\ settings' = d
  BY DEF ItemsStart
<1>2. /\ r \in Seq(PackItems) /\ DOMAIN r = DOMAIN w.packs /\ Len(r) = Len(w.packs)
      /\ \A i \in DOMAIN r : Kept(w.packs[i], r[i], wasSaved.conf, d)
  BY PacksRead
<1>3. w.packs \in Seq(PackItems) /\ Consistent(w)
  BY DEF ItemsInv, Consistent, Memory
<1>4. both \in Seq(QueueItem) /\ Like(w, q, both)
  <2>1. q = write_statefile_dinoex(w, wasSaved.conf).queue
    BY DEF ItemsInv
  <2> HIDE DEF w, q
  <2> QED BY <1>3, <2>1, QueueWritten
<1>5. K = DOMAIN r
  <2>1. \A i \in DOMAIN r : r[i].FILE = w.packs[i].FILE /\ r[i].DESC = w.packs[i].DESC
    BY <1>2 DEF Kept, Tags
  <2>2. \A i \in DOMAIN r : w.packs[i].FILE # 0 /\ w.packs[i].DESC # 0
    BY <1>2, <1>3 DEF Consistent
  <2> HIDE DEF r
  <2> QED BY <2>1, <2>2 DEF Complete
<1>6. ReadPacks(d) = Keep(r, K)
  BY DEF ReadPacks, ListRead
<1> HIDE DEF K, r, q, w, both
<1>7. ReadPacks(d) = r
  BY <1>2, <1>5, <1>6, KeepAll
<1>8. memory'.packs = r /\ memory'.used = w.used
  <2>1. RestoredItems(d).packs = r
    BY <1>7 DEF RestoredItems
  <2> QED BY <1>1, <2>1, StartReads DEF w
<1>e. q \in Seq(OneOf(w)) /\ Len(q) = Len(both) /\ DOMAIN q = 1..Len(q) /\ Len(q) \in Nat /\ DOMAIN both = DOMAIN q
  BY <1>4 DEF Like
<1>o. \A k \in DOMAIN q : q[k].pack \in DOMAIN w.packs /\ q[k].net \in Nat
  <2>1. \A k \in DOMAIN q : q[k] \in OneOf(w)
    BY <1>e
  <2> QED BY <2>1 DEF OneOf
<1>9. KQ = DOMAIN q
  BY <1>2, <1>o
<1>10. Keep(q, KQ) = q
  BY <1>e, <1>9, KeepAll
<1>11. queue = [k \in DOMAIN q |-> [file |-> r[q[k].pack].FILE, nick |-> q[k].nick,
                                    net |-> IF q[k].net > d.nets THEN 0 ELSE q[k].net]]
  BY <1>10 DEF read_statefile_queue, q
<1> HIDE DEF KQ
<1>12. memory'.main \o memory'.idle = queue
  <2>1. \/ memory'.main = <<>> /\ memory'.idle = queue
        \/ memory'.main = queue /\ memory'.idle = <<>>
    BY <1>1, <1>7 DEF RestoredItems
  <2> DEFINE T == {queue[k] : k \in DOMAIN queue}
  <2>2. queue \in Seq(T)
    <3>1. DOMAIN queue = 1..Len(q) /\ Len(q) \in Nat
      BY <1>e, <1>11
    <3> HIDE DEF queue
    <3>2. queue = [k \in 1..Len(q) |-> queue[k]]
      BY <1>11, <3>1
    <3> QED BY <3>1, <3>2
  <2> HIDE DEF queue, T
  <2>3. queue \o <<>> = queue /\ <<>> \o queue = queue
    BY <2>2
  <2> QED BY <2>1, <2>3
<1> HIDE DEF queue
<1>13. Same(w.packs, memory'.packs, SamePack)
  <2>1. ASSUME NEW i \in DOMAIN w.packs PROVE SamePack(w.packs[i], r[i])
    <3> DEFINE p == w.packs[i]
    <3>1. p \in PackItems /\ Kept(p, r[i], wasSaved.conf, d)
      BY <1>2, <1>3
    <3>2. DOMAIN p = Tags
      BY <3>1 DEF PackItems, Tags
    <3> HIDE DEF p
    <3>3. SamePack(p, r[i])
      BY <1>1, <3>1, <3>2 DEF SamePack, SpeedKept, Kept
    <3> QED BY <3>3 DEF p
  <2> QED BY <1>2, <1>8, <2>1 DEF Same
<1>14. Same(both, queue, SameRequest)
  <2>1. DOMAIN both = DOMAIN q /\ DOMAIN queue = 1..Len(q) /\ Len(q) \in Nat
    BY <1>e, <1>11
  <2>2. Len(both) = Len(queue)
    BY <1>e, <1>11, <2>1
  <2>3. ASSUME NEW k \in DOMAIN both PROVE SameRequest(both[k], queue[k])
    <3>2. r[q[k].pack].FILE = w.packs[q[k].pack].FILE
      BY <1>2, <1>o, <2>1 DEF Kept, Tags
    <3>3. queue[k].file = both[k].file /\ queue[k].nick = both[k].nick
      BY <1>4, <1>11, <2>1, <3>2 DEF Like
    <3>4. queue[k].net = IF q[k].net > d.nets THEN 0 ELSE q[k].net
      BY <1>11, <2>1
    <3>5. q[k].net = both[k].net /\ q[k].net \in Nat /\ d.nets \in Nat
      BY <1>4, <1>o, <2>1, ItemsAssumption DEF Like
    <3> QED BY <1>1, <3>3, <3>4, <3>5 DEF SameRequest
  <2> QED BY <2>2, <2>3 DEF Same
<1> QED BY <1>8, <1>12, <1>13, <1>14
-----------------------------------------------------------------------------
(* The theorems *)

LEMMA ItemsStep ==
  ASSUME ItemsInv, [ItemsNext]_itemVars
  PROVE  ItemsInv' /\ (~alive /\ ~UNCHANGED itemVars => KeptAtStart)
<1>1. ASSUME Command PROVE ItemsInv' /\ alive
  <2>1. alive
    BY <1>1 DEF Command, ChDesc, ChNote, ChTime, ChLimitInfo, ChMins, ChMaxs, ChLimit, ChGets, ChColor, Lock, Unlock,
                LockGroup, UnlockGroup, Relock, SetField, WrittenItems
  <2> QED BY <1>1, <2>1, CommandKeeps
<1>2. ASSUME NEW n \in Asker, NEW net \in 0..1, NEW i \in DOMAIN memory.packs, Queued(n, net, memory.packs[i].FILE)
      PROVE  ItemsInv' /\ alive
  BY <1>2, QueuedKeeps DEF Queued, Unwritten
<1>3. ASSUME NEW i \in DOMAIN memory.packs, NEW bytes \in Bytes, Downloaded(i, bytes) PROVE ItemsInv' /\ alive
  BY <1>3, DownloadedKeeps DEF Downloaded, Unwritten
<1>4. ASSUME reset_download_limits PROVE ItemsInv' /\ alive
  BY <1>4, ResetKeeps DEF reset_download_limits, Unwritten
<1>5. ASSUME SaveItems PROVE ItemsInv' /\ alive
  <2>1. WrittenItems(memory) /\ alive
    BY <1>5 DEF SaveItems, WrittenItems
  <2> QED BY <2>1, WrittenKeeps DEF ItemsInv
<1>6. ASSUME ItemsExit \/ ItemsCrash PROVE ItemsInv' /\ alive
  BY <1>6, EndKeeps DEF ItemsExit, ItemsCrash, Ends
<1>7. ASSUME NEW c \in Conf, RehashSpeeds(c) PROVE ItemsInv' /\ alive
  BY <1>7, RehashKeeps DEF RehashSpeeds
<1>8. ASSUME NEW c \in Conf, ItemsStart(c) PROVE ItemsInv' /\ KeptAtStart
  BY <1>8, StartKeeps, StartFinds
<1>9. ASSUME UNCHANGED itemVars PROVE ItemsInv'
  BY <1>9 DEF itemVars, ItemsInv
<1> QED BY <1>1, <1>2, <1>3, <1>4, <1>5, <1>6, <1>7, <1>8, <1>9 DEF ItemsNext

LEMMA ItemsFirst ==
  ASSUME ItemsInit
  PROVE  ItemsInv
<1> DEFINE l == [i \in 1..2 |-> [Blank(settings) EXCEPT !.FILE = i, !.DESC = 1]]
<1>1. settings \in Conf /\ Blank(settings) \in PackItems
  BY BlankIs DEF ItemsInit
<1>2. \A i \in 1..2 : [Blank(settings) EXCEPT !.FILE = i, !.DESC = 1] \in PackItems
  <2> DEFINE b == Blank(settings)
  <2> HIDE DEF b
  <2>1. b \in PackItems /\ 1 \in Text
    BY <1>1 DEF b, Text
  <2>2. \A i \in 1..2 : [b EXCEPT !.FILE = i, !.DESC = 1] \in PackItems
    <3> SUFFICES ASSUME NEW i \in 1..2 PROVE [b EXCEPT !.FILE = i, !.DESC = 1] \in PackItems
      OBVIOUS
    <3>1. i \in Nat
      OBVIOUS
    <3> QED BY <2>1, <3>1 DEF PackItems
  <2> QED BY <2>2 DEF b
<1>3. l \in Seq(PackItems) /\ \A i \in DOMAIN l : l[i].FILE # 0
  <2>1. l \in [1..2 -> PackItems] /\ DOMAIN l = 1..2
    BY <1>2
  <2>2. \A i \in 1..2 : l[i].FILE = i
    BY <1>1 DEF PackItems
  <2> HIDE DEF l
  <2>3. l \in Seq(PackItems)
    BY <2>1
  <2> QED BY <2>1, <2>2, <2>3
<1>4. memory = [packs |-> l, main |-> <<>>, idle |-> <<>>, used |-> 0]
  BY DEF ItemsInit
<1> HIDE DEF l
<1>5. 0 \in 0..(Two32 * Two32 - 1)
  <2>1. Two32 * Two32 \in Nat /\ Two32 * Two32 > 0
    BY ItemsAssumption
  <2> QED BY <2>1
<1>6. Consistent(memory)
  <2>1. <<>> \in Seq(QueueItem)
    OBVIOUS
  <2>2. memory \in Memory
    BY <1>3, <1>4, <1>5, <2>1 DEF Memory
  <2> QED BY <1>3, <1>4, <2>2 DEF Consistent, Leads
<1>7. alive = TRUE /\ wasSaved = [mem |-> memory, conf |-> settings] /\ items = write_statefile_dinoex(memory, settings)
  BY DEF ItemsInit
<1> QED BY <1>1, <1>6, <1>7 DEF ItemsInv

\* What the file holds is what was written last, every pack has a file and every request
\* leads to a pack, through commands, users, REHASH, crashes and starts.
THEOREM ItemsInvariant == ItemsSpec => [](ItemsInv /\ ItemsTypeOK)
<1>1. ItemsInit => ItemsInv
  BY ItemsFirst
<1>2. ItemsInv /\ [ItemsNext]_itemVars => ItemsInv'
  BY ItemsStep
<1>3. ItemsInv => ItemsTypeOK
  <2> SUFFICES ASSUME ItemsInv PROVE ItemsTypeOK
    OBVIOUS
  <2>1. /\ memory.packs \in Seq(PackItems) /\ memory.main \in Seq(QueueItem) /\ memory.idle \in Seq(QueueItem)
        /\ memory.used \in 0..(Two32 * Two32 - 1)
    BY DEF ItemsInv, Consistent, Memory
  <2>2. alive \/ memory.packs = <<>>
    BY DEF ItemsInv
  <2> QED BY <2>1, <2>2 DEF ItemsInv, ItemsTypeOK
<1> QED BY <1>1, <1>2, <1>3, PTL DEF ItemsSpec

\* A start finds the packs, the requests and the use of the limits as they were saved.
THEOREM KeptOverStartHolds == ItemsSpec => KeptOverStart
<1>1. ItemsInv /\ [ItemsNext]_itemVars => [~alive => KeptAtStart]_itemVars
  BY ItemsStep
<1>2. KeptOverStart <=> [][~alive => KeptAtStart]_itemVars
  BY DEF KeptOverStart
<1> QED BY <1>1, <1>2, ItemsInvariant, PTL DEF ItemsSpec
=============================================================================
