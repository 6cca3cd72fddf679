---------------------------- MODULE PacksProofs ----------------------------
(***************************************************************************)
(* What holds of the list of packs for any number of packs, groups, files, *)
(* requests and commands: GroupDescFirst, PacksKnown, Md5True, DescKept.   *)
(*                                                                         *)
(* A list is regular if pointers are unique and of a group no pack but the *)
(* first has a description.  Most commands only reorder the list or change *)
(* groups: what else is kept of the packs (Cores) stays.  A group is bare  *)
(* if it has packs and no description.                                     *)
(***************************************************************************)
EXTENDS Packs, QueuesTheorems

\* What requests, triggers and checksums need to know of a pack.
Core(p) == [id |-> p.id, file |-> p.file, seen |-> p.seen, trigger |-> p.trigger, md5 |-> p.md5]
Cores(l) == {Core(l[i]) : i \in DOMAIN l}
CoreRecord == [id : Nat, file : Path, seen : 0..(2 * Inodes), trigger : BOOLEAN, md5 : 0..Mixed]

Unique(l) == \A i, j \in DOMAIN l : l[i].id = l[j].id => i = j
\* Of the groups of G.
DescFirst(l, G) ==
  \A i, j \in DOMAIN l : i < j /\ l[i].group = l[j].group /\ l[j].group \in G => l[j].desc = FALSE
Regular(l) == l \in Seq(Pack) /\ Unique(l) /\ DescFirst(l, 1..Groups)
\* The groups that have packs, and those that have a description.
Used(l) == {g \in 1..Groups : InGroup(l, g) # {}}
Said(l) == {g \in 1..Groups : HasDesc(l, g)}
Bare(l) == Used(l) \ Said(l)

\* r is l with other groups and descriptions.
Regrouped(l, r) == r \in Seq(Pack) /\ DOMAIN r = DOMAIN l /\ \A i \in DOMAIN l : Core(r[i]) = Core(l[i])
-----------------------------------------------------------------------------
(* Packs *)

\* The constants, as numbers.
LEMMA Sizes ==
  /\ Files \in Nat /\ Files # 0 /\ Inodes \in Nat /\ Inodes # 0 /\ Groups \in Nat /\ Groups # 0
  /\ autoadd_group \in 0..Groups
<1>1. {Files, Inodes, Groups} \subseteq Nat \ {0} /\ autoadd_group \in 0..Groups
  BY PacksAssumption
<1>2. Files \in {Files, Inodes, Groups} /\ Inodes \in {Files, Inodes, Groups} /\ Groups \in {Files, Inodes, Groups}
  OBVIOUS
<1>3. Files \in Nat \ {0} /\ Inodes \in Nat \ {0} /\ Groups \in Nat \ {0}
  BY <1>1, <1>2
<1> QED BY <1>1, <1>3

\* The parts of a pack, and of its core.
LEMMA PackFields ==
  ASSUME NEW p \in Pack
  PROVE  /\ p.id \in Nat /\ p.file \in Path /\ p.seen \in 0..(2 * Inodes) /\ p.group \in 0..Groups
         /\ p.desc \in BOOLEAN /\ p.trigger \in BOOLEAN /\ p.md5 \in 0..Mixed
         /\ Core(p) \in CoreRecord
         /\ Core(p).id = p.id /\ Core(p).file = p.file /\ Core(p).seen = p.seen /\ Core(p).trigger = p.trigger
         /\ Core(p).md5 = p.md5
<1>1. p.id \in Nat /\ p.file \in Path /\ p.seen \in 0..(2 * Inodes) /\ p.group \in 0..Groups
      /\ p.desc \in BOOLEAN /\ p.trigger \in BOOLEAN /\ p.md5 \in 0..Mixed
  BY DEF Pack
<1> QED BY <1>1 DEF Core, CoreRecord

\* A pack that gets another description.
LEMMA PackSaid ==
  ASSUME NEW p \in Pack, NEW d \in BOOLEAN
  PROVE  /\ [p EXCEPT !.desc = d] \in Pack /\ Core([p EXCEPT !.desc = d]) = Core(p)
         /\ [p EXCEPT !.desc = d].group = p.group /\ [p EXCEPT !.desc = d].desc = d
<1> DEFINE a == [p EXCEPT !.desc = d]
<1>1. /\ a \in Pack /\ a.id = p.id /\ a.file = p.file /\ a.seen = p.seen /\ a.trigger = p.trigger /\ a.md5 = p.md5
      /\ a.group = p.group /\ a.desc = d
  BY DEF Pack
<1> HIDE DEF a
<1> QED BY <1>1 DEF Core, a

\* A pack that gets another group.
LEMMA PackGroup ==
  ASSUME NEW p \in Pack, NEW g \in 0..Groups
  PROVE  /\ [p EXCEPT !.group = g] \in Pack /\ Core([p EXCEPT !.group = g]) = Core(p)
         /\ [p EXCEPT !.group = g].group = g /\ [p EXCEPT !.group = g].desc = p.desc
<1> DEFINE b == [p EXCEPT !.group = g]
<1>1. /\ b \in Pack /\ b.id = p.id /\ b.file = p.file /\ b.seen = p.seen /\ b.trigger = p.trigger /\ b.md5 = p.md5
      /\ b.group = g /\ b.desc = p.desc
  BY DEF Pack
<1> HIDE DEF b
<1> QED BY <1>1 DEF Core, b

\* The positions of a list and what stands there.
LEMMA ListFields ==
  ASSUME NEW l \in Seq(Pack)
  PROVE  /\ DOMAIN l = 1..Len(l) /\ Len(l) \in Nat /\ DOMAIN l \subseteq Nat
         /\ \A i \in DOMAIN l : l[i] \in Pack
         /\ Cores(l) \subseteq CoreRecord
<1>1. \A i \in DOMAIN l : l[i] \in Pack
  OBVIOUS
<1>2. \A i \in DOMAIN l : Core(l[i]) \in CoreRecord
  BY <1>1, PackFields
<1> QED BY <1>1, <1>2 DEF Cores

\* Lists of the same length and form.
LEMMA RegroupedSame ==
  ASSUME NEW l \in Seq(Pack), NEW r, Regrouped(l, r)
  PROVE  /\ r \in Seq(Pack) /\ DOMAIN r = DOMAIN l /\ Len(r) = Len(l) /\ Cores(r) = Cores(l) /\ (Unique(l) => Unique(r))
         /\ \A i \in DOMAIN l : r[i].id = l[i].id
<1>1. r \in Seq(Pack) /\ DOMAIN r = DOMAIN l /\ \A i \in DOMAIN l : Core(r[i]) = Core(l[i])
  BY DEF Regrouped
<1>2. Len(r) = Len(l)
  BY <1>1, SameDomain
<1>3. \A i \in DOMAIN l : l[i] \in Pack /\ r[i] \in Pack
  BY <1>1, ListFields
<1>4. \A i \in DOMAIN l : r[i].id = l[i].id
  <2> SUFFICES ASSUME NEW i \in DOMAIN l PROVE r[i].id = l[i].id
    OBVIOUS
  <2>1. Core(r[i]).id = r[i].id /\ Core(l[i]).id = l[i].id /\ Core(r[i]) = Core(l[i])
    BY <1>1, <1>3, PackFields
  <2> QED BY ONLY <2>1
<1>5. Cores(r) = Cores(l)
  BY <1>1 DEF Cores
<1> QED BY <1>1, <1>2, <1>4, <1>5 DEF Unique

\* Two changes of groups are one.
LEMMA RegroupedAgain ==
  ASSUME NEW l, NEW r, NEW s, Regrouped(l, r), Regrouped(r, s)
  PROVE  Regrouped(l, s)
BY DEF Regrouped

\* One pack changes its group and description.
LEMMA RegroupOne ==
  ASSUME NEW l \in Seq(Pack), NEW i \in DOMAIN l, NEW p \in Pack, Core(p) = Core(l[i])
  PROVE  /\ Regrouped(l, [l EXCEPT ![i] = p]) /\ [l EXCEPT ![i] = p][i] = p
         /\ \A j \in DOMAIN l : j # i => [l EXCEPT ![i] = p][j] = l[j]
<1> DEFINE r == [l EXCEPT ![i] = p]
<1>1. r \in Seq(Pack) /\ DOMAIN r = DOMAIN l /\ r[i] = p /\ \A j \in DOMAIN l : j # i => r[j] = l[j]
  OBVIOUS
<1> HIDE DEF r
<1>2. \A j \in DOMAIN l : Core(r[j]) = Core(l[j])
  BY <1>1
<1> QED BY <1>1, <1>2 DEF Regrouped, r

\* The list of a group.
LEMMA GroupOf ==
  ASSUME NEW l \in Seq(Pack), NEW g
  PROVE  /\ InGroup(l, g) \subseteq DOMAIN l /\ InGroup(l, g) \subseteq Nat
         /\ \A i \in DOMAIN l : i \in InGroup(l, g) <=> l[i].group = g
         /\ HasDesc(l, g) <=> \E i \in DOMAIN l : l[i].group = g /\ l[i].desc
         /\ InGroup(l, g) # {} => /\ First(InGroup(l, g)) \in InGroup(l, g)
                                  /\ \A j \in InGroup(l, g) : First(InGroup(l, g)) <= j
<1>1. InGroup(l, g) \subseteq DOMAIN l /\ InGroup(l, g) \subseteq Nat
  BY DEF InGroup
<1>2. \A i \in DOMAIN l : i \in InGroup(l, g) <=> l[i].group = g
  BY DEF InGroup
<1>3. HasDesc(l, g) <=> \E i \in DOMAIN l : l[i].group = g /\ l[i].desc
  BY <1>1, <1>2 DEF HasDesc
<1>4. InGroup(l, g) # {} => /\ First(InGroup(l, g)) \in InGroup(l, g)
                            /\ \A j \in InGroup(l, g) : First(InGroup(l, g)) <= j
  BY <1>1, FirstType
<1> QED BY <1>1, <1>2, <1>3, <1>4
-----------------------------------------------------------------------------
(* The description of a group *)

\* The first pack of the group gets the description, or loses it, and no other has one.
LEMMA Reordered ==
  ASSUME NEW l \in Seq(Pack), NEW g \in 1..Groups, NEW d \in BOOLEAN
  PROVE  LET r == reorder_new_groupdesc(l, g, d)
         IN /\ Regrouped(l, r) /\ \A i \in DOMAIN l : r[i].group = l[i].group
            /\ DescFirst(l, (1..Groups) \ {g}) => DescFirst(r, 1..Groups)
            /\ \A i \in DOMAIN l : l[i].group # g => r[i] = l[i]
            /\ Used(r) = Used(l) /\ Said(r) \ {g} = Said(l) \ {g}
            /\ d = TRUE => Said(r) = Said(l) \cup ({g} \cap Used(l))
<1> DEFINE r == reorder_new_groupdesc(l, g, d)
           K == InGroup(l, g)
           o == First(K)
<1>1. /\ K \subseteq DOMAIN l /\ \A i \in DOMAIN l : i \in K <=> l[i].group = g
      /\ K # {} => o \in K
  BY GroupOf
<1>2. DOMAIN l = 1..Len(l) /\ Len(l) \in Nat /\ \A i \in DOMAIN l : l[i] \in Pack
  BY ListFields
<1>3. DOMAIN r = DOMAIN l /\ \A i \in DOMAIN l : r[i] = IF i \in K THEN [l[i] EXCEPT !.desc = d /\ i = o] ELSE l[i]
  BY DEF reorder_new_groupdesc
<1> HIDE DEF K, o
<1>4. ASSUME NEW i \in DOMAIN l
      PROVE  /\ r[i] \in Pack /\ Core(r[i]) = Core(l[i]) /\ r[i].group = l[i].group /\ (l[i].group # g => r[i] = l[i])
             /\ l[i].group = g => r[i].desc = (d /\ i = o)
  <2> DEFINE x == d /\ i = o
  <2>1. l[i] \in Pack /\ l[i].group \in 0..Groups /\ x \in BOOLEAN
    BY <1>2, PackFields
  <2>2. r[i] = IF i \in K THEN [l[i] EXCEPT !.desc = x] ELSE l[i]
    BY <1>3
  <2> HIDE DEF r, x
  <2>3. [l[i] EXCEPT !.desc = x] \in Pack /\ Core([l[i] EXCEPT !.desc = x]) = Core(l[i])
        /\ [l[i] EXCEPT !.desc = x].group = l[i].group /\ [l[i] EXCEPT !.desc = x].desc = x
    BY <2>1, PackSaid
  <2> QED BY <1>1, <2>1, <2>2, <2>3 DEF x
<1>5. r \in Seq(Pack)
  <2>1. r = [i \in 1..Len(l) |-> r[i]]
    BY <1>2 DEF reorder_new_groupdesc
  <2> HIDE DEF r
  <2> QED BY <1>2, <1>4, <2>1
<1> HIDE DEF r
<1>6. Regrouped(l, r)
  BY <1>3, <1>4, <1>5 DEF Regrouped
<1>7. ASSUME DescFirst(l, (1..Groups) \ {g}) PROVE DescFirst(r, 1..Groups)
  <2> SUFFICES ASSUME NEW i \in DOMAIN l, NEW j \in DOMAIN l, i < j, r[i].group = r[j].group, r[j].group \in 1..Groups
               PROVE r[j].desc = FALSE
    BY <1>3 DEF DescFirst
  <2>1. l[i].group = l[j].group /\ l[j].group \in 1..Groups
    BY <1>4
  <2>2. CASE l[j].group = g
    <3>1. i \in K /\ j \in K
      BY <1>1, <2>1, <2>2
    <3>2. o <= i /\ o \in Nat /\ i \in Nat /\ j \in Nat
      <4>1. \A k \in K : o <= k
        BY <3>1, GroupOf DEF K, o
      <4> QED BY <1>1, <1>2, <3>1, <4>1
    <3>3. j # o /\ d \in BOOLEAN
      BY <3>2
    <3>4. r[j].desc = (d /\ j = o)
      BY <1>4, <2>2
    <3>5. (d /\ j = o) = FALSE
      BY ONLY <3>3, Zenon
    <3> QED BY <3>4, <3>5
  <2>3. CASE l[j].group # g
    <3>1. r[j] = l[j]
      BY <1>4, <2>3
    <3>2. l[j].group \in (1..Groups) \ {g}
      BY <2>1, <2>3
    <3> QED BY <1>7, <2>1, <3>1, <3>2 DEF DescFirst
  <2> QED BY <2>2, <2>3
<1>8. \A h : (InGroup(r, h) # {} <=> InGroup(l, h) # {}) /\ (h # g => (HasDesc(r, h) <=> HasDesc(l, h)))
  BY <1>3, <1>4 DEF InGroup, HasDesc
<1>9. Used(r) = Used(l) /\ Said(r) \ {g} = Said(l) \ {g}
  BY <1>8 DEF Used, Said
<1>10. ASSUME d = TRUE PROVE Said(r) = Said(l) \cup ({g} \cap Used(l))
  <2>1. ASSUME K # {} PROVE g \in Said(r)
    <3>1. o \in DOMAIN l /\ l[o].group = g
      BY <1>1, <2>1
    <3>2. r[o].group = g /\ r[o].desc = TRUE
      BY <1>4, <1>10, <3>1
    <3> QED BY <1>3, <3>1, <3>2 DEF Said, HasDesc, InGroup
  <2>2. ASSUME K = {} PROVE g \notin Said(r) /\ g \notin Said(l)
    BY <1>8, <2>2 DEF Said, HasDesc, K
  <2>3. g \in Used(l) <=> K # {}
    BY DEF Used, K
  <2> QED BY <1>9, <2>1, <2>2, <2>3
<1> QED BY <1>4, <1>6, <1>7, <1>9, <1>10 DEF r
\* Which groups have packs and descriptions shows in the packs.
LEMMA UsedSaid ==
  ASSUME NEW l \in Seq(Pack)
  PROVE  /\ \A g \in 1..Groups : g \in Used(l) <=> \E p \in Elems(l) : p.group = g
         /\ \A g \in 1..Groups : g \in Said(l) <=> \E p \in Elems(l) : p.group = g /\ p.desc = TRUE
         /\ Cores(l) = {Core(p) : p \in Elems(l)} /\ IdsOf(l) = {c.id : c \in Cores(l)}
         /\ Said(l) \subseteq Used(l) /\ Used(l) \subseteq 1..Groups
<1>1. \A i \in DOMAIN l : l[i] \in Pack /\ l[i].desc \in BOOLEAN /\ Core(l[i]).id = l[i].id
  BY ListFields, PackFields
<1>2. Cores(l) = {Core(p) : p \in Elems(l)}
  BY DEF Cores, Elems
<1>3. \A g \in 1..Groups : g \in Used(l) <=> \E p \in Elems(l) : p.group = g
  BY DEF Used, Elems, InGroup
<1>4. \A g \in 1..Groups : g \in Said(l) <=> \E p \in Elems(l) : p.group = g /\ p.desc = TRUE
  BY <1>1, GroupOf DEF Said, Elems
<1>5. Said(l) \subseteq Used(l) /\ Used(l) \subseteq 1..Groups
  BY DEF Used, Said, HasDesc
<1>6. IdsOf(l) = {c.id : c \in Cores(l)}
  BY <1>1 DEF IdsOf, Cores
<1> QED BY <1>2, <1>3, <1>4, <1>5, <1>6

\* If a group has descriptions its first pack gets one.
LEMMA Refirst ==
  ASSUME NEW l \in Seq(Pack), NEW g \in 0..Groups, DescFirst(l, (1..Groups) \ {g})
  PROVE  LET r == reorder_groupdesc(l, g)
         IN /\ Regrouped(l, r) /\ DescFirst(r, 1..Groups) /\ Used(r) = Used(l) /\ Said(r) = Said(l)
            /\ \A i \in DOMAIN l : r[i].group = l[i].group
<1> DEFINE r == reorder_groupdesc(l, g)
<1>0. Regrouped(l, l)
  BY DEF Regrouped
<1>1. CASE g = 0
  <2>1. r = l
    BY <1>1 DEF reorder_groupdesc
  <2>2. (1..Groups) \ {g} = 1..Groups
    BY <1>1, Sizes
  <2> HIDE DEF r
  <2> QED BY <1>0, <2>1, <2>2 DEF r
<1>2. CASE g # 0 /\ ~HasDesc(l, g)
  <2>1. r = l
    BY <1>2 DEF reorder_groupdesc
  <2>2. DescFirst(l, 1..Groups)
    <3> SUFFICES ASSUME NEW i \in DOMAIN l, NEW j \in DOMAIN l, i < j, l[i].group = l[j].group, l[j].group \in 1..Groups
                 PROVE l[j].desc = FALSE
      BY DEF DescFirst
    <3>1. CASE l[j].group = g
      <4>1. ~l[j].desc
        BY <1>2, <3>1, GroupOf
      <4>2. l[j].desc \in BOOLEAN
        BY ListFields, PackFields
      <4> QED BY <4>1, <4>2
    <3>2. CASE l[j].group # g
      BY <3>2 DEF DescFirst
    <3> QED BY <3>1, <3>2
  <2> HIDE DEF r
  <2> QED BY <1>0, <2>1, <2>2 DEF r
<1>3. CASE g # 0 /\ HasDesc(l, g)
  <2>1. r = reorder_new_groupdesc(l, g, TRUE)
    BY <1>3 DEF reorder_groupdesc
  <2>2. g \in 1..Groups
    BY <1>3, Sizes
  <2> HIDE DEF r
  <2>3. /\ Regrouped(l, r) /\ DescFirst(r, 1..Groups) /\ Used(r) = Used(l) /\ Said(r) = Said(l) \cup ({g} \cap Used(l))
        /\ \A i \in DOMAIN l : r[i].group = l[i].group
    <3>1. LET s == reorder_new_groupdesc(l, g, TRUE) IN
          /\ Regrouped(l, s) /\ \A i \in DOMAIN l : s[i].group = l[i].group
          /\ DescFirst(l, (1..Groups) \ {g}) => DescFirst(s, 1..Groups)
          /\ Used(s) = Used(l) /\ Said(s) = Said(l) \cup ({g} \cap Used(l))
      BY <2>2, Reordered
    <3> QED BY <2>1, <3>1
  <2>4. g \in Said(l)
    BY <1>3, <2>2 DEF Said
  <2> QED BY <2>3, <2>4 DEF r
<1> QED BY <1>1, <1>2, <1>3

\* A group of one pack is described.
LEMMA Default ==
  ASSUME NEW l, Regular(l), NEW g \in 1..Groups
  PROVE  LET r == add_default_groupdesc(l, g)
         IN /\ Regrouped(l, r) /\ Regular(r) /\ Used(r) = Used(l) /\ Said(l) \subseteq Said(r)
            /\ \A i \in DOMAIN l : InGroup(l, g) = {i} => g \in Said(r)
<1> DEFINE r == add_default_groupdesc(l, g)
<1>0. l \in Seq(Pack) /\ Unique(l) /\ DescFirst(l, 1..Groups) /\ DescFirst(l, (1..Groups) \ {g})
  BY DEF Regular, DescFirst
<1>1. CASE Cardinality(InGroup(l, g)) # 1
  <2>1. r = l
    BY <1>1 DEF add_default_groupdesc
  <2>2. \A i \in DOMAIN l : InGroup(l, g) # {i}
    BY <1>1, FS_Singleton
  <2> HIDE DEF r
  <2> QED BY <1>0, <2>1, <2>2 DEF r, Regrouped, Regular
<1>2. CASE Cardinality(InGroup(l, g)) = 1
  <2>1. r = reorder_new_groupdesc(l, g, TRUE)
    BY <1>2 DEF add_default_groupdesc
  <2> HIDE DEF r
  <2>2. /\ Regrouped(l, r) /\ DescFirst(r, 1..Groups) /\ Used(r) = Used(l) /\ Said(r) = Said(l) \cup ({g} \cap Used(l))
    BY <1>0, <2>1, Reordered
  <2>3. r \in Seq(Pack) /\ Unique(r)
    BY <1>0, <2>2, RegroupedSame
  <2>4. ASSUME NEW i \in DOMAIN l, InGroup(l, g) = {i} PROVE g \in Said(r)
    BY <2>2, <2>4 DEF Used
  <2> QED BY <2>2, <2>3, <2>4 DEF r, Regular
<1> QED BY <1>1, <1>2

\* A pack leaves its group.
LEMMA Left ==
  ASSUME NEW l, Regular(l), NEW i \in DOMAIN l
  PROVE  LET r == LeaveGroup(l, i)
         IN /\ Regrouped(l, r) /\ Regular(r) /\ Bare(r) \subseteq Bare(l) /\ r[i].group = 0
<1> DEFINE r == LeaveGroup(l, i)
           p == l[i]
           a == l[i].group
           q == [[p EXCEPT !.group = 0] EXCEPT !.desc = FALSE]
           out == [l EXCEPT ![i] = q]
<1>0. l \in Seq(Pack) /\ Unique(l) /\ DescFirst(l, 1..Groups) /\ p \in Pack /\ a \in 0..Groups /\ p.desc \in BOOLEAN
  BY ListFields, PackFields DEF Regular
<1>1. CASE a = 0
  <2>1. r = l
    BY <1>1 DEF LeaveGroup
  <2> HIDE DEF r
  <2> QED BY <1>0, <1>1, <2>1 DEF r, Regrouped
<1>2. CASE a # 0
  <2>0. a \in 1..Groups
    BY <1>0, <1>2, Sizes
  <2>1. q \in Pack /\ Core(q) = Core(p) /\ q.group = 0 /\ q.desc = FALSE
    <3> DEFINE q1 == [p EXCEPT !.group = 0]
    <3>1. 0 \in 0..Groups /\ FALSE \in BOOLEAN
      BY Sizes
    <3>2. q1 \in Pack /\ Core(q1) = Core(p) /\ q1.group = 0
      BY <1>0, <3>1, PackGroup
    <3> HIDE DEF q1
    <3>3. [q1 EXCEPT !.desc = FALSE] \in Pack /\ Core([q1 EXCEPT !.desc = FALSE]) = Core(q1)
          /\ [q1 EXCEPT !.desc = FALSE].group = q1.group /\ [q1 EXCEPT !.desc = FALSE].desc = FALSE
      BY <3>1, <3>2, PackSaid
    <3> QED BY <3>2, <3>3 DEF q1
  <2>2. [l EXCEPT ![i].group = 0, ![i].desc = FALSE] = out
    BY <1>0
  <2>3. r = IF p.desc THEN reorder_new_groupdesc(out, a, TRUE) ELSE out
    BY <1>2, <2>2 DEF LeaveGroup
  <2> HIDE DEF q
  <2>4. Regrouped(l, out) /\ out[i] = q /\ \A j \in DOMAIN l : j # i => out[j] = l[j]
    BY <1>0, <2>1, RegroupOne
  <2> HIDE DEF out, r, a
  <2>5. out \in Seq(Pack) /\ DOMAIN out = DOMAIN l /\ Unique(out)
    BY <1>0, <2>4, RegroupedSame
  <2>6. DescFirst(out, 1..Groups)
    <3> SUFFICES ASSUME NEW j \in DOMAIN l, NEW k \in DOMAIN l, j < k, out[j].group = out[k].group, out[k].group \in 1..Groups
                 PROVE out[k].desc = FALSE
      BY <2>5 DEF DescFirst
    <3>1. 0 \notin 1..Groups
      BY Sizes
    <3>2. out[j] = l[j] /\ out[k] = l[k]
      BY <2>1, <2>4, <3>1
    <3> QED BY <1>0, <3>2 DEF DescFirst
  <2>7. \A h \in 1..Groups : h \in Used(out) => h \in Used(l)
    <3> SUFFICES ASSUME NEW h \in 1..Groups, h \in Used(out) PROVE h \in Used(l)
      OBVIOUS
    <3>1. PICK j \in DOMAIN l : out[j].group = h
      BY <2>5 DEF Used, InGroup
    <3>2. j # i
      BY <2>1, <2>4, <3>1, Sizes
    <3> QED BY <2>4, <3>1, <3>2 DEF Used, InGroup
  <2>8. \A h \in 1..Groups : h \in Said(l) /\ h \notin Said(out) => h = a /\ p.desc = TRUE
    <3> SUFFICES ASSUME NEW h \in 1..Groups, h \in Said(l), h \notin Said(out) PROVE h = a /\ p.desc = TRUE
      OBVIOUS
    <3>1. PICK j \in DOMAIN l : l[j].group = h /\ l[j].desc
      BY <1>0, GroupOf DEF Said
    <3>2. ASSUME j # i PROVE FALSE
      <4>1. out[j] = l[j]
        BY <2>4, <3>2
      <4>2. HasDesc(out, h)
        BY <2>5, <3>1, <4>1, GroupOf
      <4> QED BY <4>2 DEF Said
    <3> QED BY <1>0, <3>1, <3>2 DEF a
  <2>9. Regrouped(l, r) /\ Regular(r) /\ Bare(r) \subseteq Bare(l) /\ r[i].group = 0
    <3>1. CASE p.desc = TRUE
      <4>0. r = reorder_new_groupdesc(out, a, TRUE) /\ DescFirst(out, (1..Groups) \ {a})
        BY <2>3, <2>6, <3>1 DEF DescFirst
      <4>1. /\ Regrouped(out, r) /\ DescFirst(r, 1..Groups) /\ Used(r) = Used(out)
            /\ Said(r) = Said(out) \cup ({a} \cap Used(out)) /\ \A j \in DOMAIN out : r[j].group = out[j].group
        BY <2>0, <2>5, <4>0, Reordered
      <4>2. Regrouped(l, r)
        BY <2>4, <4>1, RegroupedAgain
      <4>3. r \in Seq(Pack) /\ Unique(r)
        BY <2>5, <4>1, RegroupedSame
      <4>4. r[i].group = 0
        BY <2>1, <2>4, <2>5, <4>1
      <4>5. Bare(r) \subseteq Bare(l)
        BY <2>7, <2>8, <4>1 DEF Bare, Used
      <4> QED BY <4>1, <4>2, <4>3, <4>4, <4>5 DEF Regular
    <3>2. CASE p.desc # TRUE
      <4>1. r = out
        BY <1>0, <2>3, <3>2
      <4>2. Bare(out) \subseteq Bare(l)
        BY <2>7, <2>8, <3>2 DEF Bare, Used
      <4> QED BY <2>1, <2>4, <2>5, <2>6, <4>1, <4>2 DEF Regular
    <3> QED BY <3>1, <3>2
  <2> QED BY <2>9 DEF r
<1> QED BY <1>1, <1>2

\* A pack joins another group, or none.
LEMMA Joined ==
  ASSUME NEW l, Regular(l), NEW i \in DOMAIN l, NEW g \in 0..Groups
  PROVE  LET r == SetGroup(l, i, g)
         IN Regrouped(l, r) /\ Regular(r) /\ Bare(r) \subseteq Bare(l)
<1> DEFINE r == SetGroup(l, i, g)
           out == LeaveGroup(l, i)
           q == [out[i] EXCEPT !.group = g]
           joined == [out EXCEPT ![i] = q]
           list == reorder_groupdesc(joined, g)
<1>1. Regrouped(l, out) /\ Regular(out) /\ Bare(out) \subseteq Bare(l) /\ out[i].group = 0
  BY Left
<1>2. CASE g = 0
  BY <1>1, <1>2 DEF SetGroup
<1>3. CASE g # 0
  <2>0. g \in 1..Groups /\ 0 \notin 1..Groups
    BY <1>3, Sizes
  <2>1. out \in Seq(Pack) /\ DOMAIN out = DOMAIN l /\ Unique(out) /\ DescFirst(out, 1..Groups)
    BY <1>1 DEF Regular, Regrouped
  <2>2. [LeaveGroup(l, i) EXCEPT ![i].group = g] = joined
    BY <2>1
  <2>3. r = add_default_groupdesc(list, g)
    BY <1>3, <2>2 DEF SetGroup
  <2> HIDE DEF out
  <2>4. q \in Pack /\ Core(q) = Core(out[i]) /\ q.group = g
    BY <2>1, ListFields, PackGroup
  <2> HIDE DEF q
  <2>5. Regrouped(out, joined) /\ joined[i] = q /\ \A j \in DOMAIN out : j # i => joined[j] = out[j]
    BY <2>1, <2>4, RegroupOne
  <2> HIDE DEF joined
  <2>6. joined \in Seq(Pack) /\ DOMAIN joined = DOMAIN l /\ Unique(joined)
    BY <2>1, <2>5, RegroupedSame
  <2>7. DescFirst(joined, (1..Groups) \ {g})
    <3> SUFFICES ASSUME NEW j \in DOMAIN l, NEW k \in DOMAIN l, j < k, joined[j].group = joined[k].group,
                        joined[k].group \in (1..Groups) \ {g}
                 PROVE joined[k].desc = FALSE
      BY <2>6 DEF DescFirst
    <3>1. joined[j] = out[j] /\ joined[k] = out[k]
      BY <2>1, <2>4, <2>5
    <3> QED BY <2>1, <3>1 DEF DescFirst
  <2>8. Regrouped(joined, list) /\ DescFirst(list, 1..Groups) /\ Used(list) = Used(joined) /\ Said(list) = Said(joined)
        /\ \A j \in DOMAIN joined : list[j].group = joined[j].group
    BY <2>6, <2>7, Refirst
  <2> HIDE DEF list
  <2>9. list \in Seq(Pack) /\ DOMAIN list = DOMAIN l /\ Regular(list)
    BY <2>6, <2>8, RegroupedSame DEF Regular
  <2>10. Regrouped(list, r) /\ Regular(r) /\ Used(r) = Used(list) /\ Said(list) \subseteq Said(r)
         /\ (InGroup(list, g) = {i} => g \in Said(r))
    BY <2>0, <2>3, <2>9, Default
  <2> HIDE DEF r
  <2>11. Regrouped(l, r)
    BY <1>1, <2>5, <2>8, <2>10, RegroupedAgain
  <2>12. \A h \in 1..Groups : h # g /\ h \in Used(joined) => h \in Used(out)
    <3> SUFFICES ASSUME NEW h \in 1..Groups, h # g, h \in Used(joined) PROVE h \in Used(out)
      OBVIOUS
    <3>1. PICK j \in DOMAIN l : joined[j].group = h
      BY <2>6 DEF Used, InGroup
    <3>2. j # i
      BY <2>4, <2>5, <3>1
    <3> QED BY <2>1, <2>5, <3>1, <3>2 DEF Used, InGroup
  <2>13. \A h \in 1..Groups : h \in Said(out) => h \in Said(joined)
    <3> SUFFICES ASSUME NEW h \in 1..Groups, h \in Said(out) PROVE h \in Said(joined)
      OBVIOUS
    <3>1. PICK j \in DOMAIN l : out[j].group = h /\ out[j].desc
      BY <2>1, GroupOf DEF Said
    <3>2. j # i /\ joined[j] = out[j]
      BY <1>1, <2>0, <2>1, <2>5, <3>1 DEF out
    <3>3. HasDesc(joined, h)
      BY <2>6, <3>1, <3>2, GroupOf
    <3> QED BY <3>3 DEF Said
  <2>14. ASSUME g \in Bare(r) PROVE g \in Bare(out)
    <3>1. InGroup(list, g) # {i} /\ g \notin Said(out)
      BY <2>8, <2>10, <2>13, <2>14 DEF Bare, Used
    <3>2. i \in InGroup(list, g)
      BY <2>4, <2>5, <2>6, <2>8, <2>9 DEF InGroup
    <3>3. PICK j \in DOMAIN l : j # i /\ list[j].group = g
      BY <2>9, <3>1, <3>2 DEF InGroup
    <3>4. out[j].group = g
      BY <2>1, <2>5, <2>6, <2>8, <3>3
    <3> QED BY <2>0, <2>1, <3>1, <3>4 DEF Bare, Used, InGroup
  <2>15. Bare(r) \subseteq Bare(out)
    BY <2>8, <2>10, <2>12, <2>13, <2>14 DEF Bare, Used
  <2> QED BY <1>1, <2>10, <2>11, <2>15 DEF r, out
<1> QED BY <1>2, <1>3
-----------------------------------------------------------------------------
(* Packs that leave the list and come into it *)

\* A pack goes.
LEMMA Without ==
  ASSUME NEW l, Regular(l), NEW i \in DOMAIN l
  PROVE  LET r == Drop(l, i)
         IN /\ Regular(r) /\ Elems(r) = Elems(l) \ {l[i]} /\ \A c : c \in Cores(r) <=> c \in Cores(l) /\ c.id # l[i].id
            /\ Used(r) \subseteq Used(l)
            /\ \A g \in 1..Groups : g \in Said(l) /\ g \notin Said(r) => l[i].group = g /\ l[i].desc = TRUE
<1> DEFINE r == Drop(l, i)
           s(j) == IF j < i THEN j ELSE j + 1
           n == Len(l)
<1>0. l \in Seq(Pack) /\ Unique(l) /\ DescFirst(l, 1..Groups) /\ DOMAIN l = 1..n /\ n \in Nat /\ i \in 1..n
  BY ListFields DEF Regular
<1>1. r \in Seq(Pack) /\ DOMAIN r = 1..(n - 1) /\ \A j \in 1..(n - 1) : r[j] = l[s(j)]
  BY <1>0, DropIndex
<1> HIDE DEF r, n
<1>2. \A j \in 1..(n - 1) : s(j) \in 1..n /\ s(j) # i
  BY <1>0
<1>3. \A j, k \in 1..(n - 1) : (j < k => s(j) < s(k)) /\ (s(j) = s(k) => j = k)
  BY <1>0
<1>4. \A k \in 1..n : k # i => \E j \in 1..(n - 1) : s(j) = k
  <2> SUFFICES ASSUME NEW k \in 1..n, k # i PROVE \E j \in 1..(n - 1) : s(j) = k
    OBVIOUS
  <2>1. CASE k < i
    <3>1. k \in 1..(n - 1) /\ s(k) = k
      BY <1>0, <2>1
    <3> QED BY ONLY <3>1
  <2>2. CASE k > i
    <3>1. k - 1 \in 1..(n - 1) /\ s(k - 1) = k
      BY <1>0, <2>2
    <3> QED BY ONLY <3>1
  <2> QED BY <1>0, <2>1, <2>2
<1> HIDE DEF s
<1>5. Unique(r)
  <2> SUFFICES ASSUME NEW j \in 1..(n - 1), NEW k \in 1..(n - 1), r[j].id = r[k].id PROVE j = k
    BY <1>1 DEF Unique
  <2>1. l[s(j)].id = l[s(k)].id /\ s(j) \in DOMAIN l /\ s(k) \in DOMAIN l
    BY <1>0, <1>1, <1>2
  <2> QED BY <1>0, <1>3, <2>1 DEF Unique
<1>6. DescFirst(r, 1..Groups)
  <2> SUFFICES ASSUME NEW j \in 1..(n - 1), NEW k \in 1..(n - 1), j < k, r[j].group = r[k].group, r[k].group \in 1..Groups
               PROVE r[k].desc = FALSE
    BY <1>1 DEF DescFirst
  <2>1. /\ s(j) < s(k) /\ s(j) \in DOMAIN l /\ s(k) \in DOMAIN l
        /\ r[j] = l[s(j)] /\ r[k] = l[s(k)]
    BY <1>0, <1>1, <1>2, <1>3
  <2> QED BY <1>0, <2>1 DEF DescFirst
<1>7. Elems(r) = Elems(l) \ {l[i]}
  <2>1. ASSUME NEW p \in Elems(r) PROVE p \in Elems(l) /\ p # l[i]
    <3>1. PICK j \in 1..(n - 1) : p = r[j]
      BY <1>1 DEF Elems
    <3>2. p = l[s(j)] /\ s(j) \in DOMAIN l /\ s(j) # i
      BY <1>0, <1>1, <1>2, <3>1
    <3>3. p # l[i]
      BY <1>0, <3>2 DEF Unique
    <3> QED BY <3>2, <3>3 DEF Elems
  <2>2. ASSUME NEW p \in Elems(l), p # l[i] PROVE p \in Elems(r)
    <3>1. PICK k \in 1..n : p = l[k]
      BY <1>0 DEF Elems
    <3>2. k # i
      BY <2>2, <3>1
    <3>3. PICK j \in 1..(n - 1) : s(j) = k
      BY <1>4, <3>2
    <3>4. p = r[j]
      BY <1>1, <3>1, <3>3
    <3> QED BY <1>1, <3>4 DEF Elems
  <2> QED BY <2>1, <2>2
<1>8. l[i] \in Elems(l) /\ \A p \in Elems(l) : p \in Pack /\ Core(p).id = p.id /\ (p.id = l[i].id => p = l[i])
  <2>1. ASSUME NEW k \in DOMAIN l PROVE l[k] \in Pack /\ Core(l[k]).id = l[k].id /\ (l[k].id = l[i].id => l[k] = l[i])
    <3>1. l[k].id = l[i].id => k = i
      BY <1>0 DEF Unique
    <3> QED BY <1>0, <3>1, ListFields, PackFields
  <2> QED BY <2>1 DEF Elems
<1>9. \A c : c \in Cores(r) <=> c \in Cores(l) /\ c.id # l[i].id
  <2>1. Cores(r) = {Core(p) : p \in Elems(r)} /\ Cores(l) = {Core(p) : p \in Elems(l)}
    BY <1>0, <1>1, UsedSaid
  <2> QED BY <1>7, <1>8, <2>1
<1>12. \A g \in 1..Groups : /\ g \in Used(l) <=> \E p \in Elems(l) : p.group = g
                            /\ g \in Said(l) <=> \E p \in Elems(l) : p.group = g /\ p.desc = TRUE
  BY <1>0, UsedSaid
<1>13. \A g \in 1..Groups : /\ g \in Used(r) <=> \E p \in Elems(r) : p.group = g
                            /\ g \in Said(r) <=> \E p \in Elems(r) : p.group = g /\ p.desc = TRUE
  BY <1>1, UsedSaid
<1>10. ASSUME NEW g \in 1..Groups, g \in Used(r) PROVE g \in Used(l)
  <2>1. PICK p \in Elems(r) : p.group = g
    BY <1>10, <1>13
  <2>2. p \in Elems(l)
    BY <1>7, <2>1
  <2> QED BY <1>12, <2>1, <2>2
<1>11. ASSUME NEW g \in 1..Groups, g \in Said(l), g \notin Said(r) PROVE l[i].group = g /\ l[i].desc = TRUE
  <2>1. PICK p \in Elems(l) : p.group = g /\ p.desc = TRUE
    BY <1>11, <1>12
  <2>2. p \notin Elems(r)
    BY <1>11, <1>13, <2>1
  <2>3. p = l[i]
    BY <1>7, <2>1, <2>2
  <2> QED BY <2>1, <2>3
<1>14. Used(r) \subseteq Used(l)
  BY <1>10 DEF Used
<1> QED BY <1>1, <1>5, <1>6, <1>7, <1>9, <1>11, <1>14 DEF r, Regular

\* A pack comes in.
LEMMA Within ==
  ASSUME NEW l, Regular(l), NEW n \in 1..(Len(l) + 1), NEW p \in Pack, p.id \notin IdsOf(l)
  PROVE  LET r == InsertAt(l, n, p)
         IN /\ r \in Seq(Pack) /\ Unique(r) /\ DescFirst(r, (1..Groups) \ {p.group})
            /\ Elems(r) = Elems(l) \cup {p} /\ Cores(r) = Cores(l) \cup {Core(p)}
            /\ DOMAIN r = 1..(Len(l) + 1) /\ r[n] = p
<1> DEFINE r == InsertAt(l, n, p)
           m == Len(l)
           s(j) == IF j < n THEN j ELSE j - 1
<1>0. l \in Seq(Pack) /\ Unique(l) /\ DescFirst(l, 1..Groups) /\ DOMAIN l = 1..m /\ m \in Nat /\ n \in 1..(m + 1)
  BY ListFields DEF Regular
<1>1. r \in Seq(Pack) /\ DOMAIN r = 1..(m + 1) /\ \A j \in 1..(m + 1) : r[j] = IF j < n THEN l[j] ELSE IF j = n THEN p ELSE l[j - 1]
  BY <1>0, InsertIndex
<1> HIDE DEF r, m
<1>2. r[n] = p /\ \A j \in 1..(m + 1) : j # n => r[j] = l[s(j)] /\ s(j) \in 1..m
  BY <1>0, <1>1
<1>3. \A j, k \in 1..(m + 1) : j # n /\ k # n => (j < k => s(j) < s(k)) /\ (s(j) = s(k) => j = k)
  BY <1>0
<1>4. \A k \in 1..m : \E j \in 1..(m + 1) : j # n /\ s(j) = k
  <2> SUFFICES ASSUME NEW k \in 1..m PROVE \E j \in 1..(m + 1) : j # n /\ s(j) = k
    OBVIOUS
  <2>1. CASE k < n
    <3>1. k \in 1..(m + 1) /\ k # n /\ s(k) = k
      BY <1>0, <2>1
    <3> QED BY ONLY <3>1
  <2>2. CASE k >= n
    <3>1. k + 1 \in 1..(m + 1) /\ k + 1 # n /\ s(k + 1) = k
      BY <1>0, <2>2
    <3> QED BY ONLY <3>1
  <2> QED BY <1>0, <2>1, <2>2
<1> HIDE DEF s
<1>5. \A k \in 1..m : l[k].id # p.id
  BY <1>0 DEF IdsOf
<1>6. Unique(r)
  <2> SUFFICES ASSUME NEW j \in 1..(m + 1), NEW k \in 1..(m + 1), r[j].id = r[k].id PROVE j = k
    BY <1>1 DEF Unique
  <2>1. CASE j = n \/ k = n
    BY <1>2, <1>5, <2>1
  <2>2. CASE j # n /\ k # n
    <3>1. l[s(j)].id = l[s(k)].id /\ s(j) \in DOMAIN l /\ s(k) \in DOMAIN l
      BY <1>0, <1>2, <2>2
    <3> QED BY <1>0, <1>3, <2>2, <3>1 DEF Unique
  <2> QED BY <2>1, <2>2
<1>7. DescFirst(r, (1..Groups) \ {p.group})
  <2> SUFFICES ASSUME NEW j \in 1..(m + 1), NEW k \in 1..(m + 1), j < k, r[j].group = r[k].group,
                      r[k].group \in (1..Groups) \ {p.group}
               PROVE r[k].desc = FALSE
    BY <1>1 DEF DescFirst
  <2>1. j # n /\ k # n
    BY <1>2
  <2>2. /\ s(j) < s(k) /\ s(j) \in DOMAIN l /\ s(k) \in DOMAIN l
        /\ r[j] = l[s(j)] /\ r[k] = l[s(k)]
    BY <1>0, <1>2, <1>3, <2>1
  <2> QED BY <1>0, <2>2 DEF DescFirst
<1>8. Elems(r) = Elems(l) \cup {p}
  <2>1. ASSUME NEW x \in Elems(r) PROVE x \in Elems(l) \cup {p}
    BY <1>0, <1>1, <1>2 DEF Elems
  <2>2. ASSUME NEW x \in Elems(l) PROVE x \in Elems(r)
    <3>1. PICK k \in 1..m : x = l[k]
      BY <1>0 DEF Elems
    <3>2. PICK j \in 1..(m + 1) : j # n /\ s(j) = k
      BY <1>4
    <3> QED BY <1>1, <1>2, <3>1, <3>2 DEF Elems
  <2>3. p \in Elems(r)
    BY <1>0, <1>1, <1>2 DEF Elems
  <2> QED BY <2>1, <2>2, <2>3
<1>9. Cores(r) = Cores(l) \cup {Core(p)}
  <2>1. Cores(r) = {Core(x) : x \in Elems(r)} /\ Cores(l) = {Core(x) : x \in Elems(l)}
    BY <1>0, <1>1, UsedSaid
  <2> QED BY <1>8, <2>1
<1> QED BY <1>1, <1>2, <1>6, <1>7, <1>8, <1>9 DEF r, m

\* What a new pack says of groups.
LEMMA WithinSaid ==
  ASSUME NEW l \in Seq(Pack), NEW r \in Seq(Pack), NEW p \in Pack, Elems(r) = Elems(l) \cup {p}
  PROVE  /\ \A g \in 1..Groups : g \in Used(r) <=> g \in Used(l) \/ p.group = g
         /\ \A g \in 1..Groups : g \in Said(r) <=> g \in Said(l) \/ (p.group = g /\ p.desc = TRUE)
<1>1. \A g \in 1..Groups : /\ g \in Used(l) <=> \E x \in Elems(l) : x.group = g
                           /\ g \in Said(l) <=> \E x \in Elems(l) : x.group = g /\ x.desc = TRUE
  BY UsedSaid
<1>2. \A g \in 1..Groups : /\ g \in Used(r) <=> \E x \in Elems(r) : x.group = g
                           /\ g \in Said(r) <=> \E x \in Elems(r) : x.group = g /\ x.desc = TRUE
  BY UsedSaid
<1> QED BY <1>1, <1>2

\* The new pack has its group in r, the others are of groups that l has.
Seated(l, p, r) ==
  \A i \in DOMAIN r : IF r[i].id = p.id THEN r[i].group = p.group
                      ELSE r[i].group \in 1..Groups => r[i].group \in Used(l)

\* A pack is sorted in; the list before it does not have its pointer.
LEMMA SortedIn ==
  ASSUME NEW l, Regular(l), NEW p \in Pack, p.id \notin IdsOf(l), NEW by
  PROVE  LET r == SortInsert(l, p, by)
         IN /\ Regular(r) /\ Cores(r) = Cores(l) \cup {Core(p)}
            /\ \A g \in 1..Groups : g \in Used(r) <=> g \in Used(l) \/ p.group = g
            /\ \A g \in 1..Groups : g \in Said(r) <=> g \in Said(l) \/ (p.group = g /\ p.desc = TRUE)
            /\ Seated(l, p, r)
<1> DEFINE r == SortInsert(l, p, by)
           later == {i \in DOMAIN l : SortKey(p, by) < SortKey(l[i], by)}
           n == IF later = {} THEN Len(l) + 1 ELSE First(later)
           put == InsertAt(l, n, p)
<1>0. l \in Seq(Pack) /\ DOMAIN l = 1..Len(l) /\ Len(l) \in Nat /\ p.desc \in BOOLEAN /\ p.group \in 0..Groups
  BY ListFields, PackFields DEF Regular
<1>1. n \in 1..(Len(l) + 1)
  <2>1. later \subseteq DOMAIN l /\ later \subseteq Nat
    BY <1>0
  <2> HIDE DEF later
  <2>2. later # {} => First(later) \in later
    BY <2>1, FirstType
  <2> QED BY <1>0, <2>1, <2>2
<1>2. r = IF p.group = 0 THEN put
          ELSE IF p.desc THEN reorder_new_groupdesc(put, p.group, TRUE) ELSE reorder_groupdesc(put, p.group)
  BY DEF SortInsert
<1> HIDE DEF r, n
<1>3. /\ put \in Seq(Pack) /\ Unique(put) /\ DescFirst(put, (1..Groups) \ {p.group})
      /\ Elems(put) = Elems(l) \cup {p} /\ Cores(put) = Cores(l) \cup {Core(p)}
      /\ DOMAIN put = 1..(Len(l) + 1) /\ put[n] = p
  BY <1>1, Within
<1> HIDE DEF put
<1>4. /\ \A g \in 1..Groups : g \in Used(put) <=> g \in Used(l) \/ p.group = g
      /\ \A g \in 1..Groups : g \in Said(put) <=> g \in Said(l) \/ (p.group = g /\ p.desc = TRUE)
  BY <1>0, <1>3, WithinSaid
<1>5. ASSUME p.group = 0 PROVE Regrouped(put, r) /\ DescFirst(r, 1..Groups) /\ Used(r) = Used(put) /\ Said(r) = Said(put)
                               /\ \A i \in DOMAIN put : r[i].group = put[i].group
  <2>1. r = put /\ (1..Groups) \ {p.group} = 1..Groups
    BY <1>2, <1>5, Sizes
  <2> QED BY <1>3, <2>1 DEF Regrouped
<1>6. ASSUME p.group # 0, p.desc = TRUE
      PROVE Regrouped(put, r) /\ DescFirst(r, 1..Groups) /\ Used(r) = Used(put) /\ Said(r) = Said(put)
            /\ \A i \in DOMAIN put : r[i].group = put[i].group
  <2> DEFINE a == p.group
  <2>0. r = reorder_new_groupdesc(put, a, TRUE) /\ put \in Seq(Pack) /\ DescFirst(put, (1..Groups) \ {a})
    BY <1>2, <1>3, <1>6
  <2>1. a \in 1..Groups
    BY <1>0, <1>6, Sizes
  <2>3. a \in Said(put)
    BY <1>4, <1>6, <2>1
  <2> HIDE DEF a
  <2>2. /\ Regrouped(put, r) /\ DescFirst(r, 1..Groups) /\ Used(r) = Used(put)
        /\ Said(r) = Said(put) \cup ({a} \cap Used(put)) /\ \A i \in DOMAIN put : r[i].group = put[i].group
    <3>1. LET s == reorder_new_groupdesc(put, a, TRUE) IN
          /\ Regrouped(put, s) /\ \A i \in DOMAIN put : s[i].group = put[i].group
          /\ DescFirst(put, (1..Groups) \ {a}) => DescFirst(s, 1..Groups)
          /\ Used(s) = Used(put) /\ Said(s) = Said(put) \cup ({a} \cap Used(put))
      BY ONLY <2>0, <2>1, Reordered
    <3> QED BY <2>0, <3>1
  <2> QED BY <2>2, <2>3
<1>7. ASSUME p.group # 0, p.desc # TRUE
      PROVE Regrouped(put, r) /\ DescFirst(r, 1..Groups) /\ Used(r) = Used(put) /\ Said(r) = Said(put)
            /\ \A i \in DOMAIN put : r[i].group = put[i].group
  <2>1. r = reorder_groupdesc(put, p.group)
    BY <1>0, <1>2, <1>7
  <2> QED BY <1>0, <1>3, <2>1, Refirst
<1>8. Regrouped(put, r) /\ DescFirst(r, 1..Groups) /\ Used(r) = Used(put) /\ Said(r) = Said(put)
      /\ \A i \in DOMAIN put : r[i].group = put[i].group
  BY <1>5, <1>6, <1>7
<1>9. r \in Seq(Pack) /\ DOMAIN r = DOMAIN put /\ Cores(r) = Cores(put) /\ Unique(r) /\ \A i \in DOMAIN put : r[i].id = put[i].id
  BY <1>3, <1>8, RegroupedSame
<1>10. ASSUME NEW i \in DOMAIN r
       PROVE IF r[i].id = p.id THEN r[i].group = p.group
             ELSE r[i].group \in 1..Groups => r[i].group \in Used(l)
  <2>1. i \in DOMAIN put /\ r[i].group = put[i].group /\ r[i].id = put[i].id
    BY <1>8, <1>9
  <2>2. CASE i = n
    BY <1>3, <2>1, <2>2
  <2>3. CASE i # n
    <3>1. n \in DOMAIN put /\ put[i].id # p.id
      BY <1>1, <1>3, <2>1, <2>3 DEF Unique
    <3>2. put[i] \in Elems(l)
      BY <1>3, <2>1, <3>1 DEF Elems
    <3>3. put[i].group \in 1..Groups => put[i].group \in Used(l)
      BY <1>0, <3>2, UsedSaid
    <3> QED BY <2>1, <3>1, <3>3
  <2> QED BY <2>2, <2>3
<1>11. Seated(l, p, r)
  BY <1>10 DEF Seated
<1> QED BY <1>3, <1>4, <1>8, <1>9, <1>11 DEF r, Regular

\* A pack takes another place.
LEMMA RenumberOne ==
  ASSUME NEW l, Regular(l), NEW old \in DOMAIN l, NEW new \in DOMAIN l
  PROVE  LET r == Renumber1(l, old, new)
         IN Regular(r) /\ Len(r) = Len(l) /\ Cores(r) = Cores(l) /\ Bare(r) = Bare(l)
<1> DEFINE r == Renumber1(l, old, new)
           p == l[old]
           out == Drop(l, old)
           put == InsertAt(out, new, p)
<1>0. l \in Seq(Pack) /\ Unique(l) /\ DOMAIN l = 1..Len(l) /\ Len(l) \in Nat /\ p \in Pack /\ p.group \in 0..Groups
      /\ Core(p).id = p.id /\ Core(p) \in Cores(l) /\ p \in Elems(l)
  BY ListFields, PackFields DEF Regular, Cores, Elems
<1>1. Regular(out) /\ Elems(out) = Elems(l) \ {p} /\ \A c : c \in Cores(out) <=> c \in Cores(l) /\ c.id # p.id
  <2>1. /\ Regular(Drop(l, old)) /\ Elems(Drop(l, old)) = Elems(l) \ {l[old]}
        /\ \A c : c \in Cores(Drop(l, old)) <=> c \in Cores(l) /\ c.id # l[old].id
    BY ONLY Regular(l), old \in DOMAIN l, Without
  <2> QED BY <2>1
<1>2. Len(out) = Len(l) - 1
  BY <1>0, DropIndex
<1>3. r = reorder_groupdesc(put, p.group)
  BY DEF Renumber1
<1>4. new \in 1..(Len(out) + 1)
  BY <1>0, <1>2
<1>5. p.id \notin IdsOf(out)
  <2>1. out \in Seq(Pack)
    BY <1>1 DEF Regular
  <2>2. IdsOf(out) = {c.id : c \in Cores(out)}
    BY <2>1, UsedSaid
  <2> QED BY <1>1, <2>2
<1> HIDE DEF out, r, p
<1>6. /\ put \in Seq(Pack) /\ Unique(put) /\ DescFirst(put, (1..Groups) \ {p.group})
      /\ Elems(put) = Elems(out) \cup {p} /\ Cores(put) = Cores(out) \cup {Core(p)}
      /\ DOMAIN put = 1..(Len(out) + 1)
  <2>1. p \in Pack /\ Regular(out)
    BY <1>0, <1>1
  <2> QED BY ONLY <2>1, <1>4, <1>5, Within
<1> HIDE DEF put
<1>7. Elems(put) = Elems(l)
  BY <1>0, <1>1, <1>6
<1>8. Regrouped(put, r) /\ DescFirst(r, 1..Groups) /\ Used(r) = Used(put) /\ Said(r) = Said(put)
  BY <1>0, <1>3, <1>6, Refirst
<1>9. r \in Seq(Pack) /\ Len(r) = Len(put) /\ Cores(r) = Cores(put) /\ Unique(r)
  BY <1>6, <1>8, RegroupedSame
<1>10. Used(put) = Used(l) /\ Said(put) = Said(l)
  <2>1. \A g \in 1..Groups : /\ g \in Used(put) <=> \E x \in Elems(put) : x.group = g
                             /\ g \in Said(put) <=> \E x \in Elems(put) : x.group = g /\ x.desc = TRUE
    BY <1>6, UsedSaid
  <2>2. \A g \in 1..Groups : /\ g \in Used(l) <=> \E x \in Elems(l) : x.group = g
                             /\ g \in Said(l) <=> \E x \in Elems(l) : x.group = g /\ x.desc = TRUE
    BY <1>0, UsedSaid
  <2>3. \A g \in 1..Groups : (g \in Used(put) <=> g \in Used(l)) /\ (g \in Said(put) <=> g \in Said(l))
    BY <1>7, <2>1, <2>2
  <2> QED BY <2>3 DEF Used, Said
<1>11. Cores(put) = Cores(l)
  BY <1>0, <1>6, <1>7, UsedSaid
<1>12. Len(put) = Len(l)
  <2>1. DOMAIN put = DOMAIN l
    BY <1>0, <1>2, <1>6
  <2> QED BY <1>0, <1>6, <2>1, SameDomain
<1> QED BY <1>8, <1>9, <1>10, <1>11, <1>12 DEF r, Regular, Bare

\* r is l in another order, or with other groups.
Arranged(l, r) == Regular(r) /\ Len(r) = Len(l) /\ Cores(r) = Cores(l) /\ Bare(r) \subseteq Bare(l)

\* A list that is left alone is arranged.
LEMMA ArrangedSame ==
  ASSUME NEW l, Regular(l)
  PROVE  Arranged(l, l)
BY DEF Arranged

\* What is arranged twice is arranged.
LEMMA ArrangedAgain ==
  ASSUME NEW l, NEW r, Arranged(l, r), NEW s, Arranged(r, s)
  PROVE  Arranged(l, s)
BY DEF Arranged

\* a_set_group on one pack.
LEMMA ArrangedJoin ==
  ASSUME NEW l, NEW r, Regular(l), Arranged(l, r), NEW i \in DOMAIN r, NEW g \in 0..Groups
  PROVE  Arranged(l, SetGroup(r, i, g))
<1> DEFINE s == SetGroup(r, i, g)
<1>1. Regular(r) /\ r \in Seq(Pack)
  BY DEF Arranged, Regular
<1>2. Regrouped(r, s) /\ Regular(s) /\ Bare(s) \subseteq Bare(r)
  BY <1>1, Joined
<1> HIDE DEF s
<1>3. Len(s) = Len(r) /\ Cores(s) = Cores(r)
  BY <1>1, <1>2, RegroupedSame
<1> QED BY <1>2, <1>3 DEF Arranged, s

\* a_renumber1 on one pack.
LEMMA ArrangedMove ==
  ASSUME NEW l, NEW r, Regular(l), Arranged(l, r), NEW i \in DOMAIN r, NEW j \in DOMAIN r
  PROVE  Arranged(l, Renumber1(r, i, j))
<1> DEFINE s == Renumber1(r, i, j)
<1>1. Regular(r) /\ r \in Seq(Pack)
  BY DEF Arranged, Regular
<1>2. Regular(s) /\ Len(s) = Len(r) /\ Cores(s) = Cores(r) /\ Bare(s) = Bare(r)
  BY <1>1, RenumberOne
<1> HIDE DEF s
<1> QED BY <1>2 DEF Arranged, s

\* The lists that come of one another have the same positions.
LEMMA ArrangedPlaces ==
  ASSUME NEW l, Regular(l), NEW r, Arranged(l, r)
  PROVE  r \in Seq(Pack) /\ DOMAIN r = DOMAIN l /\ DOMAIN l = 1..Len(l) /\ Len(l) \in Nat
<1>1. l \in Seq(Pack) /\ r \in Seq(Pack) /\ Len(r) = Len(l)
  BY DEF Arranged, Regular
<1>2. DOMAIN l = 1..Len(l) /\ DOMAIN r = 1..Len(r) /\ Len(l) \in Nat
  BY <1>1, ListFields
<1> QED BY <1>1, <1>2

Renumbering(v, old, new, k) ==
  IF old > new THEN Renumber1(v, old + k - 1, new + k - 1) ELSE Renumber1(v, old, new)

\* Some packs take other places.
LEMMA RenumberedAll ==
  ASSUME NEW l, Regular(l), NEW old \in DOMAIN l, NEW end \in DOMAIN l, NEW new \in DOMAIN l, old <= end, new \notin old..end
  PROVE  Arranged(l, Renumbered(l, old, end, new))
<1> DEFINE m == end - old + 1
           Is(f) == f = [k \in 0..m |-> IF k = 0 THEN l ELSE Renumbering(f[k - 1], old, new, k)]
           S == {r \in Seq(Pack) : Arranged(l, r)}
           D == [k \in 1..m |-> [v \in S |-> Renumbering(v, old, new, k)]]
           V == CHOOSE f : Is(f)
<1>1. Renumbered(l, old, end, new) = V[m]
  BY DEF Renumbered, Renumbering
<1>2. m \in Nat /\ l \in Seq(Pack) /\ DOMAIN l = 1..Len(l) /\ Len(l) \in Nat
  BY ListFields DEF Regular
<1>3. l \in S
  BY <1>2, ArrangedSame
<1> HIDE DEF m
<1>4. ASSUME NEW k \in 1..m, NEW v \in S PROVE Renumbering(v, old, new, k) \in S
  <2>1. Arranged(l, v) /\ v \in Seq(Pack) /\ DOMAIN v = DOMAIN l
    BY ArrangedPlaces
  <2>2. old \in DOMAIN v /\ new \in DOMAIN v
    BY <2>1
  <2>3. old > new => old + k - 1 \in DOMAIN v /\ new + k - 1 \in DOMAIN v
    BY <1>2, <2>1 DEF m
  <2>4. CASE old > new
    <3>1. Arranged(l, Renumber1(v, old + k - 1, new + k - 1))
      BY <2>1, <2>3, <2>4, ArrangedMove
    <3> QED BY <2>4, <3>1 DEF Renumbering, Arranged, Regular
  <2>5. CASE ~(old > new)
    <3>1. Arranged(l, Renumber1(v, old, new))
      BY <2>1, <2>2, ArrangedMove
    <3> QED BY <2>5, <3>1 DEF Renumbering, Arranged, Regular
  <2> QED BY <2>4, <2>5
<1> HIDE DEF S
<1>5. D \in StepsOf(m, S) /\ \A k \in 1..m : \A v \in S : D[k][v] = Renumbering(v, old, new, k)
  BY <1>4 DEF StepsOf
<1> HIDE DEF D
<1>6. Made(m, S, l, D)
  BY <1>2, <1>3, <1>5, Iterated
<1>7. \A k \in 1..m : k \in 0..m /\ k # 0 /\ k - 1 \in 0..m
  BY <1>2
<1>8. \E f : Is(f)
  <2>1. PICK f \in [0..m -> S] : f[0] = l /\ \A k \in 1..m : f[k] = D[k][f[k - 1]]
    BY <1>6 DEF Made
  <2>2. \A k \in 1..m : f[k] = Renumbering(f[k - 1], old, new, k)
    BY <1>5, <1>7, <2>1
  <2>3. \A k \in 0..m : k # 0 => k \in 1..m
    BY <1>2
  <2>4. \A k \in 0..m : f[k] = IF k = 0 THEN l ELSE Renumbering(f[k - 1], old, new, k)
    BY <2>1, <2>2, <2>3
  <2>5. f = [k \in 0..m |-> f[k]]
    BY <2>1
  <2>6. Is(f)
    BY ONLY <2>4, <2>5
  <2> QED BY <2>6
<1>9. Is(V)
  <2> HIDE DEF Is
  <2> QED BY <1>8
<1> HIDE DEF V
<1>10. V[0] = l /\ \A k \in 1..m : V[k] = Renumbering(V[k - 1], old, new, k)
  BY <1>2, <1>7, <1>9
<1> HIDE DEF Is
<1>11. \A k \in 0..m : V[k] \in S
  <2>1. \A k \in 1..m : V[k - 1] \in S => V[k] = D[k][V[k - 1]]
    BY <1>5, <1>10
  <2> QED BY <1>6, <1>10, <2>1 DEF Made
<1>12. V[m] \in S
  BY <1>2, <1>11
<1> QED BY <1>1, <1>12 DEF S

\* Some packs join a group.
LEMMA JoinedAll ==
  ASSUME NEW l, Regular(l), NEW n \in DOMAIN l, NEW last \in Nat, n <= last + 1, last <= Len(l), NEW g \in 0..Groups
  PROVE  Arranged(l, SetGroups(l, n, last, g))
<1> DEFINE m == last - n + 1
           Is(f) == f = [k \in 0..m |-> IF k = 0 THEN l ELSE SetGroup(f[k - 1], n + k - 1, g)]
           S == {r \in Seq(Pack) : Arranged(l, r)}
           D == [k \in 1..m |-> [v \in S |-> SetGroup(v, n + k - 1, g)]]
           V == CHOOSE f : Is(f)
<1>1. SetGroups(l, n, last, g) = V[m]
  BY DEF SetGroups
<1>2. m \in Nat /\ l \in Seq(Pack) /\ DOMAIN l = 1..Len(l) /\ Len(l) \in Nat /\ n \in 1..Len(l)
  BY ListFields DEF Regular
<1>3. l \in S
  BY <1>2, ArrangedSame
<1> HIDE DEF m
<1>4. ASSUME NEW k \in 1..m, NEW v \in S PROVE SetGroup(v, n + k - 1, g) \in S
  <2>1. Arranged(l, v) /\ v \in Seq(Pack) /\ DOMAIN v = DOMAIN l
    BY ArrangedPlaces
  <2>2. n + k - 1 \in DOMAIN v
    BY <1>2, <2>1 DEF m
  <2> QED BY <2>1, <2>2, ArrangedJoin DEF Arranged, Regular
<1> HIDE DEF S
<1>5. D \in StepsOf(m, S) /\ \A k \in 1..m : \A v \in S : D[k][v] = SetGroup(v, n + k - 1, g)
  BY <1>4 DEF StepsOf
<1> HIDE DEF D
<1>6. Made(m, S, l, D)
  BY <1>2, <1>3, <1>5, Iterated
<1>7. \A k \in 1..m : k \in 0..m /\ k # 0 /\ k - 1 \in 0..m
  BY <1>2
<1>8. \E f : Is(f)
  <2>1. PICK f \in [0..m -> S] : f[0] = l /\ \A k \in 1..m : f[k] = D[k][f[k - 1]]
    BY <1>6 DEF Made
  <2>2. \A k \in 1..m : f[k] = SetGroup(f[k - 1], n + k - 1, g)
    BY <1>5, <1>7, <2>1
  <2>3. \A k \in 0..m : k # 0 => k \in 1..m
    BY <1>2
  <2>4. \A k \in 0..m : f[k] = IF k = 0 THEN l ELSE SetGroup(f[k - 1], n + k - 1, g)
    BY <2>1, <2>2, <2>3
  <2>5. f = [k \in 0..m |-> f[k]]
    BY <2>1
  <2>6. Is(f)
    BY ONLY <2>4, <2>5
  <2> QED BY <2>6
<1>9. Is(V)
  <2> HIDE DEF Is
  <2> QED BY <1>8
<1> HIDE DEF V
<1>10. V[0] = l /\ \A k \in 1..m : V[k] = SetGroup(V[k - 1], n + k - 1, g)
  BY <1>2, <1>7, <1>9
<1> HIDE DEF Is
<1>11. \A k \in 0..m : V[k] \in S
  <2>1. \A k \in 1..m : V[k - 1] \in S => V[k] = D[k][V[k - 1]]
    BY <1>5, <1>10
  <2> QED BY <1>6, <1>10, <2>1 DEF Made
<1>12. V[m] \in S
  BY <1>2, <1>11
<1> QED BY <1>1, <1>12 DEF S

\* The pack that has the file joins the group.
GroupingFile(v, g, f) ==
  IF disk[f] = 0 \/ SameInode(v, disk[f]) = {} THEN v ELSE SetGroup(v, First(SameInode(v, disk[f])), g)

\* The packs of some files join a group.
LEMMA FilesJoined ==
  ASSUME NEW l, Regular(l), NEW g \in 0..Groups
  PROVE  Arranged(l, GroupFiles(l, g))
<1> DEFINE m == Files
           Is(f) == f = [k \in 0..m |-> IF k = 0 THEN l ELSE GroupingFile(f[k - 1], g, k)]
           S == {r \in Seq(Pack) : Arranged(l, r)}
           D == [k \in 1..m |-> [v \in S |-> GroupingFile(v, g, k)]]
           V == CHOOSE f : Is(f)
<1>1. GroupFiles(l, g) = V[m]
  BY DEF GroupFiles, GroupingFile
<1>2. m \in Nat /\ l \in Seq(Pack) /\ DOMAIN l = 1..Len(l) /\ Len(l) \in Nat
  BY ListFields, Sizes DEF Regular
<1>3. l \in S
  BY <1>2, ArrangedSame
<1> HIDE DEF m
<1>4. ASSUME NEW k \in 1..m, NEW v \in S PROVE GroupingFile(v, g, k) \in S
  <2>1. Arranged(l, v) /\ v \in Seq(Pack) /\ DOMAIN v = DOMAIN l /\ DOMAIN l \subseteq Nat
    BY <1>2, ArrangedPlaces
  <2> DEFINE K == SameInode(v, disk[k])
  <2>2. K \subseteq Nat /\ K \subseteq DOMAIN v
    BY <2>1 DEF SameInode
  <2>3. K # {} => First(K) \in DOMAIN v
    <3> HIDE DEF K
    <3> QED BY <2>2, FirstType
  <2>4. CASE disk[k] = 0 \/ K = {}
    BY <2>4 DEF GroupingFile
  <2>5. CASE ~(disk[k] = 0 \/ K = {})
    <3>1. GroupingFile(v, g, k) = SetGroup(v, First(K), g)
      BY <2>5 DEF GroupingFile
    <3> HIDE DEF K
    <3>2. Arranged(l, SetGroup(v, First(K), g))
      BY <2>1, <2>3, <2>5, ArrangedJoin
    <3> QED BY <3>1, <3>2 DEF Arranged, Regular
  <2> QED BY <2>4, <2>5
<1> HIDE DEF S
<1>5. D \in StepsOf(m, S) /\ \A k \in 1..m : \A v \in S : D[k][v] = GroupingFile(v, g, k)
  BY <1>4 DEF StepsOf
<1> HIDE DEF D
<1>6. Made(m, S, l, D)
  BY <1>2, <1>3, <1>5, Iterated
<1>7. \A k \in 1..m : k \in 0..m /\ k # 0 /\ k - 1 \in 0..m
  BY <1>2
<1>8. \E f : Is(f)
  <2>1. PICK f \in [0..m -> S] : f[0] = l /\ \A k \in 1..m : f[k] = D[k][f[k - 1]]
    BY <1>6 DEF Made
  <2>2. \A k \in 1..m : f[k] = GroupingFile(f[k - 1], g, k)
    BY <1>5, <1>7, <2>1
  <2>3. \A k \in 0..m : k # 0 => k \in 1..m
    BY <1>2
  <2>4. \A k \in 0..m : f[k] = IF k = 0 THEN l ELSE GroupingFile(f[k - 1], g, k)
    BY <2>1, <2>2, <2>3
  <2>5. f = [k \in 0..m |-> f[k]]
    BY <2>1
  <2>6. Is(f)
    BY ONLY <2>4, <2>5
  <2> QED BY <2>6
<1>9. Is(V)
  <2> HIDE DEF Is
  <2> QED BY <1>8
<1> HIDE DEF V
<1>10. V[0] = l /\ \A k \in 1..m : V[k] = GroupingFile(V[k - 1], g, k)
  BY <1>2, <1>7, <1>9
<1> HIDE DEF Is
<1>11. \A k \in 0..m : V[k] \in S
  <2>1. \A k \in 1..m : V[k - 1] \in S => V[k] = D[k][V[k - 1]]
    BY <1>5, <1>10
  <2> QED BY <1>6, <1>10, <2>1 DEF Made
<1>12. V[m] \in S
  BY <1>2, <1>11
<1> QED BY <1>1, <1>12 DEF S

\* r has the first n packs of l.
Begun(l, n, r) ==
  /\ Regular(r) /\ Cores(r) = {Core(l[i]) : i \in 1..n}
  /\ \A g \in 1..Groups : g \in Used(r) <=> \E i \in 1..n : l[i].group = g
  /\ \A g \in 1..Groups : g \in Said(r) <=> \E i \in 1..n : l[i].group = g /\ l[i].desc = TRUE

\* Of no packs nothing has been sorted in.
LEMMA BegunNone ==
  ASSUME NEW l
  PROVE  Begun(l, 0, <<>>)
<1>1. <<>> \in Seq(Pack) /\ DOMAIN (<<>>) = {} /\ Elems(<<>>) = {}
  BY DEF Elems
<1>2. Unique(<<>>) /\ DescFirst(<<>>, 1..Groups) /\ Cores(<<>>) = {}
  BY <1>1 DEF Unique, DescFirst, Cores
<1>3. Used(<<>>) = {} /\ Said(<<>>) = {}
  BY <1>1 DEF Used, Said, InGroup, HasDesc
<1>4. 1..0 = {}
  OBVIOUS
<1> QED BY <1>1, <1>2, <1>3, <1>4 DEF Begun, Regular

\* The next pack is sorted in.
LEMMA BegunNext ==
  ASSUME NEW l, Regular(l), NEW n \in DOMAIN l, NEW v, Begun(l, n - 1, v), NEW by
  PROVE  Begun(l, n, SortInsert(v, l[n], by))
<1> DEFINE r == SortInsert(v, l[n], by)
           p == l[n]
<1>1. /\ l \in Seq(Pack) /\ Unique(l) /\ DOMAIN l = 1..Len(l) /\ Len(l) \in Nat /\ n \in 1..Len(l)
      /\ \A i \in 1..Len(l) : l[i] \in Pack /\ Core(l[i]).id = l[i].id
  BY ListFields, PackFields DEF Regular
<1>2. /\ Regular(v) /\ v \in Seq(Pack) /\ Cores(v) = {Core(l[i]) : i \in 1..(n - 1)}
      /\ \A g \in 1..Groups : g \in Used(v) <=> \E i \in 1..(n - 1) : l[i].group = g
      /\ \A g \in 1..Groups : g \in Said(v) <=> \E i \in 1..(n - 1) : l[i].group = g /\ l[i].desc = TRUE
  BY DEF Begun, Regular
<1>3. p.id \notin IdsOf(v)
  <2>1. IdsOf(v) = {c.id : c \in Cores(v)}
    BY <1>2, UsedSaid
  <2>2. ASSUME NEW i \in 1..(n - 1) PROVE Core(l[i]).id # p.id
    <3>1. i \in 1..Len(l) /\ i # n
      BY <1>1
    <3> QED BY <1>1, <3>1 DEF Unique
  <2> QED BY <1>2, <2>1, <2>2
<1>4. p \in Pack
  BY <1>1
<1> HIDE DEF p
<1>5. /\ Regular(r) /\ Cores(r) = Cores(v) \cup {Core(p)}
      /\ \A g \in 1..Groups : g \in Used(r) <=> g \in Used(v) \/ p.group = g
      /\ \A g \in 1..Groups : g \in Said(r) <=> g \in Said(v) \/ (p.group = g /\ p.desc = TRUE)
  <2>1. r = SortInsert(v, p, by)
    BY DEF p
  <2> HIDE DEF r
  <2>2. Regular(v)
    BY <1>2
  <2> QED BY ONLY <1>3, <1>4, <2>1, <2>2, SortedIn
<1> HIDE DEF r
<1>6. \A i : i \in 1..n <=> i \in 1..(n - 1) \/ i = n
  BY <1>1
<1>7. Cores(r) = {Core(l[i]) : i \in 1..n}
  BY <1>2, <1>5, <1>6 DEF p
<1>8. \A g \in 1..Groups : g \in Used(r) <=> \E i \in 1..n : l[i].group = g
  BY <1>2, <1>5, <1>6 DEF p
<1>9. \A g \in 1..Groups : g \in Said(r) <=> \E i \in 1..n : l[i].group = g /\ l[i].desc = TRUE
  BY <1>2, <1>5, <1>6 DEF p
<1> QED BY <1>5, <1>7, <1>8, <1>9 DEF Begun, r

\* Sorting keeps what there is.
LEMMA SortedAll ==
  ASSUME NEW l, Regular(l), NEW by
  PROVE  Regular(SortedBy(l, by)) /\ Cores(SortedBy(l, by)) = Cores(l) /\ Bare(SortedBy(l, by)) = Bare(l)
<1> DEFINE n == Len(l)
           Is(f) == f = [k \in 0..n |-> IF k = 0 THEN <<>> ELSE SortInsert(f[k - 1], l[k], by)]
           S == {v \in Seq(Pack) : \E k \in 0..n : Begun(l, k, v)}
           D == [k \in 1..n |-> [v \in S |-> IF Begun(l, k - 1, v) THEN SortInsert(v, l[k], by) ELSE v]]
           V == CHOOSE f : Is(f)
<1>1. SortedBy(l, by) = V[n]
  BY DEF SortedBy
<1>2. l \in Seq(Pack) /\ DOMAIN l = 1..n /\ n \in Nat
  BY ListFields DEF Regular
<1> HIDE DEF n
<1>3. <<>> \in S
  BY <1>2, BegunNone
<1>4. ASSUME NEW k \in 1..n, NEW v, Begun(l, k - 1, v)
      PROVE SortInsert(v, l[k], by) \in S /\ Begun(l, k, SortInsert(v, l[k], by))
  <2>1. Begun(l, k, SortInsert(v, l[k], by))
    BY <1>2, <1>4, BegunNext
  <2>2. SortInsert(v, l[k], by) \in Seq(Pack) /\ k \in 0..n
    BY <1>2, <2>1 DEF Begun, Regular
  <2> QED BY <2>1, <2>2
<1> HIDE DEF S
<1>5. /\ D \in StepsOf(n, S)
      /\ \A k \in 1..n : \A v \in S : Begun(l, k - 1, v) => D[k][v] = SortInsert(v, l[k], by)
  BY <1>4 DEF StepsOf
<1> HIDE DEF D
<1>6. Made(n, S, <<>>, D)
  BY <1>2, <1>3, <1>5, Iterated
<1>7. \A k \in 1..n : k \in 0..n /\ k # 0 /\ k - 1 \in 0..n
  BY <1>2
<1>8. \E f : Is(f)
  <2>1. PICK f \in [0..n -> S] : f[0] = <<>> /\ \A k \in 1..n : f[k] = D[k][f[k - 1]]
    BY <1>6 DEF Made
  <2> DEFINE P == {k \in 0..n : Begun(l, k, f[k])}
  <2>2. 0 \in P
    BY <1>2, <2>1, BegunNone
  <2>3. ASSUME NEW k \in 1..n, k - 1 \in P PROVE k \in P /\ f[k] = SortInsert(f[k - 1], l[k], by)
    <3>1. f[k - 1] \in S /\ Begun(l, k - 1, f[k - 1])
      BY <1>7, <2>1, <2>3
    <3>2. f[k] = SortInsert(f[k - 1], l[k], by)
      BY <1>5, <2>1, <3>1
    <3>3. Begun(l, k, f[k])
      BY <1>4, <3>1, <3>2
    <3> QED BY <1>7, <3>2, <3>3
  <2>4. 0..n \subseteq P
    <3> HIDE DEF P
    <3> QED BY <1>2, <2>2, <2>3, Climb
  <2>5. \A k \in 1..n : f[k] = SortInsert(f[k - 1], l[k], by)
    <3> HIDE DEF P
    <3> QED BY <1>7, <2>3, <2>4
  <2>6. \A k \in 0..n : k # 0 => k \in 1..n
    BY <1>2
  <2>7. \A k \in 0..n : f[k] = IF k = 0 THEN <<>> ELSE SortInsert(f[k - 1], l[k], by)
    BY <2>1, <2>5, <2>6
  <2>8. f = [k \in 0..n |-> f[k]]
    BY <2>1
  <2>9. Is(f)
    BY ONLY <2>7, <2>8
  <2> QED BY <2>9
<1>9. Is(V)
  <2> HIDE DEF Is
  <2> QED BY <1>8
<1> HIDE DEF V
<1>10. V[0] = <<>> /\ \A k \in 1..n : V[k] = SortInsert(V[k - 1], l[k], by)
  BY <1>2, <1>7, <1>9
<1> HIDE DEF Is
<1>11. Begun(l, n, V[n])
  <2> DEFINE P == {k \in 0..n : Begun(l, k, V[k])}
  <2>1. 0 \in P
    BY <1>2, <1>10, BegunNone
  <2>2. ASSUME NEW k \in 1..n, k - 1 \in P PROVE k \in P
    <3>1. Begun(l, k - 1, V[k - 1])
      BY <2>2
    <3>2. Begun(l, k, V[k])
      BY <1>4, <1>10, <3>1
    <3> QED BY <1>7, <3>2
  <2>3. 0..n \subseteq P
    <3> HIDE DEF P
    <3> QED BY <1>2, <2>1, <2>2, Climb
  <2>4. n \in 0..n
    BY <1>2
  <2> QED BY <2>3, <2>4
<1> DEFINE r == V[n]
<1> HIDE DEF r
<1>12. Begun(l, n, r)
  BY <1>11 DEF r
<1>13. Regular(r) /\ Cores(r) = Cores(l)
  BY <1>2, <1>12 DEF Begun, Cores
<1>14. \A g \in 1..Groups : (g \in Used(l) <=> \E i \in 1..n : l[i].group = g)
  BY <1>2 DEF Used, InGroup
<1>15. \A g \in 1..Groups : (g \in Said(l) <=> \E i \in 1..n : l[i].group = g /\ l[i].desc = TRUE)
  <2>1. \A i \in 1..n : l[i].desc \in BOOLEAN
    BY <1>2, ListFields, PackFields
  <2> QED BY <1>2, <2>1, GroupOf DEF Said
<1>16. \A g \in 1..Groups : (g \in Used(r) <=> g \in Used(l)) /\ (g \in Said(r) <=> g \in Said(l))
  BY <1>12, <1>14, <1>15 DEF Begun
<1>17. Bare(r) = Bare(l)
  BY <1>16 DEF Bare, Used, Said
<1> QED BY <1>1, <1>13, <1>17 DEF r

\* No group that keeps packs loses its description.
Spoken(l, r) == \A g \in 1..Groups : g \in Said(l) /\ g \in Used(r) => g \in Said(r)

\* All packs of a group move to another one.
LEMMA MovedAll ==
  ASSUME NEW l, Regular(l), NEW g \in 1..Groups, NEW h \in 1..Groups
  PROVE  LET r == MoveAll(l, g, h)
         IN Regular(r) /\ Cores(r) = Cores(l) /\ Spoken(l, r)
<1> DEFINE r == MoveAll(l, g, h)
           K == NamedGroup(l, g)
           b == IF h = MAIN THEN 0 ELSE h
           moved == [i \in DOMAIN l |-> IF i \in K THEN [l[i] EXCEPT !.group = b] ELSE l[i]]
           list == reorder_groupdesc(moved, h)
<1>0. l \in Seq(Pack) /\ Unique(l) /\ DescFirst(l, 1..Groups) /\ DOMAIN l = 1..Len(l) /\ Len(l) \in Nat
      /\ \A i \in DOMAIN l : l[i] \in Pack /\ l[i].group \in 0..Groups /\ l[i].desc \in BOOLEAN
  BY ListFields, PackFields DEF Regular
<1>1. MAIN = 1 /\ b \in 0..Groups /\ 0 \notin 1..Groups /\ h \in 0..Groups /\ (b \in 1..Groups => b = h)
  BY Sizes DEF MAIN
<1>2. \A i \in DOMAIN l : i \in K <=> (l[i].group = g \/ (l[i].group = 0 /\ g = MAIN))
  BY <1>0, <1>1 DEF NamedGroup
<1>3. r = IF g = MAIN /\ h # MAIN THEN add_default_groupdesc(list, h) ELSE list
  BY DEF MoveAll
<1> HIDE DEF r, K, b
<1>4. ASSUME NEW i \in DOMAIN l
      PROVE  /\ moved[i] \in Pack /\ Core(moved[i]) = Core(l[i]) /\ moved[i].desc = l[i].desc
             /\ i \in K => moved[i].group = b
             /\ i \notin K => moved[i].group = l[i].group
  <2>1. l[i] \in Pack
    BY <1>0
  <2>2. /\ [l[i] EXCEPT !.group = b] \in Pack /\ Core([l[i] EXCEPT !.group = b]) = Core(l[i])
        /\ [l[i] EXCEPT !.group = b].group = b /\ [l[i] EXCEPT !.group = b].desc = l[i].desc
    BY <1>1, <2>1, PackGroup
  <2> QED BY <2>1, <2>2
<1>5. DOMAIN moved = DOMAIN l
  OBVIOUS
<1>6. moved \in Seq(Pack)
  <2>1. moved = [i \in 1..Len(l) |-> moved[i]]
    BY <1>0
  <2> HIDE DEF moved
  <2> QED BY <1>0, <1>4, <2>1
<1> HIDE DEF moved
<1>7. Regrouped(l, moved)
  BY <1>4, <1>5, <1>6 DEF Regrouped
<1>8. Unique(moved) /\ Cores(moved) = Cores(l)
  BY <1>0, <1>7, RegroupedSame
<1>9. DescFirst(moved, (1..Groups) \ {h})
  <2> SUFFICES ASSUME NEW i \in DOMAIN l, NEW j \in DOMAIN l, i < j, moved[i].group = moved[j].group,
                      moved[j].group \in (1..Groups) \ {h}
               PROVE moved[j].desc = FALSE
    BY <1>5 DEF DescFirst
  <2>1. i \notin K /\ j \notin K
    BY <1>1, <1>4
  <2> QED BY <1>0, <1>4, <2>1 DEF DescFirst
<1>10. /\ Regrouped(moved, list) /\ DescFirst(list, 1..Groups) /\ Used(list) = Used(moved) /\ Said(list) = Said(moved)
  BY <1>1, <1>6, <1>9, Refirst
<1> HIDE DEF list
<1>11. Regular(list) /\ Cores(list) = Cores(l)
  BY <1>6, <1>8, <1>10, RegroupedSame DEF Regular
<1>12. Regular(r) /\ Cores(r) = Cores(l) /\ Used(r) = Used(list) /\ Said(list) \subseteq Said(r)
  <2>1. CASE r = add_default_groupdesc(list, h)
    <3>1. Regrouped(list, r) /\ Regular(r) /\ Used(r) = Used(list) /\ Said(list) \subseteq Said(r)
      BY <1>11, <2>1, Default
    <3>2. Cores(r) = Cores(list)
      BY <1>11, <3>1, RegroupedSame DEF Regular
    <3> QED BY <1>11, <3>1, <3>2
  <2>2. CASE r = list
    BY <1>11, <2>2
  <2> QED BY <1>3, <2>1, <2>2
<1>13. ASSUME NEW a \in 1..Groups, a \in Said(l), a \in Used(moved) PROVE a \in Said(moved)
  <2>1. PICK i \in DOMAIN l : l[i].group = a /\ l[i].desc
    BY <1>0, <1>13, GroupOf DEF Said
  <2>2. moved[i].group = a
    <3>1. CASE i \notin K
      BY <1>4, <2>1, <3>1
    <3>2. CASE i \in K
      <4>1. a = g
        BY <1>1, <1>2, <2>1, <3>2
      <4>2. PICK j \in DOMAIN l : moved[j].group = a
        BY <1>5, <1>13 DEF Used, InGroup
      <4>3. j \in K
        BY <1>2, <1>4, <4>1, <4>2
      <4> QED BY <1>4, <3>2, <4>2, <4>3
    <3> QED BY <3>1, <3>2
  <2>3. HasDesc(moved, a)
    BY <1>4, <1>5, <1>6, <2>1, <2>2, GroupOf
  <2> QED BY <2>3 DEF Said
<1> QED BY <1>10, <1>12, <1>13 DEF Spoken, r

\* The description of a group is set or taken.
LEMMA Described ==
  ASSUME NEW l, Regular(l), NEW g \in 1..Groups, NEW d \in BOOLEAN
  PROVE  LET r == reorder_new_groupdesc(l, g, d)
         IN Regular(r) /\ Cores(r) = Cores(l) /\ \A h \in 1..Groups : h \in Said(l) /\ h \notin Said(r) => h = g /\ d = FALSE
<1> DEFINE r == reorder_new_groupdesc(l, g, d)
<1>1. l \in Seq(Pack) /\ Unique(l) /\ DescFirst(l, (1..Groups) \ {g})
  BY DEF Regular, DescFirst
<1>2. /\ Regrouped(l, r) /\ DescFirst(r, 1..Groups) /\ Said(r) \ {g} = Said(l) \ {g}
      /\ d = TRUE => Said(r) = Said(l) \cup ({g} \cap Used(l))
  BY <1>1, Reordered
<1> HIDE DEF r
<1>3. r \in Seq(Pack) /\ Unique(r) /\ Cores(r) = Cores(l)
  BY <1>1, <1>2, RegroupedSame
<1>4. ASSUME NEW h \in 1..Groups, h \in Said(l), h \notin Said(r) PROVE h = g /\ d = FALSE
  BY <1>2, <1>4
<1> QED BY <1>2, <1>3, <1>4 DEF r, Regular
-----------------------------------------------------------------------------
(* What the program keeps *)

Requests == [id : Nat, asked : Nat]
Memory == [xdccs : Seq(Pack), queue : Seq(Requests), trig : SUBSET Nat,
           md5build : [id : Nat, of : 0..Mixed], delayed : Seq(Job), freed : SUBSET Nat]

\* No file of the disk d has the content c, and none will have it again.
Gone(c, d) == c % 2 = 1 /\ \A f \in Path : d[f] # c
\* b: the packs with blind sums; z: the next pointer.
TrueSum(p, d, b) == p.md5 # 0 => p.md5 = p.seen \/ p.id \in b \/ Gone(p.seen, d)
TrueSums(l, d, b, z) == \A c \in Cores(l) : TrueSum(c, d, b) /\ c.id \in 1..(z - 1)
\* The job computes the sum of a pack.
Building(job, l, d, b) ==
  job.id # 0 => \E c \in Cores(l) : c.id = job.id /\ (job.of = c.seen \/ c.id \in b \/ Gone(c.seen, d))
Asked(q, l) == \A e \in Elems(q) : e.id = e.asked /\ e.id \in IdsOf(l)
Jobs(q) == \A j \in Elems(q) : j.cmd = "ADD" => j.file \in Path

Good(m, d, b, z) ==
  /\ m \in Memory /\ Regular(m.xdccs) /\ TrueSums(m.xdccs, d, b, z)
  /\ Building(m.md5build, m.xdccs, d, b) /\ Asked(m.queue, m.xdccs) /\ Jobs(m.delayed)
\* X: the packs and triggers that were left behind.
Live(m, X) == m.trig \subseteq Triggers(m.xdccs) \cup X

\* What the state file holds.
Filed == [packs : Seq(Pack), queue : Seq([num : Nat, asked : Nat])]
GoodFile(s, d, b, z) ==
  /\ s \in Filed /\ Regular(s.packs) /\ TrueSums(s.packs, d, b, z)
  /\ \A e \in Elems(s.queue) : e.num \in DOMAIN s.packs => s.packs[e.num].id = e.asked

\* The parts of what the program keeps.
LEMMA MemoryFields ==
  ASSUME NEW m \in Memory
  PROVE  /\ m.xdccs \in Seq(Pack) /\ m.queue \in Seq(Requests) /\ m.trig \in SUBSET Nat
         /\ m.md5build \in [id : Nat, of : 0..Mixed] /\ m.md5build.id \in Nat /\ m.md5build.of \in 0..Mixed
         /\ m.delayed \in Seq(Job)
<1>1. m.md5build \in [id : Nat, of : 0..Mixed]
  BY DEF Memory
<1> QED BY <1>1 DEF Memory

\* Memory stays good when the name of a pack is given back, or is the pack's own again.
LEMMA NameGood ==
  ASSUME NEW m, NEW d, NEW b, NEW z, Good(m, d, b, z), NEW i \in DOMAIN m.xdccs, NEW n, n \in {NameFreed(m, i), Named(m, i)}
  PROVE  /\ Good(n, d, b, z) /\ n.xdccs = m.xdccs /\ n.trig = m.trig /\ n.queue = m.queue
         /\ n.delayed = m.delayed /\ n.md5build = m.md5build
<1>1. m \in Memory /\ m.xdccs \in Seq(Pack)
  BY DEF Good, Regular
<1>2. m.xdccs[i].id \in Nat /\ m.freed \in SUBSET Nat
  <2>1. m.xdccs[i] \in Pack
    BY <1>1, ListFields
  <2> QED BY <1>1, <2>1, PackFields DEF Memory
<1>3. PICK F \in SUBSET Nat : n = [m EXCEPT !.freed = F]
  BY <1>2 DEF NameFreed, Named
<1>4. /\ n \in Memory /\ n.xdccs = m.xdccs /\ n.trig = m.trig /\ n.queue = m.queue
      /\ n.delayed = m.delayed /\ n.md5build = m.md5build
  BY <1>1, <1>3 DEF Memory
<1> QED BY <1>4 DEF Good

\* The triggers and pointers of packs are part of what is kept of them.
LEMMA TriggersOf ==
  ASSUME NEW l \in Seq(Pack)
  PROVE  /\ \A x : x \in Triggers(l) <=> \E c \in Cores(l) : c.id = x /\ c.trigger = TRUE
         /\ \A x : x \in IdsOf(l) <=> \E c \in Cores(l) : c.id = x
<1>1. \A i \in DOMAIN l : l[i].trigger \in BOOLEAN /\ Core(l[i]).trigger = l[i].trigger /\ Core(l[i]).id = l[i].id
  BY ListFields, PackFields
<1>2. \A x : x \in Triggers(l) <=> \E i \in DOMAIN l : l[i].id = x /\ l[i].trigger = TRUE
  BY <1>1 DEF Triggers
<1>3. \A c : c \in Cores(l) <=> \E i \in DOMAIN l : c = Core(l[i])
  BY DEF Cores
<1>4. \A x : x \in Triggers(l) <=> \E c \in Cores(l) : c.id = x /\ c.trigger = TRUE
  BY <1>1, <1>2, <1>3
<1>5. \A x : x \in IdsOf(l) <=> \E i \in DOMAIN l : l[i].id = x
  BY DEF IdsOf
<1> QED BY <1>1, <1>3, <1>4, <1>5

\* What only reorders and regroups the packs.
LEMMA GoodArranged ==
  ASSUME NEW m, NEW d, NEW b, NEW z, Good(m, d, b, z), NEW r, Regular(r), Cores(r) = Cores(m.xdccs)
  PROVE  LET n == [m EXCEPT !.xdccs = r]
         IN /\ Good(n, d, b, z) /\ n.xdccs = r /\ n.trig = m.trig
            /\ \A X : Live(m, X) => Live(n, X)
<1> DEFINE n == [m EXCEPT !.xdccs = r]
           l == m.xdccs
<1>1. /\ m \in Memory /\ Regular(l) /\ TrueSums(l, d, b, z)
      /\ Building(m.md5build, l, d, b) /\ Asked(m.queue, l) /\ Jobs(m.delayed)
  BY DEF Good
<1>2. r \in Seq(Pack) /\ l \in Seq(Pack)
  BY <1>1 DEF Regular
<1>3. n \in Memory /\ n.xdccs = r /\ n.queue = m.queue /\ n.trig = m.trig /\ n.md5build = m.md5build /\ n.delayed = m.delayed
  BY <1>1, <1>2 DEF Memory
<1> HIDE DEF n, l
<1>4. TrueSums(r, d, b, z) /\ Building(m.md5build, r, d, b)
  BY <1>1 DEF TrueSums, Building, l
<1>5. IdsOf(r) = IdsOf(l) /\ Triggers(r) = Triggers(l)
  <2>1. Cores(r) = Cores(l)
    BY DEF l
  <2>2. /\ \A x : x \in Triggers(l) <=> \E c \in Cores(l) : c.id = x /\ c.trigger = TRUE
        /\ \A x : x \in IdsOf(l) <=> \E c \in Cores(l) : c.id = x
    BY ONLY <1>2, TriggersOf
  <2>3. /\ \A x : x \in Triggers(r) <=> \E c \in Cores(r) : c.id = x /\ c.trigger = TRUE
        /\ \A x : x \in IdsOf(r) <=> \E c \in Cores(r) : c.id = x
    BY ONLY <1>2, TriggersOf
  <2> QED BY ONLY <2>1, <2>2, <2>3
<1>6. Asked(m.queue, r)
  BY <1>1, <1>5 DEF Asked
<1>7. Good(n, d, b, z)
  BY <1>1, <1>3, <1>4, <1>6 DEF Good
<1>8. \A X : Live(m, X) => Live(n, X)
  BY <1>3, <1>5 DEF Live, l
<1> QED BY <1>3, <1>7, <1>8 DEF n

\* The positions of packs by their pointers.
LEMMA Found ==
  ASSUME NEW l \in Seq(Pack), NEW x
  PROVE  /\ x \in IdsOf(l) => At(l, x) \in DOMAIN l /\ l[At(l, x)].id = x
         /\ number_of_pack(l, x) \in Nat
         /\ number_of_pack(l, x) \in DOMAIN l => x \in IdsOf(l) /\ l[number_of_pack(l, x)].id = x
<1>1. x \in IdsOf(l) => At(l, x) \in DOMAIN l /\ l[At(l, x)].id = x
  BY DEF IdsOf, At
<1>2. DOMAIN l = 1..Len(l) /\ Len(l) \in Nat
  BY ListFields
<1>3. 0 \notin DOMAIN l /\ DOMAIN l \subseteq Nat
  BY <1>2
<1> QED BY <1>1, <1>3 DEF number_of_pack

\* What is saved is good if what is kept is.
LEMMA Written ==
  ASSUME NEW m, NEW d, NEW b, NEW z, Good(m, d, b, z)
  PROVE  GoodFile(write_statefile(m), d, b, z)
<1> DEFINE l == m.xdccs
           q == m.queue
           w == [i \in DOMAIN q |-> [num |-> number_of_pack(l, q[i].id), asked |-> q[i].asked]]
<1>1. m \in Memory /\ Regular(l) /\ TrueSums(l, d, b, z) /\ Asked(q, l)
  BY DEF Good
<1>2. l \in Seq(Pack) /\ q \in Seq(Requests)
  BY <1>1, MemoryFields
<1>3. write_statefile(m) = [packs |-> l, queue |-> w]
  BY DEF write_statefile
<1> HIDE DEF l, q
<1>4. DOMAIN q = 1..Len(q) /\ Len(q) \in Nat /\ \A i \in DOMAIN q : q[i].id \in Nat /\ q[i].asked \in Nat
  <2>1. DOMAIN q = 1..Len(q) /\ Len(q) \in Nat /\ \A i \in DOMAIN q : q[i] \in Requests
    BY <1>2
  <2>2. \A e \in Requests : e.id \in Nat /\ e.asked \in Nat
    BY DEF Requests
  <2> QED BY <2>1, <2>2
<1>5. \A i \in DOMAIN q : w[i] \in [num : Nat, asked : Nat] /\ w[i].num = number_of_pack(l, q[i].id) /\ w[i].asked = q[i].asked
  BY <1>2, <1>4, Found
<1>6. DOMAIN w = DOMAIN q /\ w \in Seq([num : Nat, asked : Nat])
  <2>1. w = [i \in 1..Len(q) |-> w[i]]
    BY <1>4
  <2> HIDE DEF w
  <2> QED BY <1>4, <1>5, <2>1
<1> HIDE DEF w
<1>7. \A e \in Elems(w) : e.num \in DOMAIN l => l[e.num].id = e.asked
  <2> SUFFICES ASSUME NEW i \in DOMAIN q, w[i].num \in DOMAIN l PROVE l[w[i].num].id = w[i].asked
    BY <1>6 DEF Elems
  <2>1. l[w[i].num].id = q[i].id
    BY <1>2, <1>5, Found
  <2>2. q[i].id = q[i].asked
    BY <1>1 DEF Asked, Elems
  <2> QED BY <1>5, <2>1, <2>2
<1>8. write_statefile(m) \in Filed /\ write_statefile(m).packs = l /\ write_statefile(m).queue = w
  BY <1>2, <1>3, <1>6 DEF Filed
<1> QED BY <1>1, <1>7, <1>8 DEF GoodFile

\* The packs one by one.
LEMMA OneByOne ==
  ASSUME NEW l \in Seq(Pack), NEW d, NEW b, NEW z, NEW job
  PROVE  /\ TrueSums(l, d, b, z) <=> \A i \in DOMAIN l : TrueSum(l[i], d, b) /\ l[i].id \in 1..(z - 1)
         /\ Building(job, l, d, b) <=>
              (job.id # 0 => \E i \in DOMAIN l : l[i].id = job.id /\ (job.of = l[i].seen \/ l[i].id \in b \/ Gone(l[i].seen, d)))
<1>1. \A i \in DOMAIN l : Core(l[i]).id = l[i].id /\ Core(l[i]).seen = l[i].seen /\ Core(l[i]).md5 = l[i].md5
  BY ListFields, PackFields
<1>2. \A i \in DOMAIN l : TrueSum(Core(l[i]), d, b) <=> TrueSum(l[i], d, b)
  BY <1>1 DEF TrueSum
<1>3. TrueSums(l, d, b, z) <=> \A i \in DOMAIN l : TrueSum(l[i], d, b) /\ l[i].id \in 1..(z - 1)
  BY <1>1, <1>2 DEF TrueSums, Cores
<1>4. Building(job, l, d, b) <=>
        (job.id # 0 => \E i \in DOMAIN l : l[i].id = job.id /\ (job.of = l[i].seen \/ l[i].id \in b \/ Gone(l[i].seen, d)))
  BY <1>1 DEF Building, Cores
<1> QED BY <1>3, <1>4

\* The pack whose sum is computed.
LEMMA OneBuilding ==
  ASSUME NEW l \in Seq(Pack), NEW d, NEW b, NEW job, Building(job, l, d, b), job.id # 0
  PROVE  \E i \in DOMAIN l : l[i].id = job.id /\ (job.of = l[i].seen \/ l[i].id \in b \/ Gone(l[i].seen, d))
<1>1. \A i \in DOMAIN l : Core(l[i]).id = l[i].id /\ Core(l[i]).seen = l[i].seen
  BY ListFields, PackFields
<1> QED BY <1>1 DEF Building, Cores

\* r is l with other files, sums and triggers.
Revised(l, r) ==
  /\ r \in Seq(Pack) /\ DOMAIN r = DOMAIN l
  /\ \A i \in DOMAIN l : r[i].id = l[i].id /\ r[i].group = l[i].group /\ r[i].desc = l[i].desc

\* Numbers, groups and descriptions are the same after a revision.
LEMMA RevisedSame ==
  ASSUME NEW l, NEW r, Regular(l), Revised(l, r)
  PROVE  /\ Regular(r) /\ IdsOf(r) = IdsOf(l) /\ Used(r) = Used(l) /\ Said(r) = Said(l) /\ Bare(r) = Bare(l)
         /\ \A g : InGroup(r, g) = InGroup(l, g)
<1>1. l \in Seq(Pack) /\ Unique(l) /\ DescFirst(l, 1..Groups) /\ r \in Seq(Pack) /\ DOMAIN r = DOMAIN l
      /\ \A i \in DOMAIN l : r[i].id = l[i].id /\ r[i].group = l[i].group /\ r[i].desc = l[i].desc
  BY DEF Regular, Revised
<1>2. Unique(r) /\ DescFirst(r, 1..Groups)
  BY <1>1 DEF Unique, DescFirst
<1>3. IdsOf(r) = IdsOf(l)
  BY <1>1 DEF IdsOf
<1>4. \A g : InGroup(r, g) = InGroup(l, g) /\ (HasDesc(r, g) <=> HasDesc(l, g))
  BY <1>1 DEF InGroup, HasDesc
<1>5. Used(r) = Used(l) /\ Said(r) = Said(l)
  BY <1>4 DEF Used, Said
<1> QED BY <1>1, <1>2, <1>3, <1>4, <1>5 DEF Regular, Bare

\* Two revisions are one.
LEMMA RevisedAgain ==
  ASSUME NEW l, NEW r, NEW s, Revised(l, r), Revised(r, s)
  PROVE  Revised(l, s)
BY DEF Revised

\* One pack is revised.
LEMMA RevisedOne ==
  ASSUME NEW l \in Seq(Pack), NEW i \in DOMAIN l, NEW p \in Pack, p.id = l[i].id, p.group = l[i].group, p.desc = l[i].desc
  PROVE  /\ Revised(l, [l EXCEPT ![i] = p]) /\ [l EXCEPT ![i] = p][i] = p
         /\ \A j \in DOMAIN l : j # i => [l EXCEPT ![i] = p][j] = l[j]
<1> DEFINE r == [l EXCEPT ![i] = p]
<1>1. r \in Seq(Pack) /\ DOMAIN r = DOMAIN l /\ r[i] = p /\ \A j \in DOMAIN l : j # i => r[j] = l[j]
  OBVIOUS
<1> HIDE DEF r
<1>2. \A j \in DOMAIN l : r[j].id = l[j].id /\ r[j].group = l[j].group /\ r[j].desc = l[j].desc
  BY <1>1
<1> QED BY <1>1, <1>2 DEF Revised, r

\* Memory stays good when packs are revised, if the sums and the job stay true.
LEMMA GoodRevised ==
  ASSUME NEW m, NEW d, NEW b, NEW z, Good(m, d, b, z), NEW n \in Memory, Revised(m.xdccs, n.xdccs),
         n.queue = m.queue, Jobs(n.delayed), NEW d2, NEW b2, NEW z2,
         TrueSums(n.xdccs, d2, b2, z2), Building(n.md5build, n.xdccs, d2, b2)
  PROVE  Good(n, d2, b2, z2)
<1>1. Regular(m.xdccs) /\ Asked(m.queue, m.xdccs)
  BY DEF Good
<1>2. Regular(n.xdccs) /\ IdsOf(n.xdccs) = IdsOf(m.xdccs)
  BY <1>1, RevisedSame
<1>3. Asked(n.queue, n.xdccs)
  BY <1>1, <1>2 DEF Asked
<1> QED BY <1>2, <1>3 DEF Good

\* A pack is removed with its requests and its checksum job.
LEMMA RemoveOne ==
  ASSUME NEW m, NEW d, NEW b, NEW z, Good(m, d, b, z), NEW i \in DOMAIN m.xdccs
  PROVE  LET n == remove_pack2(m, i)
         IN /\ Good(n, d, b, z) /\ n.trig = m.trig /\ Bare(n.xdccs) \subseteq Bare(m.xdccs) /\ n.delayed = m.delayed
            /\ \A c : c \in Cores(n.xdccs) <=> c \in Cores(m.xdccs) /\ c.id # m.xdccs[i].id
<1> DEFINE n == remove_pack2(m, i)
           l == m.xdccs
           p == m.xdccs[i]
           out == Drop(m.xdccs, i)
           r == IF p.desc /\ p.group # 0 THEN reorder_new_groupdesc(out, p.group, TRUE) ELSE out
           q == Keep(m.queue, {k \in DOMAIN m.queue : m.queue[k].id # p.id})
           job == IF m.md5build.id = p.id THEN [id |-> 0, of |-> 0] ELSE m.md5build
<1>1. /\ m \in Memory /\ Regular(l) /\ TrueSums(l, d, b, z)
      /\ Building(m.md5build, l, d, b) /\ Asked(m.queue, l) /\ Jobs(m.delayed)
  BY DEF Good
<1>2. l \in Seq(Pack) /\ m.queue \in Seq(Requests) /\ p \in Pack /\ p.group \in 0..Groups /\ p.desc \in BOOLEAN /\ p.id \in Nat
      /\ m.md5build \in [id : Nat, of : 0..Mixed]
  BY <1>1, MemoryFields, ListFields, PackFields
<1>3. n = [m EXCEPT !.md5build = job, !.xdccs = r, !.queue = q]
  <2>1. cancel_md5_hash(m, i) = [m EXCEPT !.md5build = job, !.xdccs = [m.xdccs EXCEPT ![i] = [m.xdccs[i] EXCEPT !.md5 = 0]]]
    BY DEF cancel_md5_hash
  <2>2. n = [cancel_md5_hash(m, i) EXCEPT !.xdccs = r, !.queue = q]
    BY DEF remove_pack2
  <2> HIDE DEF n, r, q, job, l, p, out
  <2> QED BY <1>1, <2>1, <2>2 DEF Memory
<1>4. /\ Regular(out) /\ Elems(out) = Elems(l) \ {p} /\ \A c : c \in Cores(out) <=> c \in Cores(l) /\ c.id # p.id
      /\ Used(out) \subseteq Used(l)
      /\ \A g \in 1..Groups : g \in Said(l) /\ g \notin Said(out) => p.group = g /\ p.desc = TRUE
  <2>1. i \in DOMAIN l
    OBVIOUS
  <2>2. /\ Regular(Drop(l, i)) /\ Elems(Drop(l, i)) = Elems(l) \ {l[i]}
        /\ \A c : c \in Cores(Drop(l, i)) <=> c \in Cores(l) /\ c.id # l[i].id
        /\ Used(Drop(l, i)) \subseteq Used(l)
        /\ \A g \in 1..Groups : g \in Said(l) /\ g \notin Said(Drop(l, i)) => l[i].group = g /\ l[i].desc = TRUE
    <3> HIDE DEF l
    <3> QED BY ONLY <1>1, <2>1, Without
  <2> QED BY <2>2
<1>5. Regular(r) /\ Cores(r) = Cores(out) /\ Bare(r) \subseteq Bare(l)
  <2> DEFINE a == p.group
  <2>1. CASE p.desc = TRUE /\ a # 0
    <3>0. a \in 1..Groups
      BY <1>2, <2>1, Sizes
    <3>1. r = reorder_new_groupdesc(out, a, TRUE)
      BY <2>1
    <3> HIDE DEF r, out, l, a, p
    <3>2. out \in Seq(Pack) /\ Unique(out) /\ DescFirst(out, (1..Groups) \ {a})
      BY <1>4 DEF Regular, DescFirst
    <3>3. /\ Regrouped(out, r) /\ DescFirst(r, 1..Groups) /\ Used(r) = Used(out)
          /\ Said(r) = Said(out) \cup ({a} \cap Used(out))
      BY <3>0, <3>1, <3>2, Reordered
    <3>4. r \in Seq(Pack) /\ Unique(r) /\ Cores(r) = Cores(out)
      BY <3>2, <3>3, RegroupedSame
    <3>5. Bare(r) \subseteq Bare(l)
      BY <1>4, <3>3 DEF Bare, Used, a
    <3> QED BY <3>3, <3>4, <3>5 DEF Regular
  <2>2. CASE ~(p.desc = TRUE /\ a # 0)
    <3>1. r = out
      BY <1>2, <2>2
    <3>2. 0 \notin 1..Groups
      BY Sizes
    <3> HIDE DEF r, out, l, p
    <3>3. Bare(out) \subseteq Bare(l)
      BY <1>4, <2>2, <3>2 DEF Bare, Used, a
    <3> QED BY <1>4, <3>1, <3>3
  <2> QED BY <2>1, <2>2
<1>6. q \in Seq(Requests) /\ \A e \in Elems(q) : e \in Elems(m.queue) /\ e.id # p.id
  <2> DEFINE K == {k \in DOMAIN m.queue : m.queue[k].id # p.id}
  <2>1. K \subseteq DOMAIN m.queue
    OBVIOUS
  <2>2. Keep(m.queue, K) \in Seq({m.queue[k] : k \in K}) /\ Keep(m.queue, K) \in Seq(Requests)
    <3> HIDE DEF K
    <3> QED BY <1>2, <2>1, KeepType
  <2>3. q = Keep(m.queue, K)
    OBVIOUS
  <2> HIDE DEF q
  <2>4. \A e \in Elems(q) : e \in {m.queue[k] : k \in K}
    <3> HIDE DEF K
    <3> QED BY <2>2, <2>3 DEF Elems
  <2>5. \A k \in K : m.queue[k] \in Elems(m.queue) /\ m.queue[k].id # p.id
    BY DEF Elems
  <2> HIDE DEF K
  <2> QED BY <2>2, <2>3, <2>4, <2>5
<1>7. job \in [id : Nat, of : 0..Mixed] /\ (job.id # 0 => job = m.md5build /\ job.id # p.id)
  <2>1. [id |-> 0, of |-> 0] \in [id : Nat, of : 0..Mixed]
    BY Sizes DEF Mixed
  <2> QED BY <1>2, <2>1
<1> HIDE DEF n, r, q, job, out
<1>8. n \in Memory /\ n.xdccs = r /\ n.queue = q /\ n.trig = m.trig /\ n.md5build = job /\ n.delayed = m.delayed
  <2>1. r \in Seq(Pack)
    BY <1>5 DEF Regular
  <2> QED BY <1>1, <1>3, <1>6, <1>7, <2>1 DEF Memory
<1> HIDE DEF l, p
<1>9. \A c : c \in Cores(r) <=> c \in Cores(l) /\ c.id # p.id
  BY <1>4, <1>5
<1>10. TrueSums(r, d, b, z) /\ Building(job, r, d, b)
  BY <1>1, <1>7, <1>9 DEF TrueSums, Building
<1>11. Asked(q, r)
  <2> SUFFICES ASSUME NEW e \in Elems(q) PROVE e.id = e.asked /\ e.id \in IdsOf(r)
    BY DEF Asked
  <2>1. e.id = e.asked /\ e.id \in IdsOf(l) /\ e.id # p.id
    BY <1>1, <1>6 DEF Asked
  <2>2. PICK c \in Cores(l) : c.id = e.id
    BY <1>2, <2>1, TriggersOf
  <2>3. c \in Cores(r)
    BY <1>9, <2>1, <2>2
  <2>4. r \in Seq(Pack)
    BY <1>5 DEF Regular
  <2> QED BY <2>1, <2>2, <2>3, <2>4, TriggersOf
<1>12. Good(n, d, b, z)
  BY <1>1, <1>5, <1>8, <1>10, <1>11 DEF Good
<1> QED BY <1>5, <1>8, <1>9, <1>12 DEF n, l, p

\* The last position of a set is one of it.
LEMMA HighestType ==
  ASSUME NEW n \in Nat, NEW K, K \subseteq 1..n, K # {}
  PROVE  Highest(K) \in K /\ \A j \in K : j <= Highest(K)
<1> DEFINE R == {j \in 0..n : n - j \in K}
<1>1. R \subseteq Nat
  OBVIOUS
<1>2. R # {}
  <2>1. PICK j \in K : TRUE
    OBVIOUS
  <2>2. j \in 1..n /\ n - j \in 0..n /\ n - (n - j) = j
    BY <2>1
  <2>3. n - j \in R
    BY <2>1, <2>2
  <2> QED BY <2>3
<1>3. PICK x \in R : \A y \in R : x <= y
  <2> HIDE DEF R
  <2> QED BY <1>1, <1>2, LeastNat
<1>4. n - x \in K
  BY <1>3
<1>5. ASSUME NEW j \in K PROVE j <= n - x
  <2>1. j \in 1..n /\ n - j \in 0..n /\ n - (n - j) = j
    OBVIOUS
  <2>2. n - j \in R /\ x \in Nat
    BY <1>1, <1>3, <2>1
  <2>3. x <= n - j
    BY <1>3, <2>2
  <2> QED BY <2>1, <2>2, <2>3
<1>6. \E i \in K : \A j \in K : j <= i
  BY <1>4, <1>5
<1> QED BY <1>6 DEF Highest

\* n is what is left of m when some packs are removed.
Outlives(m, n, ids) ==
  /\ n.trig = m.trig /\ n.delayed = m.delayed /\ Bare(n.xdccs) \subseteq Bare(m.xdccs)
  /\ Cores(n.xdccs) \subseteq Cores(m.xdccs)
  /\ \A c \in Cores(m.xdccs) : c.id \notin ids => c \in Cores(n.xdccs)

Marked(v, ids) == {i \in DOMAIN v.xdccs : v.xdccs[i].id \in ids}
Removing(v, ids) == IF Marked(v, ids) = {} THEN v ELSE remove_pack2(v, Highest(Marked(v, ids)))

\* One more pack of a set is removed.
LEMMA RemoveNext ==
  ASSUME NEW m, NEW n, NEW d, NEW b, NEW z, NEW ids, Good(n, d, b, z), Outlives(m, n, ids)
  PROVE  Good(Removing(n, ids), d, b, z) /\ Outlives(m, Removing(n, ids), ids)
<1> DEFINE K == Marked(n, ids)
           r == Removing(n, ids)
           i == Highest(K)
<1>1. CASE K = {}
  BY <1>1 DEF Removing
<1>2. CASE K # {}
  <2>1. n.xdccs \in Seq(Pack)
    BY MemoryFields DEF Good
  <2>2. K \subseteq 1..Len(n.xdccs) /\ Len(n.xdccs) \in Nat /\ DOMAIN n.xdccs = 1..Len(n.xdccs)
    BY <2>1, ListFields DEF Marked
  <2>3. i \in K
    <3> HIDE DEF K
    <3> QED BY <1>2, <2>2, HighestType
  <2>4. i \in DOMAIN n.xdccs /\ n.xdccs[i].id \in ids
    <3> HIDE DEF i
    <3> QED BY <2>3 DEF Marked
  <2>5. r = remove_pack2(n, i)
    BY <1>2 DEF Removing
  <2> HIDE DEF r, i, K
  <2>6. /\ Good(r, d, b, z) /\ r.trig = n.trig /\ Bare(r.xdccs) \subseteq Bare(n.xdccs) /\ r.delayed = n.delayed
        /\ \A c : c \in Cores(r.xdccs) <=> c \in Cores(n.xdccs) /\ c.id # n.xdccs[i].id
    BY <2>4, <2>5, RemoveOne
  <2>7. Outlives(m, r, ids)
    BY <2>4, <2>6 DEF Outlives
  <2> QED BY <2>6, <2>7 DEF r
<1> QED BY <1>1, <1>2

\* Packs are removed one after another.
LEMMA RemovedAll ==
  ASSUME NEW m, NEW d, NEW b, NEW z, NEW ids, Good(m, d, b, z)
  PROVE  Good(RemoveAll(m, ids), d, b, z) /\ Outlives(m, RemoveAll(m, ids), ids)
<1> DEFINE c == Len(m.xdccs)
           Is(f) == f = [k \in 0..c |-> IF k = 0 THEN m ELSE Removing(f[k - 1], ids)]
           S == {v \in Memory : Good(v, d, b, z) /\ Outlives(m, v, ids)}
           D == [k \in 1..c |-> [v \in S |-> Removing(v, ids)]]
           V == CHOOSE f : Is(f)
<1>1. RemoveAll(m, ids) = V[c]
  BY DEF RemoveAll, Removing, Marked
<1>2. c \in Nat /\ m \in Memory
  BY MemoryFields, ListFields DEF Good
<1>3. m \in S
  BY <1>2 DEF Outlives
<1> HIDE DEF c
<1>4. ASSUME NEW k \in 1..c, NEW v \in S PROVE Removing(v, ids) \in S
  <2>1. Good(Removing(v, ids), d, b, z) /\ Outlives(m, Removing(v, ids), ids)
    BY RemoveNext
  <2> QED BY <2>1 DEF Good
<1> HIDE DEF S
<1>5. D \in StepsOf(c, S) /\ \A k \in 1..c : \A v \in S : D[k][v] = Removing(v, ids)
  BY <1>4 DEF StepsOf
<1> HIDE DEF D
<1>6. Made(c, S, m, D)
  BY <1>2, <1>3, <1>5, Iterated
<1>7. \A k \in 1..c : k \in 0..c /\ k # 0 /\ k - 1 \in 0..c
  BY <1>2
<1>8. \E f : Is(f)
  <2>1. PICK f \in [0..c -> S] : f[0] = m /\ \A k \in 1..c : f[k] = D[k][f[k - 1]]
    BY <1>6 DEF Made
  <2>2. \A k \in 1..c : f[k] = Removing(f[k - 1], ids)
    BY <1>5, <1>7, <2>1
  <2>3. \A k \in 0..c : k # 0 => k \in 1..c
    BY <1>2
  <2>4. \A k \in 0..c : f[k] = IF k = 0 THEN m ELSE Removing(f[k - 1], ids)
    BY <2>1, <2>2, <2>3
  <2>5. f = [k \in 0..c |-> f[k]]
    BY <2>1
  <2>6. Is(f)
    BY ONLY <2>4, <2>5
  <2> QED BY <2>6
<1>9. Is(V)
  <2> HIDE DEF Is
  <2> QED BY <1>8
<1> HIDE DEF V
<1>10. V[0] = m /\ \A k \in 1..c : V[k] = Removing(V[k - 1], ids)
  BY <1>2, <1>7, <1>9
<1> HIDE DEF Is
<1>11. \A k \in 0..c : V[k] \in S
  <2>1. \A k \in 1..c : V[k - 1] \in S => V[k] = D[k][V[k - 1]]
    BY <1>5, <1>10
  <2> QED BY <1>6, <1>10, <2>1 DEF Made
<1>12. V[c] \in S
  BY <1>2, <1>11
<1> QED BY <1>1, <1>12 DEF S

\* n is m but for one pack, of which the file, the sum or the trigger changed, and the
\* job, which may be cancelled.
OneChange(m, i, p, job, n) ==
  /\ i \in DOMAIN m.xdccs /\ p \in Pack
  /\ p.id = m.xdccs[i].id /\ p.group = m.xdccs[i].group /\ p.desc = m.xdccs[i].desc
  /\ job \in [id : Nat, of : 0..Mixed]
  /\ job.id = 0 \/ (job = m.md5build /\ (job.id # p.id \/ p.seen = m.xdccs[i].seen))
  /\ n = [m EXCEPT !.xdccs = [m.xdccs EXCEPT ![i] = p], !.md5build = job]

\* Memory stays good when one pack changes.
LEMMA GoodOne ==
  ASSUME NEW m, NEW d, NEW b, NEW z, Good(m, d, b, z), NEW i, NEW p, NEW job, NEW n, OneChange(m, i, p, job, n),
         TrueSum(p, d, b)
  PROVE  /\ Good(n, d, b, z) /\ Revised(m.xdccs, n.xdccs) /\ n.queue = m.queue /\ n.delayed = m.delayed
         /\ n.trig = m.trig /\ n.md5build = job /\ n.xdccs[i] = p
         /\ p.trigger = m.xdccs[i].trigger => Triggers(n.xdccs) = Triggers(m.xdccs)
<1> DEFINE l == m.xdccs
           r == [m.xdccs EXCEPT ![i] = p]
<1>0. /\ i \in DOMAIN m.xdccs /\ p \in Pack
      /\ p.id = m.xdccs[i].id /\ p.group = m.xdccs[i].group /\ p.desc = m.xdccs[i].desc
      /\ job \in [id : Nat, of : 0..Mixed]
      /\ job.id = 0 \/ (job = m.md5build /\ (job.id # p.id \/ p.seen = m.xdccs[i].seen))
      /\ n = [m EXCEPT !.xdccs = [m.xdccs EXCEPT ![i] = p], !.md5build = job]
  BY DEF OneChange
<1>1. /\ m \in Memory /\ Regular(l) /\ TrueSums(l, d, b, z)
      /\ Building(m.md5build, l, d, b) /\ Jobs(m.delayed) /\ l \in Seq(Pack)
  BY DEF Good, Regular
<1>2. /\ Revised(l, r) /\ r[i] = p /\ \A j \in DOMAIN l : j # i => r[j] = l[j]
  BY <1>0, <1>1, RevisedOne
<1>3. r \in Seq(Pack) /\ DOMAIN r = DOMAIN l
  BY <1>2 DEF Revised
<1> HIDE DEF r
<1>4. n \in Memory /\ n.xdccs = r /\ n.queue = m.queue /\ n.trig = m.trig /\ n.md5build = job /\ n.delayed = m.delayed
  <2>1. n = [m EXCEPT !.xdccs = r, !.md5build = job] /\ job \in [id : Nat, of : 0..Mixed]
    BY <1>0 DEF r
  <2> QED BY ONLY <1>1, <1>3, <2>1 DEF Memory
<1>5. i \in DOMAIN l /\ p.id = l[i].id /\ p.trigger \in BOOLEAN /\ \A j \in DOMAIN l : l[j].trigger \in BOOLEAN
  BY <1>0, <1>1, ListFields, PackFields
<1>5a. m.xdccs[i].seen = l[i].seen /\ m.xdccs[i].trigger = l[i].trigger
  OBVIOUS
<1> HIDE DEF l
<1>6. TrueSums(r, d, b, z)
  <2>1. \A j \in DOMAIN l : TrueSum(l[j], d, b) /\ l[j].id \in 1..(z - 1)
    BY <1>1, OneByOne
  <2>2. \A j \in DOMAIN r : TrueSum(r[j], d, b) /\ r[j].id \in 1..(z - 1)
    BY <1>2, <1>3, <1>5, <2>1
  <2> QED BY <1>3, <2>2, OneByOne
<1>7. Building(job, r, d, b)
  <2>1. CASE job.id = 0
    BY <2>1 DEF Building
  <2>2. CASE job.id # 0
    <3>1. job = m.md5build /\ (job.id # p.id \/ p.seen = l[i].seen)
      BY <1>0, <1>5a, <2>2
    <3>2. PICK j \in DOMAIN l : l[j].id = job.id /\ (job.of = l[j].seen \/ l[j].id \in b \/ Gone(l[j].seen, d))
      BY <1>1, <2>2, <3>1, OneByOne
    <3>3. r[j].id = job.id /\ (job.of = r[j].seen \/ r[j].id \in b \/ Gone(r[j].seen, d))
      <4>1. CASE j # i
        BY <1>2, <3>2, <4>1
      <4>2. CASE j = i
        BY <1>2, <1>5, <3>1, <3>2, <4>2
      <4> QED BY <4>1, <4>2
    <3> QED BY <1>3, <3>3, OneByOne
  <2> QED BY <2>1, <2>2
<1>8. Good(n, d, b, z)
  <2>1. Revised(m.xdccs, n.xdccs) /\ Jobs(n.delayed) /\ TrueSums(n.xdccs, d, b, z) /\ Building(n.md5build, n.xdccs, d, b)
    BY <1>1, <1>2, <1>4, <1>6, <1>7 DEF l
  <2> QED BY <1>4, <2>1, GoodRevised
<1>9. ASSUME p.trigger = l[i].trigger PROVE Triggers(r) = Triggers(l)
  <2>1. \A j \in DOMAIN l : r[j].trigger = l[j].trigger /\ r[j].id = l[j].id
    BY <1>2, <1>5, <1>9
  <2> QED BY <1>3, <2>1 DEF Triggers
<1> QED BY <1>2, <1>4, <1>5a, <1>8, <1>9 DEF r, l

Disk == [Path -> 0..(2 * Inodes)]

\* Nothing that n says of packs, requests and triggers is other than m says.
Alike(m, n) ==
  Revised(m.xdccs, n.xdccs) /\ Triggers(n.xdccs) = Triggers(m.xdccs) /\ n.trig = m.trig /\ n.delayed = m.delayed
    /\ n.queue = m.queue

\* Memory is like itself.
LEMMA AlikeSame ==
  ASSUME NEW m, Regular(m.xdccs)
  PROVE  Alike(m, m)
BY DEF Alike, Revised, Regular

\* What is like something like memory is like it.
LEMMA AlikeAgain ==
  ASSUME NEW m, NEW n, NEW o, Alike(m, n), Alike(n, o)
  PROVE  Alike(m, o)
BY RevisedAgain DEF Alike

\* A job that is none.
LEMMA NoJob ==
  [id |-> 0, of |-> 0] \in [id : Nat, of : 0..Mixed] /\ Mixed \in Nat /\ \A c \in 0..(2 * Inodes) : c \in 0..Mixed
BY Sizes DEF Mixed

\* A changed file is noticed.
LEMMA LookedGood ==
  ASSUME NEW m, NEW b, NEW z, Good(m, disk, b, z), disk \in Disk, NEW i \in DOMAIN m.xdccs
  PROVE  Good(Looked(m, i), disk, b, z) /\ Alike(m, Looked(m, i))
<1> DEFINE l == m.xdccs
           p == l[i]
           c == disk[p.file]
           q == [p EXCEPT !.seen = c, !.md5 = 0]
           job == IF m.md5build.id = p.id THEN [id |-> 0, of |-> 0] ELSE m.md5build
           n == [m EXCEPT !.xdccs = [m.xdccs EXCEPT ![i] = q], !.md5build = job]
<1>1. m \in Memory /\ Regular(l) /\ l \in Seq(Pack) /\ p \in Pack /\ p.file \in Path /\ m.md5build \in [id : Nat, of : 0..Mixed]
  <2>1. m \in Memory /\ Regular(l)
    BY DEF Good
  <2> QED BY <2>1, MemoryFields, ListFields, PackFields
<1>2. CASE c \in {0, p.seen}
  <2>1. Looked(m, i) = m
    BY <1>2 DEF Looked
  <2> QED BY <1>1, <2>1, AlikeSame
<1>3. CASE ~(c \in {0, p.seen})
  <2>1. Looked(m, i) = cancel_md5_hash([m EXCEPT !.xdccs[i].seen = c], i)
    BY <1>3 DEF Looked
  <2>2. c \in 0..(2 * Inodes)
    BY <1>1 DEF Disk
  <2>3. q \in Pack /\ q.id = p.id /\ q.group = p.group /\ q.desc = p.desc /\ q.trigger = p.trigger /\ q.md5 = 0
    <3>1. 0 \in 0..Mixed
      BY NoJob
    <3> HIDE DEF c, p
    <3> QED BY <1>1, <2>2, <3>1 DEF Pack
  <2>4. job \in [id : Nat, of : 0..Mixed] /\ (job.id = 0 \/ (job = m.md5build /\ job.id # q.id))
    BY <1>1, <2>3, NoJob
  <2>5. Looked(m, i) = n
    <3> DEFINE s == [m EXCEPT !.xdccs = [l EXCEPT ![i] = [p EXCEPT !.seen = c]]]
    <3>1. [m EXCEPT !.xdccs[i].seen = c] = s
      BY DEF s
    <3> HIDE DEF c, job
    <3>2. s.xdccs = [l EXCEPT ![i] = [p EXCEPT !.seen = c]] /\ s.md5build = m.md5build /\ s.xdccs[i] = [p EXCEPT !.seen = c]
          /\ s.xdccs[i].id = p.id
      BY <1>1 DEF Memory, Pack
    <3>3. cancel_md5_hash(s, i) = [s EXCEPT !.md5build = job, !.xdccs = [s.xdccs EXCEPT ![i] = [s.xdccs[i] EXCEPT !.md5 = 0]]]
      BY <3>2 DEF cancel_md5_hash, job
    <3>4. [s.xdccs[i] EXCEPT !.md5 = 0] = q
      BY <1>1, <3>2 DEF Pack
    <3>5. [s.xdccs EXCEPT ![i] = q] = [l EXCEPT ![i] = q]
      <4> HIDE DEF s, q, p
      <4> QED BY <1>1, <3>2
    <3> HIDE DEF q
    <3>6. [s EXCEPT !.md5build = job, !.xdccs = [l EXCEPT ![i] = q]] = n
      BY <1>1 DEF Memory
    <3> QED BY <2>1, <3>1, <3>3, <3>4, <3>5, <3>6
  <2>6. TrueSum(q, disk, b)
    BY <2>3 DEF TrueSum
  <2> HIDE DEF q, job
  <2>7. /\ Good(n, disk, b, z) /\ Revised(m.xdccs, n.xdccs) /\ n.queue = m.queue /\ n.delayed = m.delayed /\ n.trig = m.trig
        /\ Triggers(n.xdccs) = Triggers(m.xdccs)
    <3>1. OneChange(m, i, q, job, n) /\ q.trigger = m.xdccs[i].trigger
      BY <2>3, <2>4 DEF OneChange
    <3> HIDE DEF n
    <3> QED BY <2>6, <3>1, GoodOne
  <2> HIDE DEF n
  <2> QED BY <2>5, <2>7 DEF Alike
<1> QED BY <1>2, <1>3

\* Every pack is looked at.
LEMMA LookedAll ==
  ASSUME NEW m, NEW b, NEW z, Good(m, disk, b, z), disk \in Disk
  PROVE  Good(LookAll(m), disk, b, z) /\ Alike(m, LookAll(m))
<1> DEFINE c == Len(m.xdccs)
           Is(f) == f = [k \in 0..c |-> IF k = 0 THEN m ELSE Looked(f[k - 1], k)]
           S == {v \in Memory : Good(v, disk, b, z) /\ Alike(m, v)}
           D == [k \in 1..c |-> [v \in S |-> Looked(v, k)]]
           V == CHOOSE f : Is(f)
<1>1. LookAll(m) = V[c]
  BY DEF LookAll
<1>2. c \in Nat /\ m \in Memory /\ Regular(m.xdccs) /\ DOMAIN m.xdccs = 1..Len(m.xdccs)
  BY MemoryFields, ListFields DEF Good
<1>3. m \in S
  BY <1>2, AlikeSame
<1> HIDE DEF c
<1>4. ASSUME NEW k \in 1..c, NEW v \in S PROVE Looked(v, k) \in S
  <2>1. Good(v, disk, b, z) /\ Alike(m, v)
    OBVIOUS
  <2>2. k \in DOMAIN v.xdccs
    BY <1>2, <2>1 DEF Alike, Revised, c
  <2>3. Good(Looked(v, k), disk, b, z) /\ Alike(v, Looked(v, k))
    BY <2>1, <2>2, LookedGood
  <2>4. Alike(m, Looked(v, k))
    BY <2>1, <2>3, AlikeAgain
  <2> QED BY <2>3, <2>4 DEF Good
<1> HIDE DEF S
<1>5. D \in StepsOf(c, S) /\ \A k \in 1..c : \A v \in S : D[k][v] = Looked(v, k)
  BY <1>4 DEF StepsOf
<1> HIDE DEF D
<1>6. Made(c, S, m, D)
  BY <1>2, <1>3, <1>5, Iterated
<1>7. \A k \in 1..c : k \in 0..c /\ k # 0 /\ k - 1 \in 0..c
  BY <1>2
<1>8. \E f : Is(f)
  <2>1. PICK f \in [0..c -> S] : f[0] = m /\ \A k \in 1..c : f[k] = D[k][f[k - 1]]
    BY <1>6 DEF Made
  <2>2. \A k \in 1..c : f[k] = Looked(f[k - 1], k)
    BY <1>5, <1>7, <2>1
  <2>3. \A k \in 0..c : k # 0 => k \in 1..c
    BY <1>2
  <2>4. \A k \in 0..c : f[k] = IF k = 0 THEN m ELSE Looked(f[k - 1], k)
    BY <2>1, <2>2, <2>3
  <2>5. f = [k \in 0..c |-> f[k]]
    BY <2>1
  <2>6. Is(f)
    BY ONLY <2>4, <2>5
  <2> QED BY <2>6
<1>9. Is(V)
  <2> HIDE DEF Is
  <2> QED BY <1>8
<1> HIDE DEF V
<1>10. V[0] = m /\ \A k \in 1..c : V[k] = Looked(V[k - 1], k)
  BY <1>2, <1>7, <1>9
<1> HIDE DEF Is
<1>11. \A k \in 0..c : V[k] \in S
  <2>1. \A k \in 1..c : V[k - 1] \in S => V[k] = D[k][V[k - 1]]
    BY <1>5, <1>10
  <2> QED BY <1>6, <1>10, <2>1 DEF Made
<1>12. V[c] \in S
  BY <1>2, <1>11
<1> QED BY <1>1, <1>12 DEF S

\* A file that was renamed gives its pack the new name.
LEMMA RenamedGood ==
  ASSUME NEW m, NEW b, NEW z, Good(m, disk, b, z), NEW f \in Path, SameInode(m.xdccs, disk[f]) # {}
  PROVE  Good(Renamed(m, f), disk, b, z) /\ Alike(m, Renamed(m, f))
<1> DEFINE K == SameInode(m.xdccs, disk[f])
           i == First(K)
           l == m.xdccs
           q == [l[i] EXCEPT !.file = f]
           n == [m EXCEPT !.xdccs = [m.xdccs EXCEPT ![i] = q], !.md5build = m.md5build]
<1>1. m \in Memory /\ Regular(l) /\ l \in Seq(Pack) /\ m.md5build \in [id : Nat, of : 0..Mixed] /\ TrueSums(l, disk, b, z)
  <2>1. m \in Memory /\ Regular(l) /\ TrueSums(l, disk, b, z)
    BY DEF Good
  <2> QED BY <2>1, MemoryFields
<1>2. i \in DOMAIN l
  <2>1. K \subseteq DOMAIN l /\ K # {}
    BY DEF SameInode
  <2>2. DOMAIN l \subseteq Nat
    BY <1>1, ListFields
  <2> HIDE DEF K, l
  <2> QED BY <2>1, <2>2, FirstType
<1>3. Renamed(m, f) = m \/ Renamed(m, f) = Named([m EXCEPT !.xdccs[i].file = f], i)
  BY DEF Renamed
<1> HIDE DEF i
<1>4. l[i] \in Pack /\ TrueSum(l[i], disk, b)
  BY <1>1, <1>2, ListFields, OneByOne
<1>5. q \in Pack /\ q.id = l[i].id /\ q.group = l[i].group /\ q.desc = l[i].desc /\ q.trigger = l[i].trigger
      /\ q.seen = l[i].seen /\ q.md5 = l[i].md5
  <2> HIDE DEF l
  <2> QED BY <1>4 DEF Pack
<1>6. TrueSum(q, disk, b)
  BY <1>4, <1>5 DEF TrueSum
<1>7. [m EXCEPT !.xdccs[i].file = f] = n
  BY <1>1 DEF Memory
<1> HIDE DEF q
<1>8. OneChange(m, i, q, m.md5build, n)
  BY <1>1, <1>2, <1>5 DEF OneChange
<1> HIDE DEF n
<1>9. Good(n, disk, b, z) /\ Alike(m, n)
  BY <1>5, <1>6, <1>8, GoodOne DEF Alike
<1>10. Alike(m, m)
  BY <1>1, AlikeSame
<1>11. Good(Named(n, i), disk, b, z) /\ Alike(m, Named(n, i))
  <2>1. i \in DOMAIN n.xdccs
    BY <1>2, <1>9 DEF Alike, Revised
  <2> QED BY <1>9, <2>1, NameGood DEF Alike
<1> QED BY <1>3, <1>7, <1>10, <1>11

\* A file of a directory: with onlynew, one that was renamed is noticed.
Visiting(v, onlynew, f) ==
  IF onlynew /\ disk[f] # 0 /\ SameInode(v.xdccs, disk[f]) # {} THEN Renamed(v, f) ELSE v

\* The files of a directory are looked at.
LEMMA VisitedAll ==
  ASSUME NEW m, NEW b, NEW z, Good(m, disk, b, z), NEW onlynew
  PROVE  Good(Visited(m, onlynew), disk, b, z) /\ Alike(m, Visited(m, onlynew))
<1> DEFINE c == Files
           Is(f) == f = [k \in 0..c |-> IF k = 0 THEN m ELSE Visiting(f[k - 1], onlynew, k)]
           S == {v \in Memory : Good(v, disk, b, z) /\ Alike(m, v)}
           D == [k \in 1..c |-> [v \in S |-> Visiting(v, onlynew, k)]]
           V == CHOOSE f : Is(f)
<1>1. Visited(m, onlynew) = V[c]
  BY DEF Visited, Visiting
<1>2. c \in Nat /\ m \in Memory /\ Regular(m.xdccs)
  BY Sizes DEF Good
<1>3. m \in S
  BY <1>2, AlikeSame
<1> HIDE DEF c
<1>4. ASSUME NEW k \in 1..c, NEW v \in S PROVE Visiting(v, onlynew, k) \in S
  <2>1. Good(v, disk, b, z) /\ Alike(m, v) /\ v \in Memory
    OBVIOUS
  <2>2. k \in Path
    BY DEF Path, c
  <2>3. CASE Visiting(v, onlynew, k) = v
    BY <2>1, <2>3
  <2>4. CASE Visiting(v, onlynew, k) = Renamed(v, k) /\ SameInode(v.xdccs, disk[k]) # {}
    <3>1. Good(Renamed(v, k), disk, b, z) /\ Alike(v, Renamed(v, k))
      BY <2>1, <2>2, <2>4, RenamedGood
    <3>2. Alike(m, Renamed(v, k))
      BY <2>1, <3>1, AlikeAgain
    <3> QED BY <2>4, <3>1, <3>2 DEF Good
  <2> QED BY <2>3, <2>4 DEF Visiting
<1> HIDE DEF S
<1>5. D \in StepsOf(c, S) /\ \A k \in 1..c : \A v \in S : D[k][v] = Visiting(v, onlynew, k)
  BY <1>4 DEF StepsOf
<1> HIDE DEF D
<1>6. Made(c, S, m, D)
  BY <1>2, <1>3, <1>5, Iterated
<1>7. \A k \in 1..c : k \in 0..c /\ k # 0 /\ k - 1 \in 0..c
  BY <1>2
<1>8. \E f : Is(f)
  <2>1. PICK f \in [0..c -> S] : f[0] = m /\ \A k \in 1..c : f[k] = D[k][f[k - 1]]
    BY <1>6 DEF Made
  <2>2. \A k \in 1..c : f[k] = Visiting(f[k - 1], onlynew, k)
    BY <1>5, <1>7, <2>1
  <2>3. \A k \in 0..c : k # 0 => k \in 1..c
    BY <1>2
  <2>4. \A k \in 0..c : f[k] = IF k = 0 THEN m ELSE Visiting(f[k - 1], onlynew, k)
    BY <2>1, <2>2, <2>3
  <2>5. f = [k \in 0..c |-> f[k]]
    BY <2>1
  <2>6. Is(f)
    BY ONLY <2>4, <2>5
  <2> QED BY <2>6
<1>9. Is(V)
  <2> HIDE DEF Is
  <2> QED BY <1>8
<1> HIDE DEF V
<1>10. V[0] = m /\ \A k \in 1..c : V[k] = Visiting(V[k - 1], onlynew, k)
  BY <1>2, <1>7, <1>9
<1> HIDE DEF Is
<1>11. \A k \in 0..c : V[k] \in S
  <2>1. \A k \in 1..c : V[k - 1] \in S => V[k] = D[k][V[k - 1]]
    BY <1>5, <1>10
  <2> QED BY <1>6, <1>10, <2>1 DEF Made
<1>12. V[c] \in S
  BY <1>2, <1>11
<1> QED BY <1>1, <1>12 DEF S

\* The inode of a content.
LEMMA InodeType ==
  ASSUME NEW c \in 0..(2 * Inodes)
  PROVE  Inode(c) \in 0..Inodes /\ Inode(c) \in Nat
<1>1. Inodes \in Nat
  BY Sizes
<1>2. c \in Nat /\ c <= 2 * Inodes
  BY <1>1
<1>3. (c + 1) \div 2 \in 0..Inodes
  BY ONLY <1>1, <1>2
<1> QED BY <1>1, <1>3 DEF Inode

\* More jobs wait.
LEMMA GoodDelayed ==
  ASSUME NEW m, NEW d, NEW b, NEW z, Good(m, d, b, z), NEW q \in Seq(Job), Jobs(q)
  PROVE  LET n == [m EXCEPT !.delayed = q]
         IN Good(n, d, b, z) /\ n.xdccs = m.xdccs /\ n.trig = m.trig /\ n.delayed = q /\ n.md5build = m.md5build
            /\ n.queue = m.queue
<1> DEFINE n == [m EXCEPT !.delayed = q]
<1>1. m \in Memory
  BY DEF Good
<1>2. n \in Memory /\ n.xdccs = m.xdccs /\ n.trig = m.trig /\ n.delayed = q /\ n.md5build = m.md5build /\ n.queue = m.queue
  BY <1>1 DEF Memory
<1> HIDE DEF n
<1>3. Good(n, d, b, z)
  BY <1>2 DEF Good
<1> QED BY <1>2, <1>3 DEF n

\* Jobs come behind those that wait.
LEMMA JobsAppended ==
  ASSUME NEW q \in Seq(Job), Jobs(q), NEW r \in Seq(Job), Jobs(r)
  PROVE  q \o r \in Seq(Job) /\ Jobs(q \o r)
<1>1. q \o r \in Seq(Job)
  OBVIOUS
<1>2. ASSUME NEW i \in DOMAIN (q \o r)
      PROVE (q \o r)[i] \in Elems(q) \cup Elems(r)
  <2>1. i \in 1..(Len(q) + Len(r)) /\ Len(q) \in Nat /\ Len(r) \in Nat /\ DOMAIN q = 1..Len(q) /\ DOMAIN r = 1..Len(r)
    OBVIOUS
  <2>2. CASE i <= Len(q)
    <3>1. (q \o r)[i] = q[i] /\ i \in DOMAIN q
      BY <2>1, <2>2
    <3> QED BY <3>1 DEF Elems
  <2>3. CASE i > Len(q)
    <3>1. (q \o r)[i] = r[i - Len(q)] /\ i - Len(q) \in DOMAIN r
      BY <2>1, <2>3
    <3> QED BY <3>1 DEF Elems
  <2> QED BY <2>1, <2>2, <2>3
<1>3. \A j \in Elems(q \o r) : j \in Elems(q) \cup Elems(r)
  BY <1>2 DEF Elems
<1> QED BY <1>1, <1>3 DEF Jobs

\* Files that are kept of a directory.
LEMMA FilesKept ==
  ASSUME NEW K, K \subseteq Path
  PROVE  LET files == Keep([f \in Path |-> f], K)
         IN files \in Seq(Path) /\ DOMAIN files = 1..Len(files) /\ \A k \in DOMAIN files : files[k] \in Path
<1> DEFINE q == [f \in Path |-> f]
           files == Keep(q, K)
<1>1. Files \in Nat
  BY Sizes
<1>2. q \in Seq(Path) /\ DOMAIN q = Path
  BY <1>1 DEF Path
<1> HIDE DEF q
<1>3. files \in Seq(Path)
  BY <1>2, KeepType
<1> HIDE DEF files
<1> QED BY <1>3 DEF files, q

\* A directory is scanned: renamed files are noticed and jobs wait for the new ones.
LEMMA ScannedGood ==
  ASSUME NEW m, NEW b, NEW z, Good(m, disk, b, z), disk \in Disk, NEW onlynew, NEW g \in 0..Groups
  PROVE  LET n == Scanned(m, onlynew, g)
         IN Good(n, disk, b, z) /\ Revised(m.xdccs, n.xdccs) /\ Triggers(n.xdccs) = Triggers(m.xdccs) /\ n.trig = m.trig
<1> DEFINE n == Scanned(m, onlynew, g)
           v == Visited(m, onlynew)
           K == {f \in Path : /\ disk[f] # 0
                              /\ onlynew => SameInode(m.xdccs, disk[f]) = {}
                              /\ \A j \in Elems(m.delayed) : j.cmd = "ADD" => j.ino # Inode(disk[f])}
           files == Keep([f \in Path |-> f], K)
           jobs == [k \in DOMAIN files |->
                     [cmd |-> "ADD", file |-> files[k], ino |-> Inode(disk[files[k]]), group |-> g, scope |-> {}]]
<1>1. Good(v, disk, b, z) /\ Alike(m, v)
  BY VisitedAll
<1>2. n = [v EXCEPT !.delayed = v.delayed \o jobs]
  BY DEF Scanned
<1>3. files \in Seq(Path) /\ DOMAIN files = 1..Len(files) /\ \A k \in DOMAIN files : files[k] \in Path
  <2>1. K \subseteq Path
    OBVIOUS
  <2> HIDE DEF K
  <2> QED BY <2>1, FilesKept
<1> HIDE DEF files, n, v
<1>4. ASSUME NEW k \in DOMAIN files PROVE jobs[k] \in Job /\ jobs[k].file \in Path
  <2>1. files[k] \in Path /\ files[k] \in 0..Files
    BY <1>3 DEF Path
  <2>2. Inode(disk[files[k]]) \in 0..Inodes
    BY <2>1, InodeType DEF Disk
  <2> QED BY <2>1, <2>2 DEF Job
<1>5. jobs \in Seq(Job) /\ Jobs(jobs)
  <2>1. jobs = [k \in 1..Len(files) |-> jobs[k]] /\ Len(files) \in Nat
    BY <1>3
  <2>2. DOMAIN jobs = DOMAIN files
    OBVIOUS
  <2> HIDE DEF jobs
  <2>3. jobs \in Seq(Job)
    BY <1>3, <1>4, <2>1
  <2> QED BY <1>4, <2>2, <2>3 DEF Jobs, Elems
<1> HIDE DEF jobs
<1>6. v.delayed \in Seq(Job) /\ Jobs(v.delayed)
  BY <1>1, MemoryFields DEF Good
<1>7. v.delayed \o jobs \in Seq(Job) /\ Jobs(v.delayed \o jobs)
  BY <1>5, <1>6, JobsAppended
<1>8. Good(n, disk, b, z) /\ n.xdccs = v.xdccs /\ n.trig = v.trig
  BY <1>1, <1>2, <1>7, GoodDelayed
<1> QED BY <1>1, <1>8 DEF Alike, n

\* A pack of no group at the end of the list.
LEMMA Appended ==
  ASSUME NEW l, Regular(l), NEW p \in Pack, p.id \notin IdsOf(l), p.group = 0
  PROVE  LET r == Append(l, p)
         IN Regular(r) /\ Cores(r) = Cores(l) \cup {Core(p)} /\ Bare(r) = Bare(l)
<1> DEFINE r == Append(l, p)
           n == Len(l) + 1
           s == InsertAt(l, n, p)
<1>1. l \in Seq(Pack) /\ DOMAIN l = 1..Len(l) /\ Len(l) \in Nat
  BY ListFields DEF Regular
<1>2. n \in 1..(Len(l) + 1)
  BY <1>1
<1>2a. n = Len(l) + 1
  OBVIOUS
<1> HIDE DEF n
<1>3. /\ s \in Seq(Pack) /\ Unique(s) /\ DescFirst(s, (1..Groups) \ {p.group})
      /\ Elems(s) = Elems(l) \cup {p} /\ Cores(s) = Cores(l) \cup {Core(p)}
  BY <1>2, Within
<1>4. /\ Len(s) = Len(l) + 1
      /\ \A j \in 1..(Len(l) + 1) : s[j] = IF j < n THEN l[j] ELSE IF j = n THEN p ELSE l[j - 1]
  <2>1. l \in Seq(Pack) /\ p \in Pack
    BY <1>1
  <2> QED BY ONLY <1>2, <2>1, InsertIndex
<1> HIDE DEF s
<1>5. r \in Seq(Pack) /\ Len(r) = Len(l) + 1 /\ \A j \in 1..(Len(l) + 1) : r[j] = IF j < n THEN l[j] ELSE p
  BY <1>1, <1>2a
<1> HIDE DEF r
<1>6. \A j \in 1..(Len(l) + 1) : r[j] = s[j]
  BY <1>1, <1>2a, <1>4, <1>5
<1>7. r = s
  <2>1. r = [j \in 1..(Len(l) + 1) |-> r[j]] /\ s = [j \in 1..(Len(l) + 1) |-> s[j]]
    BY <1>3, <1>4, <1>5
  <2> QED BY <1>6, <2>1
<1>8. 0 \notin 1..Groups /\ (1..Groups) \ {p.group} = 1..Groups
  BY Sizes
<1>12. /\ \A g \in 1..Groups : g \in Used(s) <=> g \in Used(l) \/ p.group = g
       /\ \A g \in 1..Groups : g \in Said(s) <=> g \in Said(l) \/ (p.group = g /\ p.desc = TRUE)
  BY <1>1, <1>3, WithinSaid
<1>9. \A g \in 1..Groups : (g \in Used(s) <=> g \in Used(l)) /\ (g \in Said(s) <=> g \in Said(l))
  BY <1>8, <1>12
<1>10. Bare(s) = Bare(l)
  BY <1>9 DEF Bare, Used, Said
<1>11. Regular(s) /\ Cores(s) = Cores(l) \cup {Core(p)}
  BY <1>3, <1>8 DEF Regular
<1> QED BY <1>7, <1>10, <1>11 DEF r

\* A pack that was sorted in as one of group g loses the group and gets it back.
Resorted(l, p, by) ==
  LET sorted == SortInsert(l, p, by)
      list == [sorted EXCEPT ![At(sorted, p.id)].group = 0]
  IN SetGroup(list, At(list, p.id), p.group)

\* The pack that was sorted in with its group gets the group given again.
LEMMA JoinedBack ==
  ASSUME NEW l, Regular(l), NEW p \in Pack, p.id \notin IdsOf(l), p.desc = FALSE, NEW by
  PROVE  LET r == Resorted(l, p, by)
         IN Regular(r) /\ Cores(r) = Cores(l) \cup {Core(p)} /\ Bare(r) \subseteq Bare(l)
<1> DEFINE sorted == SortInsert(l, p, by)
           i == At(sorted, p.id)
           q == [sorted[i] EXCEPT !.group = 0]
           list == [sorted EXCEPT ![i] = q]
           g == p.group
           r == SetGroup(list, At(list, p.id), g)
           first == reorder_groupdesc(sorted, g)
<1>1. /\ Regular(sorted) /\ Cores(sorted) = Cores(l) \cup {Core(p)}
      /\ \A h \in 1..Groups : h \in Used(sorted) <=> h \in Used(l) \/ p.group = h
      /\ \A h \in 1..Groups : h \in Said(sorted) <=> h \in Said(l) \/ (p.group = h /\ p.desc = TRUE)
      /\ Seated(l, p, sorted)
  BY SortedIn
<1>2. [sorted EXCEPT ![At(sorted, p.id)].group = 0] = list
  OBVIOUS
<1> HIDE DEF sorted
<1>3. sorted \in Seq(Pack) /\ Unique(sorted) /\ DescFirst(sorted, 1..Groups) /\ g \in 0..Groups /\ 0 \in 0..Groups
      /\ Core(p).id = p.id
  BY <1>1, Sizes, PackFields DEF Regular
<1>4. p.id \in IdsOf(sorted)
  BY <1>1, <1>3, TriggersOf
<1>5. i \in DOMAIN sorted /\ sorted[i].id = p.id /\ sorted[i] \in Pack
  BY <1>3, <1>4, Found
<1> HIDE DEF i
<1>6. sorted[i].group = g
  BY <1>1, <1>5 DEF Seated
<1>7. q \in Pack /\ Core(q) = Core(sorted[i]) /\ q.group = 0
  BY <1>3, <1>5, PackGroup
<1>8. [q EXCEPT !.group = g] = sorted[i]
  BY <1>5, <1>6 DEF Pack
<1> HIDE DEF q
<1>9. Regrouped(sorted, list) /\ list[i] = q /\ \A j \in DOMAIN sorted : j # i => list[j] = sorted[j]
  BY <1>3, <1>5, <1>7, RegroupOne
<1>10. [list EXCEPT ![i].group = g] = sorted
  <2>1. list[i] = q /\ [list EXCEPT ![i].group = g] = [list EXCEPT ![i] = [q EXCEPT !.group = g]]
    BY <1>9
  <2>2. [list EXCEPT ![i] = sorted[i]] = sorted
    <3> DEFINE s == [list EXCEPT ![i] = sorted[i]]
    <3>1. DOMAIN s = DOMAIN sorted /\ \A j \in DOMAIN sorted : s[j] = sorted[j]
      BY <1>5
    <3>2. s = [j \in DOMAIN s |-> s[j]] /\ sorted = [j \in DOMAIN sorted |-> sorted[j]]
      BY <1>3
    <3> HIDE DEF s
    <3>3. s = sorted
      BY ONLY <3>1, <3>2
    <3> QED BY <3>3 DEF s
  <2> QED BY <1>8, <2>1, <2>2
<1>0. Resorted(l, p, by) = r
  BY <1>2 DEF Resorted, sorted
<1> HIDE DEF list
<1>11. list \in Seq(Pack) /\ DOMAIN list = DOMAIN sorted /\ Unique(list) /\ \A j \in DOMAIN sorted : list[j].id = sorted[j].id
  BY <1>3, <1>9, RegroupedSame
<1>12. At(list, p.id) = i
  <2>1. p.id \in IdsOf(list)
    BY <1>5, <1>11 DEF IdsOf
  <2>2. At(list, p.id) \in DOMAIN list /\ list[At(list, p.id)].id = p.id
    BY <1>11, <2>1, Found
  <2> QED BY <1>5, <1>11, <2>2 DEF Unique
<1>13. LeaveGroup(list, i) = list
  BY <1>7, <1>9 DEF LeaveGroup
<1>14. CASE g = 0
  <2>1. r = list
    BY <1>12, <1>13, <1>14 DEF SetGroup
  <2>2. list = sorted
    <3>1. [sorted[i] EXCEPT !.group = 0] = sorted[i]
      BY <1>5, <1>6, <1>14 DEF Pack
    <3> QED BY <1>3, <1>5, <3>1 DEF list, q
  <2>3. 0 \notin 1..Groups
    BY Sizes
  <2>4. Bare(sorted) \subseteq Bare(l)
    BY <1>1, <1>14, <2>3 DEF Bare, Used, Said
  <2> QED BY <1>0, <1>1, <2>1, <2>2, <2>4
<1>15. CASE g # 0
  <2>0. g \in 1..Groups
    BY <1>3, <1>15, Sizes
  <2>1. r = add_default_groupdesc(first, g)
    BY <1>10, <1>12, <1>13, <1>15 DEF SetGroup
  <2> HIDE DEF r
  <2>2. DescFirst(sorted, (1..Groups) \ {g})
    BY <1>3 DEF DescFirst
  <2>3. /\ Regrouped(sorted, first) /\ DescFirst(first, 1..Groups) /\ Used(first) = Used(sorted) /\ Said(first) = Said(sorted)
        /\ \A j \in DOMAIN sorted : first[j].group = sorted[j].group
    BY <1>3, <2>2, Refirst
  <2> HIDE DEF first
  <2>4. Regular(first) /\ first \in Seq(Pack) /\ DOMAIN first = DOMAIN sorted /\ Cores(first) = Cores(sorted)
    BY <1>3, <2>3, RegroupedSame DEF Regular
  <2>5. /\ Regrouped(first, r) /\ Regular(r) /\ Used(r) = Used(first) /\ Said(first) \subseteq Said(r)
        /\ \A j \in DOMAIN first : InGroup(first, g) = {j} => g \in Said(r)
    BY <2>0, <2>1, <2>4, Default
  <2>6. Cores(r) = Cores(sorted)
    BY <2>4, <2>5, RegroupedSame
  <2>7. ASSUME g \in Bare(r) PROVE g \in Bare(l)
    <3>1. g \notin Said(l) /\ InGroup(first, g) # {i}
      BY <1>1, <1>5, <2>0, <2>3, <2>4, <2>5, <2>7 DEF Bare
    <3>2. i \in InGroup(first, g)
      BY <1>5, <1>6, <2>3, <2>4 DEF InGroup
    <3>3. PICK j \in DOMAIN sorted : j # i /\ first[j].group = g
      BY <2>4, <3>1, <3>2 DEF InGroup
    <3>4. sorted[j].id # p.id /\ sorted[j].group = g
      BY <1>3, <1>5, <2>3, <3>3 DEF Unique
    <3>5. g \in Used(l)
      BY <1>1, <2>0, <3>3, <3>4 DEF Seated
    <3> QED BY <3>1, <3>5 DEF Bare
  <2>8. ASSUME NEW h \in 1..Groups, h # g, h \in Bare(r) PROVE h \in Bare(l)
    BY <1>1, <2>3, <2>5, <2>8 DEF Bare
  <2>9. Bare(r) \subseteq Bare(l)
    BY <2>0, <2>7, <2>8 DEF Bare, Used
  <2> QED BY <1>0, <1>1, <2>5, <2>6, <2>9
<1> QED BY <1>14, <1>15

\* The list with a new pack.
Grown(l, r, p, z) ==
  /\ p \in Pack /\ p.id = z /\ p.md5 = 0 /\ p.trigger = FALSE
  /\ Regular(r) /\ Cores(r) = Cores(l) \cup {Core(p)}

\* Memory stays good when a pack of the next pointer comes.
LEMMA GoodGrown ==
  ASSUME NEW m, NEW d, NEW b, NEW z \in Nat \ {0}, Good(m, d, b, z), NEW r, NEW p, Grown(m.xdccs, r, p, z)
  PROVE  LET n == [m EXCEPT !.xdccs = r]
         IN Good(n, d, b, z + 1) /\ n.xdccs = r /\ n.trig = m.trig /\ Triggers(n.xdccs) = Triggers(m.xdccs)
<1> DEFINE n == [m EXCEPT !.xdccs = r]
           l == m.xdccs
<1>1. /\ m \in Memory /\ Regular(l) /\ TrueSums(l, d, b, z)
      /\ Building(m.md5build, l, d, b) /\ Asked(m.queue, l) /\ Jobs(m.delayed)
  BY DEF Good
<1>0. Cores(r) = Cores(l) \cup {Core(p)} /\ Regular(r) /\ p \in Pack /\ p.id = z /\ p.md5 = 0 /\ p.trigger = FALSE
  BY DEF Grown
<1>2. r \in Seq(Pack) /\ l \in Seq(Pack)
  BY <1>0, <1>1 DEF Regular
<1>3. n \in Memory /\ n.xdccs = r /\ n.queue = m.queue /\ n.trig = m.trig /\ n.md5build = m.md5build /\ n.delayed = m.delayed
  BY <1>1, <1>2 DEF Memory
<1> HIDE DEF n
<1>4. Core(p).id = z /\ Core(p).md5 = 0 /\ Core(p).trigger = FALSE
  BY <1>0, PackFields
<1> HIDE DEF l
<1>5. TrueSums(r, d, b, z + 1)
  <2> SUFFICES ASSUME NEW c \in Cores(r) PROVE TrueSum(c, d, b) /\ c.id \in 1..z
    BY DEF TrueSums
  <2>1. CASE c \in Cores(l)
    BY <1>1, <2>1 DEF TrueSums
  <2>2. CASE c = Core(p)
    BY <1>4, <2>2 DEF TrueSum
  <2> QED BY <1>0, <2>1, <2>2
<1>6. Building(m.md5build, r, d, b)
  BY <1>0, <1>1 DEF Building
<1>7. \A x : x \in Triggers(l) <=> \E c \in Cores(l) : c.id = x /\ c.trigger = TRUE
  BY <1>2, TriggersOf
<1>8. \A x : x \in Triggers(r) <=> \E c \in Cores(r) : c.id = x /\ c.trigger = TRUE
  BY <1>2, TriggersOf
<1>9. Triggers(r) = Triggers(l)
  <2>1. ASSUME NEW x \in Triggers(r) PROVE x \in Triggers(l)
    <3>1. PICK c \in Cores(r) : c.id = x /\ c.trigger = TRUE
      BY <1>8, <2>1
    <3>2. c \in Cores(l)
      BY <1>0, <1>4, <3>1
    <3> QED BY <1>7, <3>1, <3>2
  <2>2. ASSUME NEW x \in Triggers(l) PROVE x \in Triggers(r)
    BY <1>0, <1>7, <1>8
  <2> QED BY <2>1, <2>2
<1>10. Asked(m.queue, r)
  <2>1. ASSUME NEW x \in IdsOf(l) PROVE x \in IdsOf(r)
    <3>1. PICK c \in Cores(l) : c.id = x
      BY <1>2, TriggersOf
    <3>2. c \in Cores(r)
      BY <1>0
    <3> QED BY <1>2, <3>1, <3>2, TriggersOf
  <2> QED BY <1>1, <2>1 DEF Asked
<1>11. Good(n, d, b, z + 1)
  BY <1>0, <1>1, <1>3, <1>5, <1>6, <1>10 DEF Good
<1> QED BY <1>3, <1>9, <1>11 DEF n, l

\* A file is added.
LEMMA AddGood ==
  ASSUME NEW m, NEW b, fresh \in Nat \ {0}, Good(m, disk, b, fresh), disk \in Disk, NEW f \in Path, NEW g \in 0..Groups
  PROVE  LET n == Add2(m, f, g)
         IN /\ Good(n, disk, b, fresh + 1) /\ Bare(n.xdccs) \subseteq Bare(m.xdccs)
            /\ n.trig = m.trig /\ Triggers(n.xdccs) = Triggers(m.xdccs)
<1> DEFINE n == Add2(m, f, g)
           l == m.xdccs
           p == [id |-> fresh, file |-> f, seen |-> disk[f], group |-> g, desc |-> FALSE, trigger |-> FALSE, md5 |-> 0]
           p0 == [p EXCEPT !.group = 0]
           sorted == SortInsert(l, p, autoadd_sort)
           list == IF autoadd_sort = "" THEN Append(l, p0) ELSE [sorted EXCEPT ![At(sorted, fresh)].group = 0]
           r == SetGroup(list, At(list, fresh), g)
<1>1. n = [m EXCEPT !.xdccs = r]
  BY DEF Add2
<1>2. p \in Pack /\ p0 \in Pack /\ Core(p0) = Core(p) /\ p0.group = 0 /\ p.id = fresh /\ p0.id = fresh /\ p.group = g
      /\ p.desc = FALSE /\ p.md5 = 0 /\ p.trigger = FALSE
  <2>1. disk[f] \in 0..(2 * Inodes) /\ 0 \in 0..Mixed /\ fresh \in Nat /\ 0 \in 0..Groups
    BY Sizes, NoJob DEF Disk
  <2>2. p \in Pack
    <3> HIDE DEF n, r, list, sorted
    <3> QED BY <2>1 DEF Pack
  <2>3. p.id = fresh /\ p.group = g /\ p.desc = FALSE /\ p.md5 = 0 /\ p.trigger = FALSE /\ p0.id = p.id
    OBVIOUS
  <2> HIDE DEF p
  <2> QED BY <2>1, <2>2, <2>3, PackGroup
<1> HIDE DEF n, p, p0
<1>3. m \in Memory /\ Regular(l) /\ l \in Seq(Pack) /\ TrueSums(l, disk, b, fresh)
  BY DEF Good, Regular
<1>4. fresh \notin IdsOf(l)
  <2>1. \A c \in Cores(l) : c.id # fresh
    BY <1>3 DEF TrueSums
  <2> HIDE DEF l
  <2> QED BY <1>3, <2>1, TriggersOf
<1> HIDE DEF l
<1>5. Regular(r) /\ Cores(r) = Cores(l) \cup {Core(p)} /\ Bare(r) \subseteq Bare(l)
  <2>1. CASE autoadd_sort = ""
    <3> DEFINE s == Append(l, p0)
               i == At(s, fresh)
    <3>1. Regular(s) /\ Cores(s) = Cores(l) \cup {Core(p0)} /\ Bare(s) = Bare(l)
      BY <1>2, <1>3, <1>4, Appended
    <3>2. r = SetGroup(s, i, g)
      BY <2>1
    <3> HIDE DEF r, list, s
    <3>3. s \in Seq(Pack) /\ Core(p).id = fresh
      BY <1>2, <3>1, PackFields DEF Regular
    <3>4. fresh \in IdsOf(s)
      BY <1>2, <3>1, <3>3, TriggersOf
    <3>5. i \in DOMAIN s
      BY <3>3, <3>4, Found
    <3> HIDE DEF i
    <3>6. Regrouped(s, r) /\ Regular(r) /\ Bare(r) \subseteq Bare(s)
      BY <3>1, <3>2, <3>5, Joined
    <3>7. Cores(r) = Cores(s)
      BY <3>3, <3>6, RegroupedSame
    <3> QED BY <1>2, <3>1, <3>6, <3>7
  <2>2. CASE autoadd_sort # ""
    <3> DEFINE u == Resorted(l, p, autoadd_sort)
    <3>1. r = u
      BY <1>2, <2>2 DEF Resorted
    <3> HIDE DEF r, list, sorted
    <3>2. Regular(u) /\ Cores(u) = Cores(l) \cup {Core(p)} /\ Bare(u) \subseteq Bare(l)
      <4>1. p \in Pack /\ p.id \notin IdsOf(l) /\ p.desc = FALSE /\ Regular(l)
        BY <1>2, <1>3, <1>4
      <4> QED BY ONLY <4>1, JoinedBack
    <3> QED BY <3>1, <3>2
  <2> QED BY <2>1, <2>2
<1> HIDE DEF r
<1>6. Good(n, disk, b, fresh + 1) /\ n.xdccs = r /\ n.trig = m.trig /\ Triggers(n.xdccs) = Triggers(m.xdccs)
  <2>1. Grown(m.xdccs, r, p, fresh)
    BY <1>2, <1>5 DEF Grown, l
  <2> QED BY <1>1, <2>1, GoodGrown
<1> QED BY <1>5, <1>6 DEF n, l
-----------------------------------------------------------------------------
(* What comes of a restart, and of the files *)

\* A pack that was saved.
LEMMA RestoredGood ==
  ASSUME NEW p \in Pack, disk \in Disk, NEW b, TrueSum(p, disk, b)
  PROVE  LET q == Restored(p)
         IN q \in Pack /\ q.id = p.id /\ q.group = p.group /\ q.desc = p.desc /\ TrueSum(q, disk, b)
<1> DEFINE c == disk[p.file]
           q == Restored(p)
           q1 == [p EXCEPT !.seen = c]
           q2 == [p EXCEPT !.seen = c, !.md5 = 0]
<1>1. p.file \in Path /\ p.md5 \in 0..Mixed /\ 0 \in 0..Mixed
  BY PackFields, NoJob
<1>2. c \in 0..(2 * Inodes)
  BY <1>1 DEF Disk
<1>3. (p.md5 = 0 /\ q = q1) \/ q = p \/ q = q2
  BY DEF Restored
<1> HIDE DEF c, q
<1>4. q1 \in Pack /\ q1.id = p.id /\ q1.group = p.group /\ q1.desc = p.desc /\ q1.md5 = p.md5
  BY <1>2 DEF Pack
<1>5. q2 \in Pack /\ q2.id = p.id /\ q2.group = p.group /\ q2.desc = p.desc /\ q2.md5 = 0
  BY <1>1, <1>2 DEF Pack
<1> HIDE DEF q1, q2
<1> QED BY <1>3, <1>4, <1>5 DEF TrueSum, q

\* What a file gives back.
LEMMA ReadGood ==
  ASSUME NEW s, NEW b, NEW z, GoodFile(s, disk, b, z), disk \in Disk
  PROVE  Good(read_statefile(s), disk, b, z) /\ \A X : Live(read_statefile(s), X)
<1> DEFINE l == s.packs
           list == [i \in DOMAIN l |-> Restored(l[i])]
           K == {k \in DOMAIN s.queue : s.queue[k].num \in DOMAIN list}
           good == Keep(s.queue, K)
           q == [k \in DOMAIN good |-> [id |-> list[good[k].num].id, asked |-> good[k].asked]]
           m == read_statefile(s)
           T == [num : Nat, asked : Nat]
<1>1. /\ s \in Filed /\ Regular(l) /\ TrueSums(l, disk, b, z)
      /\ \A e \in Elems(s.queue) : e.num \in DOMAIN l => l[e.num].id = e.asked
  BY DEF GoodFile
<1>2. l \in Seq(Pack) /\ s.queue \in Seq(T)
  BY <1>1 DEF Filed
<1>3. m = [xdccs |-> list, trig |-> Triggers(list), md5build |-> [id |-> 0, of |-> 0], delayed |-> <<>>, freed |-> {}, queue |-> q]
  BY DEF read_statefile
<1>4. DOMAIN l = 1..Len(l) /\ Len(l) \in Nat /\ \A i \in DOMAIN l : l[i] \in Pack /\ TrueSum(l[i], disk, b) /\ l[i].id \in 1..(z - 1)
  BY <1>1, <1>2, ListFields, OneByOne
<1>5. DOMAIN list = DOMAIN l /\ \A i \in DOMAIN l : list[i] = Restored(l[i])
  OBVIOUS
<1> HIDE DEF m, list, l
<1>6. \A i \in DOMAIN l : list[i] \in Pack /\ list[i].id = l[i].id /\ list[i].group = l[i].group /\ list[i].desc = l[i].desc
                          /\ TrueSum(list[i], disk, b)
  BY <1>4, <1>5, RestoredGood
<1>7. list \in Seq(Pack)
  <2>1. list = [i \in 1..Len(l) |-> list[i]]
    BY <1>4 DEF list
  <2> QED BY <1>4, <1>6, <2>1
<1>8. Revised(l, list)
  BY <1>5, <1>6, <1>7 DEF Revised
<1>9. Regular(list) /\ IdsOf(list) = IdsOf(l)
  BY <1>1, <1>8, RevisedSame
<1>10. TrueSums(list, disk, b, z)
  <2>1. \A i \in DOMAIN list : TrueSum(list[i], disk, b) /\ list[i].id \in 1..(z - 1)
    BY <1>4, <1>5, <1>6
  <2> QED BY <1>7, <2>1, OneByOne
<1>11. good \in Seq(T) /\ \A e \in Elems(good) : e \in Elems(s.queue) /\ e.num \in DOMAIN l
  <2>1. K \subseteq DOMAIN s.queue /\ \A k \in K : s.queue[k] \in Elems(s.queue) /\ s.queue[k].num \in DOMAIN l
    BY <1>5 DEF Elems
  <2> HIDE DEF K
  <2>2. Keep(s.queue, K) \in Seq({s.queue[k] : k \in K}) /\ Keep(s.queue, K) \in Seq(T)
    BY <1>2, <2>1, KeepType
  <2> HIDE DEF good
  <2>3. \A e \in Elems(good) : e \in {s.queue[k] : k \in K}
    BY <2>2 DEF Elems, good
  <2> QED BY <2>1, <2>2, <2>3 DEF good
<1> HIDE DEF good
<1>12. DOMAIN good = 1..Len(good) /\ Len(good) \in Nat /\ \A k \in DOMAIN good : good[k] \in Elems(good) /\ good[k] \in T
  <2>1. DOMAIN good = 1..Len(good) /\ Len(good) \in Nat /\ \A k \in DOMAIN good : good[k] \in T
    <3> HIDE DEF T
    <3> QED BY <1>11
  <2>2. \A k \in DOMAIN good : good[k] \in Elems(good)
    <3> HIDE DEF T, q
    <3> QED BY DEF Elems
  <2> QED BY <2>1, <2>2
<1>13. ASSUME NEW k \in DOMAIN good
       PROVE q[k] \in Requests /\ q[k].id = q[k].asked /\ q[k].id \in IdsOf(list)
  <2>1. good[k].num \in DOMAIN l /\ l[good[k].num].id = good[k].asked /\ good[k].asked \in Nat
    BY <1>1, <1>11, <1>12
  <2>2. list[good[k].num].id = good[k].asked /\ list[good[k].num].id \in IdsOf(list)
    BY <1>5, <1>6, <2>1 DEF IdsOf
  <2>3. q[k] = [id |-> list[good[k].num].id, asked |-> good[k].asked]
    OBVIOUS
  <2> HIDE DEF q
  <2> QED BY <2>1, <2>2, <2>3 DEF Requests
<1>14. q \in Seq(Requests) /\ Asked(q, list)
  <2>1. q = [k \in 1..Len(good) |-> q[k]] /\ DOMAIN q = DOMAIN good
    BY <1>12
  <2> HIDE DEF q
  <2>2. q \in Seq(Requests)
    BY <1>12, <1>13, <2>1
  <2> QED BY <1>13, <2>1, <2>2 DEF Asked, Elems
<1> HIDE DEF q
<1>15. Triggers(list) \in SUBSET Nat
  BY <1>5, <1>6, <1>7, ListFields, PackFields DEF Triggers
<1>16. m \in Memory /\ m.xdccs = list /\ m.trig = Triggers(list) /\ m.md5build.id = 0 /\ m.delayed = <<>> /\ m.queue = q
  <2>1. <<>> \in Seq(Job) /\ [id |-> 0, of |-> 0] \in [id : Nat, of : 0..Mixed] /\ [id |-> 0, of |-> 0].id = 0
    BY NoJob
  <2>2. {} \in SUBSET Nat
    OBVIOUS
  <2> QED BY <1>3, <1>7, <1>14, <1>15, <2>1, <2>2 DEF Memory
<1>17. Building(m.md5build, list, disk, b) /\ Jobs(<<>>)
  BY <1>16 DEF Building, Jobs, Elems
<1>18. Good(m, disk, b, z)
  BY <1>9, <1>10, <1>14, <1>16, <1>17 DEF Good
<1>19. \A X : Live(m, X)
  BY <1>16 DEF Live
<1> QED BY <1>18, <1>19 DEF m

\* What is gone from the disk d is gone from d2 too, for the packs of l.
Fades(l, d, d2) == \A c \in Cores(l) : Gone(c.seen, d) => Gone(c.seen, d2)

\* Memory stays good when the disk changes, and when more sums are blind.
LEMMA GoodFades ==
  ASSUME NEW m, NEW d, NEW b, NEW z, Good(m, d, b, z), NEW d2, Fades(m.xdccs, d, d2), NEW b2, b \subseteq b2
  PROVE  Good(m, d2, b2, z)
<1>1. /\ m \in Memory /\ Regular(m.xdccs) /\ TrueSums(m.xdccs, d, b, z)
      /\ Building(m.md5build, m.xdccs, d, b) /\ Asked(m.queue, m.xdccs) /\ Jobs(m.delayed)
  BY DEF Good
<1>2. TrueSums(m.xdccs, d2, b2, z)
  BY <1>1 DEF TrueSums, TrueSum, Fades
<1>3. Building(m.md5build, m.xdccs, d2, b2)
  BY <1>1 DEF Building, Fades
<1> QED BY <1>1, <1>2, <1>3 DEF Good

\* So does the state file.
LEMMA FileFades ==
  ASSUME NEW s, NEW d, NEW b, NEW z, GoodFile(s, d, b, z), NEW d2, Fades(s.packs, d, d2), NEW b2, b \subseteq b2
  PROVE  GoodFile(s, d2, b2, z)
<1>1. /\ s \in Filed /\ Regular(s.packs) /\ TrueSums(s.packs, d, b, z)
      /\ \A e \in Elems(s.queue) : e.num \in DOMAIN s.packs => s.packs[e.num].id = e.asked
  BY DEF GoodFile
<1>2. TrueSums(s.packs, d2, b2, z)
  BY <1>1 DEF TrueSums, TrueSum, Fades
<1> QED BY <1>1, <1>2 DEF GoodFile

\* Nothing appears that was not there, but second versions.
LEMMA FadesAll ==
  ASSUME NEW d, NEW d2, \A f \in Path : (\E g \in Path : d2[f] = d[g]) \/ d2[f] % 2 = 0
  PROVE  \A l : Fades(l, d, d2)
<1>1. ASSUME NEW c, Gone(c, d) PROVE Gone(c, d2)
  <2>1. c % 2 = 1 /\ \A f \in Path : d[f] # c
    BY <1>1 DEF Gone
  <2>2. ASSUME NEW f \in Path, d2[f] = c PROVE FALSE
    <3>1. \E g \in Path : d2[f] = d[g]
      BY <2>1, <2>2
    <3> QED BY <2>1, <2>2, <3>1
  <2> QED BY <2>1, <2>2 DEF Gone
<1> QED BY <1>1 DEF Fades

\* The triggers are those of the packs again.
LEMMA RebuiltGood ==
  ASSUME NEW m, NEW d, NEW b, NEW z, Good(m, d, b, z)
  PROVE  LET n == Final(m)
         IN Good(n, d, b, z) /\ n.xdccs = m.xdccs /\ n.delayed = m.delayed /\ \A X : Live(n, X)
<1> DEFINE n == Final(m)
<1>1. m \in Memory /\ m.xdccs \in Seq(Pack)
  BY DEF Good, Regular
<1>2. Triggers(m.xdccs) \in SUBSET Nat
  BY <1>1, ListFields, PackFields DEF Triggers
<1>3. n = [m EXCEPT !.trig = Triggers(m.xdccs)]
  BY DEF Final, Rebuilt
<1> HIDE DEF n
<1>4. n \in Memory /\ n.xdccs = m.xdccs /\ n.trig = Triggers(m.xdccs) /\ n.delayed = m.delayed /\ n.md5build = m.md5build
      /\ n.queue = m.queue
  BY <1>1, <1>2, <1>3 DEF Memory
<1>5. Good(n, d, b, z)
  BY <1>4 DEF Good
<1>6. \A X : Live(n, X)
  BY <1>4 DEF Live
<1> QED BY <1>4, <1>5, <1>6 DEF n

\* Packs that were removed without a rebuild are left behind.
LEMMA OutlivesLive ==
  ASSUME NEW m, NEW n, NEW ids, m.xdccs \in Seq(Pack), n.xdccs \in Seq(Pack), Outlives(m, n, ids), NEW X, Live(m, X)
  PROVE  Live(n, X \cup ids)
<1> SUFFICES ASSUME NEW x \in m.trig PROVE x \in Triggers(n.xdccs) \cup X \cup ids
  BY DEF Live, Outlives
<1>1. CASE x \in X \cup ids
  BY <1>1
<1>2. CASE x \in Triggers(m.xdccs) /\ x \notin ids
  <2>1. PICK c \in Cores(m.xdccs) : c.id = x /\ c.trigger = TRUE
    BY <1>2, TriggersOf
  <2>2. c \in Cores(n.xdccs)
    BY <1>2, <2>1 DEF Outlives
  <2> QED BY <2>1, <2>2, TriggersOf
<1> QED BY <1>1, <1>2 DEF Live

\* Where no group becomes bare none loses its description.
LEMMA SpokenBare ==
  ASSUME NEW l, NEW r, Bare(r) \subseteq Bare(l)
  PROVE  Spoken(l, r)
BY DEF Spoken, Bare
-----------------------------------------------------------------------------
(* The invariant *)

PInv ==
  /\ Good(known, disk, blind, fresh) /\ Live(known, left) /\ GoodFile(saved, disk, blind, fresh)
  /\ disk \in Disk /\ fresh \in Nat \ {0}

\* What a step has to keep.
StepKeeps == PInv' /\ Spoken(known.xdccs, known'.xdccs)

\* The parts of the invariant.
LEMMA InvFields ==
  ASSUME PInv
  PROVE  /\ known \in Memory /\ known.xdccs \in Seq(Pack) /\ Regular(known.xdccs) /\ Jobs(known.delayed)
         /\ DOMAIN known.xdccs = 1..Len(known.xdccs) /\ Len(known.xdccs) \in Nat
         /\ known.queue \in Seq(Requests) /\ known.trig \in SUBSET Nat /\ known.delayed \in Seq(Job)
         /\ known.md5build \in [id : Nat, of : 0..Mixed]
         /\ Good(known, disk, blind, fresh) /\ Live(known, left) /\ GoodFile(saved, disk, blind, fresh)
         /\ disk \in Disk /\ fresh \in Nat \ {0}
<1>1. known \in Memory /\ Regular(known.xdccs) /\ Jobs(known.delayed) /\ known.xdccs \in Seq(Pack)
  BY DEF PInv, Good, Regular
<1> QED BY <1>1, MemoryFields, ListFields DEF PInv

\* The list is left as it is, or loses no description.
LEMMA SpokenSame ==
  ASSUME NEW l
  PROVE  Spoken(l, l)
BY DEF Spoken

\* Revised packs keep their descriptions.
LEMMA SpokenRevised ==
  ASSUME NEW l, NEW r, Regular(l), Revised(l, r)
  PROVE  Spoken(l, r)
BY RevisedSame, SpokenBare

\* A command that saves what it made of memory.
LEMMA ByStored ==
  ASSUME PInv, NEW m, Good(m, disk, blind, fresh), Live(m, left), Spoken(known.xdccs, m.xdccs),
         Stored(m), UNCHANGED <<disk, left>>
  PROVE  StepKeeps
<1>1. GoodFile(write_statefile(m), disk, blind, fresh)
  BY Written
<1>2. known' = m /\ saved' = write_statefile(m) /\ blind' = blind /\ fresh' = fresh /\ disk' = disk /\ left' = left
  BY DEF Stored
<1> QED BY <1>1, <1>2 DEF PInv, StepKeeps

\* A command that does not save.
LEMMA ByUnsaved ==
  ASSUME PInv, NEW m, Good(m, disk, blind, fresh), Live(m, left'), Spoken(known.xdccs, m.xdccs),
         Unsaved(m), UNCHANGED disk
  PROVE  StepKeeps
<1>1. known' = m /\ saved' = saved /\ blind' = blind /\ fresh' = fresh /\ disk' = disk
  BY DEF Unsaved
<1> QED BY <1>1 DEF PInv, StepKeeps

\* A step of the program that is no command, and leaves the disk and the ghosts alone.
LEMMA ByItself ==
  ASSUME PInv, Good(known', disk, blind, fresh), Live(known', left), Spoken(known.xdccs, known'.xdccs),
         saved' = saved \/ saved' = write_statefile(known'), UNCHANGED <<disk, left, blind, fresh>>
  PROVE  StepKeeps
<1>1. GoodFile(write_statefile(known'), disk, blind, fresh)
  BY Written
<1>2. GoodFile(saved', disk, blind, fresh)
  BY <1>1 DEF PInv
<1> QED BY <1>2 DEF PInv, StepKeeps

\* Packs are removed, with the final part or without.
LEMMA Removal ==
  ASSUME PInv, NEW m, Good(m, disk, blind, fresh), Live(m, left), Spoken(known.xdccs, m.xdccs),
         Bare(m.xdccs) \subseteq Bare(known.xdccs), NEW ids
  PROVE  LET out == RemoveAll(m, ids)
         IN /\ Good(out, disk, blind, fresh) /\ Live(out, left \cup ids) /\ Spoken(known.xdccs, out.xdccs)
            /\ Good(Final(out), disk, blind, fresh) /\ Live(Final(out), left) /\ Spoken(known.xdccs, Final(out).xdccs)
<1> DEFINE out == RemoveAll(m, ids)
<1>1. Good(out, disk, blind, fresh) /\ Outlives(m, out, ids)
  BY RemovedAll
<1> HIDE DEF out
<1>2. m.xdccs \in Seq(Pack) /\ out.xdccs \in Seq(Pack)
  BY <1>1 DEF Good, Regular
<1>3. Live(out, left \cup ids)
  BY <1>1, <1>2, OutlivesLive
<1>4. Spoken(known.xdccs, out.xdccs)
  BY <1>1, SpokenBare DEF Outlives
<1>5. Good(Final(out), disk, blind, fresh) /\ Live(Final(out), left) /\ Final(out).xdccs = out.xdccs
  BY <1>1, RebuiltGood
<1> QED BY <1>1, <1>3, <1>4, <1>5 DEF out

\* The same of what the program keeps now.
LEMMA RemovalNow ==
  ASSUME PInv, NEW ids
  PROVE  LET out == RemoveAll(known, ids)
         IN /\ Good(out, disk, blind, fresh) /\ Live(out, left \cup ids) /\ Spoken(known.xdccs, out.xdccs)
            /\ Good(Final(out), disk, blind, fresh) /\ Live(Final(out), left) /\ Spoken(known.xdccs, Final(out).xdccs)
<1>1. Good(known, disk, blind, fresh) /\ Live(known, left) /\ Spoken(known.xdccs, known.xdccs)
  BY SpokenSame DEF PInv
<1> QED BY <1>1, Removal

\* REMOVE, of a range that may stop early.
LEMMA RemovePacksKeeps ==
  ASSUME PInv, NEW a, NEW n, NEW m, RemovePacks(a, n, m)
  PROVE  StepKeeps
<1> DEFINE bar == Barred(n, m, a)
           low == IF bar = {} THEN n ELSE 1 + Highest(bar)
           ids == {known.xdccs[i].id : i \in low..m}
           out == RemoveAll(known, ids)
<1>1. UNCHANGED disk /\ \/ Stored(Final(out)) /\ UNCHANGED left
                        \/ Unsaved(out) /\ left' = left \cup ids
  BY DEF RemovePacks
<1> HIDE DEF ids
<1>2. /\ Good(out, disk, blind, fresh) /\ Live(out, left \cup ids) /\ Spoken(known.xdccs, out.xdccs)
      /\ Good(Final(out), disk, blind, fresh) /\ Live(Final(out), left) /\ Spoken(known.xdccs, Final(out).xdccs)
  BY RemovalNow
<1> HIDE DEF out
<1>3. CASE Stored(Final(out)) /\ UNCHANGED left
  BY <1>1, <1>2, <1>3, ByStored
<1>4. CASE Unsaved(out) /\ left' = left \cup ids
  BY <1>1, <1>2, <1>4, ByUnsaved
<1> QED BY <1>1, <1>3, <1>4

\* FILEREMOVE: the files go from the disk too.
LEMMA FileRemoveKeeps ==
  ASSUME PInv, NEW a, NEW n, NEW m, FileRemove(a, n, m)
  PROVE  StepKeeps
<1> DEFINE bar == Barred(n, m, a)
           low == IF bar = {} THEN n ELSE 1 + Highest(bar)
           ids == {known.xdccs[i].id : i \in low..m}
           out == RemoveAll(known, ids)
<1>1. /\ Unsaved(out) /\ left' = left \cup ids
      /\ disk' = [f \in Path |-> IF \E i \in low..m : known.xdccs[i].file = f THEN 0 ELSE disk[f]]
  BY DEF FileRemove
<1> HIDE DEF ids, low
<1>2. Good(out, disk, blind, fresh) /\ Live(out, left \cup ids) /\ Spoken(known.xdccs, out.xdccs)
  BY RemovalNow
<1> HIDE DEF out
<1>3. \A f \in Path : disk'[f] = 0 \/ disk'[f] = disk[f]
  BY <1>1
<1>4. disk' \in Disk
  BY <1>1, Sizes DEF PInv, Disk
<1>5. \A l : Fades(l, disk, disk')
  BY <1>3, FadesAll
<1>6. Good(out, disk', blind, fresh)
  BY <1>2, <1>5, GoodFades
<1>7. GoodFile(saved, disk', blind, fresh)
  BY <1>5, FileFades DEF PInv
<1>8. known' = out /\ saved' = saved /\ blind' = blind /\ fresh' = fresh
  BY <1>1 DEF Unsaved
<1> QED BY <1>1, <1>2, <1>4, <1>6, <1>7, <1>8 DEF PInv, StepKeeps

\* REMOVEGROUP.
LEMMA RemoveGroupKeeps ==
  ASSUME PInv, NEW a, NEW g, RemoveGroup(a, g)
  PROVE  StepKeeps
<1> DEFINE ids == {known.xdccs[i].id : i \in {j \in InGroup(known.xdccs, g) : ~Hidden(known, j, a)}}
           out == RemoveAll(known, ids)
<1>1. Stored(Final(out)) /\ UNCHANGED <<disk, left>>
  BY DEF RemoveGroup
<1> HIDE DEF ids
<1>2. Good(Final(out), disk, blind, fresh) /\ Live(Final(out), left) /\ Spoken(known.xdccs, Final(out).xdccs)
  BY RemovalNow
<1> HIDE DEF out
<1> QED BY <1>1, <1>2, ByStored

\* REMOVELOST: all files are looked at first.
LEMMA RemoveLostKeeps ==
  ASSUME PInv, NEW a, RemoveLost(a)
  PROVE  StepKeeps
<1> DEFINE ids == {known.xdccs[i].id : i \in {j \in Numbers : Lost(known, j) /\ ~Hidden(known, j, a)}}
           seen == LookAll(known)
           out == RemoveAll(seen, ids)
<1>1. UNCHANGED <<disk, left>> /\ (Unsaved(seen) \/ Stored(Final(out)))
  BY DEF RemoveLost
<1> HIDE DEF ids
<1>2. Good(seen, disk, blind, fresh) /\ Alike(known, seen)
  BY LookedAll DEF PInv
<1>3. Regular(known.xdccs) /\ Live(known, left)
  BY InvFields
<1>4. Bare(seen.xdccs) \subseteq Bare(known.xdccs) /\ Live(seen, left)
  BY <1>2, <1>3, RevisedSame DEF Alike, Live
<1>5. Spoken(known.xdccs, seen.xdccs)
  BY <1>4, SpokenBare
<1> HIDE DEF seen
<1>6. Good(Final(out), disk, blind, fresh) /\ Live(Final(out), left) /\ Spoken(known.xdccs, Final(out).xdccs)
  BY <1>2, <1>4, <1>5, Removal
<1> HIDE DEF out
<1>7. CASE Unsaved(seen)
  BY <1>1, <1>2, <1>4, <1>5, <1>7, ByUnsaved
<1>8. CASE Stored(Final(out))
  BY <1>1, <1>6, <1>8, ByStored
<1> QED BY <1>1, <1>7, <1>8
-----------------------------------------------------------------------------
(* Commands on order and groups *)

\* The list is ordered or grouped anew.
LEMMA ByArranged ==
  ASSUME PInv, NEW r, Regular(r), Cores(r) = Cores(known.xdccs), Spoken(known.xdccs, r),
         UNCHANGED <<disk, left>>,
         Stored([known EXCEPT !.xdccs = r]) \/ Unsaved([known EXCEPT !.xdccs = r])
  PROVE  StepKeeps
<1> DEFINE m == [known EXCEPT !.xdccs = r]
<1>1. Good(known, disk, blind, fresh) /\ Live(known, left)
  BY DEF PInv
<1>2. /\ Good(m, disk, blind, fresh) /\ m.xdccs = r
      /\ \A X : Live(known, X) => Live(m, X)
  BY <1>1, GoodArranged
<1>3. Stored(m) \/ Unsaved(m)
  OBVIOUS
<1> HIDE DEF m
<1>4. Live(m, left) /\ Spoken(known.xdccs, m.xdccs) /\ left' = left
  BY <1>1, <1>2
<1>5. CASE Stored(m)
  BY <1>2, <1>4, <1>5, ByStored
<1>6. CASE Unsaved(m)
  BY <1>2, <1>4, <1>6, ByUnsaved
<1> QED BY <1>3, <1>5, <1>6

\* RENUMBER.
LEMMA RenumberKeeps ==
  ASSUME PInv, NEW old \in Numbers, NEW end \in Numbers, NEW new \in Numbers, old <= end, Renumber(old, end, new)
  PROVE  StepKeeps
<1> DEFINE r == Renumbered(known.xdccs, old, end, new)
<1>1. new \notin old..end /\ Stored([known EXCEPT !.xdccs = r]) /\ UNCHANGED <<disk, left>>
  BY DEF Renumber
<1>2. Arranged(known.xdccs, r)
  BY <1>1, InvFields, RenumberedAll DEF Numbers
<1> HIDE DEF r
<1>3. Regular(r) /\ Cores(r) = Cores(known.xdccs) /\ Spoken(known.xdccs, r)
  BY <1>2, SpokenBare DEF Arranged
<1> QED BY <1>1, <1>3, ByArranged

\* SORT.
LEMMA SortKeeps ==
  ASSUME PInv, NEW by, Sort(by)
  PROVE  StepKeeps
<1> DEFINE r == SortedBy(known.xdccs, by)
<1>1. Stored([known EXCEPT !.xdccs = r]) /\ UNCHANGED <<disk, left>>
  BY DEF Sort
<1>2. Regular(r) /\ Cores(r) = Cores(known.xdccs) /\ Bare(r) = Bare(known.xdccs)
  BY InvFields, SortedAll
<1> HIDE DEF r
<1>3. Spoken(known.xdccs, r)
  BY <1>2, SpokenBare
<1> QED BY <1>1, <1>2, <1>3, ByArranged

\* A range that stops at the first pack that may not be changed.
LEMMA StoppedAt ==
  ASSUME PInv, NEW n \in Numbers, NEW m \in Numbers, n <= m, NEW a
  PROVE  LET bar == Barred(n, m, a)
             last == IF bar = {} THEN m ELSE First(bar) - 1
         IN last \in Nat /\ n <= last + 1 /\ last <= m /\ last <= Len(known.xdccs)
<1> DEFINE bar == Barred(n, m, a)
           last == IF bar = {} THEN m ELSE First(bar) - 1
<1>1. n \in Nat /\ m \in Nat /\ n >= 1 /\ m <= Len(known.xdccs) /\ Len(known.xdccs) \in Nat
  BY InvFields DEF Numbers
<1>2. bar \subseteq n..m
  BY DEF Barred
<1> HIDE DEF bar
<1>3. last = m \/ last \in {x - 1 : x \in n..m}
  <2>1. bar # {} => First(bar) \in bar
    <3>1. bar \subseteq Nat
      BY <1>1, <1>2
    <3> QED BY <3>1, FirstType
  <2> QED BY <1>2, <2>1
<1> HIDE DEF last
<1>4. last \in Nat /\ n <= last + 1 /\ last <= m /\ last <= Len(known.xdccs)
  BY <1>1, <1>3
<1> QED BY <1>4 DEF bar, last

\* GROUP and MOVEGROUP.
LEMMA MoveGroupKeeps ==
  ASSUME PInv, NEW a, NEW n \in Numbers, NEW m \in Numbers, NEW g \in 0..Groups, n <= m, MoveGroup(a, n, m, g)
  PROVE  StepKeeps
<1> DEFINE bar == Barred(n, m, a)
           last == IF bar = {} THEN m ELSE First(bar) - 1
           r == SetGroups(known.xdccs, n, last, g)
<1>1. (Stored([known EXCEPT !.xdccs = r]) \/ Unsaved([known EXCEPT !.xdccs = r])) /\ UNCHANGED <<disk, left>>
  BY DEF MoveGroup
<1>2. last \in Nat /\ n <= last + 1 /\ last <= Len(known.xdccs)
  BY StoppedAt
<1> HIDE DEF last
<1>3. Arranged(known.xdccs, r)
  BY <1>2, InvFields, JoinedAll DEF Numbers
<1> HIDE DEF r
<1>4. Regular(r) /\ Cores(r) = Cores(known.xdccs) /\ Spoken(known.xdccs, r)
  BY <1>3, SpokenBare DEF Arranged
<1> QED BY <1>1, <1>4, ByArranged

\* REGROUP.
LEMMA RegroupKeeps ==
  ASSUME PInv, NEW g \in 1..Groups, NEW h \in 1..Groups, Regroup(g, h)
  PROVE  StepKeeps
<1> DEFINE r == MoveAll(known.xdccs, g, h)
<1>1. Stored([known EXCEPT !.xdccs = r]) /\ UNCHANGED <<disk, left>>
  BY DEF Regroup
<1>2. Regular(r) /\ Cores(r) = Cores(known.xdccs) /\ Spoken(known.xdccs, r)
  BY InvFields, MovedAll
<1> HIDE DEF r
<1> QED BY <1>1, <1>2, ByArranged

\* NEWGROUP.
LEMMA NewGroupKeeps ==
  ASSUME PInv, NEW g \in 1..Groups, NewGroup(g)
  PROVE  StepKeeps
<1> DEFINE r == GroupFiles(known.xdccs, g)
<1>1. Stored([known EXCEPT !.xdccs = r]) /\ UNCHANGED <<disk, left>>
  BY DEF NewGroup
<1>2. g \in 0..Groups
  BY Sizes
<1>3. Arranged(known.xdccs, r)
  BY <1>2, InvFields, FilesJoined
<1> HIDE DEF r
<1>4. Regular(r) /\ Cores(r) = Cores(known.xdccs) /\ Spoken(known.xdccs, r)
  BY <1>3, SpokenBare DEF Arranged
<1> QED BY <1>1, <1>4, ByArranged

\* GROUPDESC is the one command that takes a description.
LEMMA GroupDescKeeps ==
  ASSUME PInv, NEW g \in 1..Groups, NEW d \in BOOLEAN, GroupDesc(g, d)
  PROVE  /\ PInv'
         /\ \A h \in 1..Groups : h \in Said(known.xdccs) /\ h \notin Said(known'.xdccs) => h = g /\ d = FALSE
<1> DEFINE r == reorder_new_groupdesc(known.xdccs, g, d)
           m == [known EXCEPT !.xdccs = r]
<1>1. Stored(m) /\ UNCHANGED <<disk, left>>
  BY DEF GroupDesc
<1>2. /\ Regular(r) /\ Cores(r) = Cores(known.xdccs)
      /\ \A h \in 1..Groups : h \in Said(known.xdccs) /\ h \notin Said(r) => h = g /\ d = FALSE
  BY InvFields, Described
<1> HIDE DEF r
<1>3. Good(known, disk, blind, fresh) /\ Live(known, left)
  BY DEF PInv
<1>4. Good(m, disk, blind, fresh) /\ m.xdccs = r /\ Live(m, left)
  BY <1>2, <1>3, GoodArranged
<1> HIDE DEF m
<1>5. GoodFile(write_statefile(m), disk, blind, fresh)
  BY <1>4, Written
<1>6. known' = m /\ saved' = write_statefile(m) /\ blind' = blind /\ fresh' = fresh /\ disk' = disk /\ left' = left
  BY <1>1 DEF Stored
<1>7. PInv'
  BY <1>4, <1>5, <1>6 DEF PInv
<1> QED BY <1>2, <1>4, <1>6, <1>7
-----------------------------------------------------------------------------
(* New packs, directories *)

\* REMOVEDIR and REMOVEMATCH only leave jobs.
LEMMA RemoveDirKeeps ==
  ASSUME PInv, NEW a \in Scopes, NEW fs \in SUBSET Path, RemoveDir(a, fs)
  PROVE  StepKeeps
<1> DEFINE K == {f \in fs : disk[f] # 0}
           files == Keep([f \in Path |-> f], K)
           jobs == [k \in DOMAIN files |->
                     [cmd |-> "REMOVE", file |-> 0, ino |-> Inode(disk[files[k]]), group |-> 0, scope |-> a]]
           m == [known EXCEPT !.delayed = known.delayed \o jobs]
<1>1. Unsaved(m) /\ UNCHANGED <<disk, left>>
  BY DEF RemoveDir
<1>2. files \in Seq(Path) /\ DOMAIN files = 1..Len(files) /\ \A k \in DOMAIN files : files[k] \in Path
  <2>1. K \subseteq Path
    OBVIOUS
  <2> HIDE DEF K
  <2> QED BY <2>1, FilesKept
<1> HIDE DEF files, m
<1>3. ASSUME NEW k \in DOMAIN files PROVE jobs[k] \in Job /\ jobs[k].cmd = "REMOVE"
  <2>1. Inode(disk[files[k]]) \in 0..Inodes
    BY <1>2, InodeType DEF Disk, PInv
  <2>2. a \in SUBSET (1..Groups)
    <3>1. Scopes \subseteq SUBSET (1..Groups)
      BY PacksAssumption
    <3> QED BY <3>1
  <2>3. 0 \in 0..Files /\ 0 \in 0..Groups
    BY Sizes
  <2> QED BY <2>1, <2>2, <2>3 DEF Job
<1>4. jobs \in Seq(Job) /\ Jobs(jobs)
  <2>1. jobs = [k \in 1..Len(files) |-> jobs[k]] /\ Len(files) \in Nat /\ DOMAIN jobs = DOMAIN files
    BY <1>2
  <2> HIDE DEF jobs
  <2>2. jobs \in Seq(Job)
    BY <1>2, <1>3, <2>1
  <2> QED BY <1>3, <2>1, <2>2 DEF Jobs, Elems
<1> HIDE DEF jobs
<1>5. known.delayed \o jobs \in Seq(Job) /\ Jobs(known.delayed \o jobs)
  BY <1>4, InvFields, JobsAppended
<1>6. Good(known, disk, blind, fresh) /\ Live(known, left)
  BY DEF PInv
<1>7. Good(m, disk, blind, fresh) /\ m.xdccs = known.xdccs /\ m.trig = known.trig
  BY <1>5, <1>6, GoodDelayed DEF m
<1>8. Live(m, left') /\ Spoken(known.xdccs, m.xdccs)
  BY <1>1, <1>6, <1>7, SpokenSame DEF Live
<1> QED BY <1>1, <1>7, <1>8, ByUnsaved

\* A file is taken in, refused, or noticed as renamed.
LEMMA TakeInKeeps ==
  ASSUME PInv, NEW m, Good(m, disk, blind, fresh), Live(m, left), m.xdccs = known.xdccs,
         NEW f \in Path, NEW g \in 0..Groups, TakeIn(m, f, g)
  PROVE  StepKeeps
<1>1. UNCHANGED <<disk, left, blind>> /\ known' = Added(m, f, g)
  BY DEF TakeIn
<1>2. Regular(m.xdccs) /\ disk \in Disk /\ fresh \in Nat \ {0} /\ GoodFile(saved, disk, blind, fresh)
  BY InvFields
<1>3. CASE Addable(m, f)
  <2>1. known' = Add2(m, f, g) /\ saved' = write_statefile(known') /\ fresh' = fresh + 1
    BY <1>3 DEF TakeIn, Added
  <2>2. /\ Good(known', disk, blind, fresh + 1) /\ Bare(known'.xdccs) \subseteq Bare(m.xdccs)
        /\ known'.trig = m.trig /\ Triggers(known'.xdccs) = Triggers(m.xdccs)
    BY <1>2, <2>1, AddGood
  <2>3. Live(known', left)
    BY <2>2 DEF Live
  <2>4. Spoken(known.xdccs, known'.xdccs)
    BY <2>2, SpokenBare
  <2>5. GoodFile(saved', disk, blind, fresh + 1)
    BY <2>1, <2>2, Written
  <2>6. fresh + 1 \in Nat \ {0}
    BY <1>2
  <2> QED BY <1>1, <1>2, <2>1, <2>2, <2>3, <2>4, <2>5, <2>6 DEF PInv, StepKeeps
<1>4. CASE ~Addable(m, f)
  <2>1. saved' = saved /\ fresh' = fresh /\ (known' = m \/ (known' = Renamed(m, f) /\ SameInode(m.xdccs, disk[f]) # {}))
    BY <1>1, <1>4 DEF TakeIn, Added, Duplicate
  <2>2. CASE known' = m
    BY <1>1, <2>1, <2>2, SpokenSame, ByItself
  <2>3. CASE known' = Renamed(m, f) /\ SameInode(m.xdccs, disk[f]) # {}
    <3>1. Good(known', disk, blind, fresh) /\ Alike(m, known')
      BY <1>2, <2>3, RenamedGood
    <3>2. Live(known', left) /\ Spoken(known.xdccs, known'.xdccs)
      BY <1>2, <3>1, SpokenRevised DEF Alike, Live
    <3> QED BY <1>1, <2>1, <3>1, <3>2, ByItself
  <2> QED BY <2>1, <2>2, <2>3
<1> QED BY <1>3, <1>4

\* ADD.
LEMMA AddKeeps ==
  ASSUME PInv, NEW f \in Path, Add(f)
  PROVE  StepKeeps
<1>1. TakeIn(known, f, 0) /\ 0 \in 0..Groups
  BY Sizes DEF Add
<1>2. Good(known, disk, blind, fresh) /\ Live(known, left)
  BY DEF PInv
<1> QED BY <1>1, <1>2, TakeInKeeps

\* ADDDIR, ADDNEW and ADDGROUP.
LEMMA AddDirKeeps ==
  ASSUME PInv, NEW onlynew, NEW g \in 0..Groups, AddDir(onlynew, g)
  PROVE  StepKeeps
<1> DEFINE m == Scanned(known, onlynew, g)
<1>1. Unsaved(m) /\ UNCHANGED <<disk, left>>
  BY DEF AddDir
<1>2. Good(m, disk, blind, fresh) /\ Revised(known.xdccs, m.xdccs) /\ Triggers(m.xdccs) = Triggers(known.xdccs)
      /\ m.trig = known.trig
  BY InvFields, ScannedGood
<1> HIDE DEF m
<1>3. Live(m, left') /\ Spoken(known.xdccs, m.xdccs)
  BY <1>1, <1>2, InvFields, SpokenRevised DEF Live
<1> QED BY <1>1, <1>2, <1>3, ByUnsaved
-----------------------------------------------------------------------------
(* Commands on files, triggers and sums *)

\* The packs are revised, and what is known of files stays or is forgotten.
Rewritten(l, r) ==
  Revised(l, r) /\ \A i \in DOMAIN l : r[i].seen = l[i].seen /\ r[i].md5 \in {0, l[i].md5}

\* Memory stays good when its packs are rewritten.
LEMMA GoodRewritten ==
  ASSUME NEW m, NEW d, NEW b, NEW z, Good(m, d, b, z), NEW r, Rewritten(m.xdccs, r)
  PROVE  LET n == [m EXCEPT !.xdccs = r]
         IN /\ Good(n, d, b, z) /\ n.xdccs = r /\ n.trig = m.trig /\ n.md5build = m.md5build
            /\ Spoken(m.xdccs, r)
<1> DEFINE n == [m EXCEPT !.xdccs = r]
           l == m.xdccs
<1>1. m \in Memory /\ Regular(l) /\ TrueSums(l, d, b, z) /\ Building(m.md5build, l, d, b) /\ Jobs(m.delayed) /\ l \in Seq(Pack)
  BY DEF Good, Regular
<1>2. Revised(l, r) /\ \A i \in DOMAIN l : r[i].seen = l[i].seen /\ r[i].md5 \in {0, l[i].md5}
  BY DEF Rewritten
<1>3. r \in Seq(Pack) /\ DOMAIN r = DOMAIN l /\ \A i \in DOMAIN l : r[i].id = l[i].id
  BY <1>2 DEF Revised
<1>4. n \in Memory /\ n.xdccs = r /\ n.queue = m.queue /\ n.trig = m.trig /\ n.md5build = m.md5build /\ n.delayed = m.delayed
  BY <1>1, <1>3 DEF Memory
<1> HIDE DEF n, l
<1>5. TrueSums(r, d, b, z)
  <2>1. \A i \in DOMAIN l : TrueSum(l[i], d, b) /\ l[i].id \in 1..(z - 1)
    BY <1>1, OneByOne
  <2>2. \A i \in DOMAIN r : TrueSum(r[i], d, b) /\ r[i].id \in 1..(z - 1)
    BY <1>2, <1>3, <2>1 DEF TrueSum
  <2> QED BY <1>3, <2>2, OneByOne
<1>6. Building(m.md5build, r, d, b)
  <2>1. m.md5build.id # 0 => \E i \in DOMAIN l : /\ l[i].id = m.md5build.id
                                                 /\ m.md5build.of = l[i].seen \/ l[i].id \in b \/ Gone(l[i].seen, d)
    BY <1>1, OneByOne
  <2>2. m.md5build.id # 0 => \E i \in DOMAIN r : /\ r[i].id = m.md5build.id
                                                 /\ m.md5build.of = r[i].seen \/ r[i].id \in b \/ Gone(r[i].seen, d)
    BY <1>2, <1>3, <2>1
  <2> QED BY <1>3, <2>2, OneByOne
<1>7. Good(n, d, b, z)
  <2>1. Revised(m.xdccs, n.xdccs) /\ Jobs(n.delayed) /\ TrueSums(n.xdccs, d, b, z) /\ Building(n.md5build, n.xdccs, d, b)
    BY <1>1, <1>2, <1>4, <1>5, <1>6 DEF l
  <2> QED BY <1>4, <2>1, GoodRevised
<1>8. Spoken(l, r)
  BY <1>1, <1>2, SpokenRevised
<1> QED BY <1>4, <1>7, <1>8 DEF n, l

\* CHFILE: the sum of the old file is forgotten.
LEMMA ChFileKeeps ==
  ASSUME PInv, NEW a, NEW n \in Numbers, NEW f \in Path, ChFile(a, n, f)
  PROVE  StepKeeps
<1> DEFINE l == known.xdccs
           p == l[n]
           c == disk[f]
           q == [p EXCEPT !.file = f, !.seen = c, !.md5 = 0]
           job == IF known.md5build.id = p.id THEN [id |-> 0, of |-> 0] ELSE known.md5build
           m == [known EXCEPT !.xdccs = [known.xdccs EXCEPT ![n] = q], !.md5build = job]
<1>1. /\ Stored(Named(cancel_md5_hash([known EXCEPT !.xdccs[n].file = f, !.xdccs[n].seen = c], n), n))
      /\ UNCHANGED <<disk, left>>
  BY DEF ChFile
<1>2. known \in Memory /\ l \in Seq(Pack) /\ n \in DOMAIN l /\ p \in Pack /\ known.md5build \in [id : Nat, of : 0..Mixed]
  BY InvFields, ListFields DEF Numbers
<1>3. c \in 0..(2 * Inodes) /\ 0 \in 0..Mixed
  BY NoJob DEF PInv, Disk
<1>4. q \in Pack /\ q.id = p.id /\ q.group = p.group /\ q.desc = p.desc /\ q.trigger = p.trigger /\ q.md5 = 0
  <2> HIDE DEF c, p
  <2> QED BY <1>2, <1>3 DEF Pack
<1>5. job \in [id : Nat, of : 0..Mixed] /\ (job.id = 0 \/ (job = known.md5build /\ job.id # q.id))
  BY <1>2, <1>4, NoJob
<1>6. cancel_md5_hash([known EXCEPT !.xdccs[n].file = f, !.xdccs[n].seen = c], n) = m
  <2> DEFINE u == [p EXCEPT !.file = f, !.seen = c]
             s == [known EXCEPT !.xdccs = [l EXCEPT ![n] = u]]
  <2>1. [known EXCEPT !.xdccs[n].file = f, !.xdccs[n].seen = c] = s
    <3> HIDE DEF c
    <3> QED BY <1>2 DEF Memory, Pack
  <2> HIDE DEF c, job
  <2>2. s.xdccs = [l EXCEPT ![n] = u] /\ s.md5build = known.md5build /\ s.xdccs[n] = u /\ s.xdccs[n].id = p.id
    BY <1>2 DEF Memory, Pack
  <2>3. cancel_md5_hash(s, n) = [s EXCEPT !.md5build = job, !.xdccs = [s.xdccs EXCEPT ![n] = [s.xdccs[n] EXCEPT !.md5 = 0]]]
    BY <2>2 DEF cancel_md5_hash, job
  <2>4. [s.xdccs[n] EXCEPT !.md5 = 0] = q
    BY <1>2, <2>2 DEF Pack
  <2>5. [s.xdccs EXCEPT ![n] = q] = [l EXCEPT ![n] = q]
    <3> HIDE DEF s, q, p, u
    <3> QED BY <1>2, <2>2
  <2> HIDE DEF q, u
  <2>6. [s EXCEPT !.md5build = job, !.xdccs = [l EXCEPT ![n] = q]] = m
    BY <1>2 DEF Memory
  <2> QED BY <2>1, <2>3, <2>4, <2>5, <2>6
<1>7. TrueSum(q, disk, blind)
  BY <1>4 DEF TrueSum
<1> HIDE DEF q, job
<1>8. OneChange(known, n, q, job, m) /\ q.trigger = known.xdccs[n].trigger
  BY <1>2, <1>4, <1>5 DEF OneChange
<1> HIDE DEF m
<1>9. Good(known, disk, blind, fresh) /\ Regular(known.xdccs) /\ Live(known, left)
  BY InvFields
<1>10. /\ Good(m, disk, blind, fresh) /\ Revised(known.xdccs, m.xdccs) /\ m.trig = known.trig
       /\ Triggers(m.xdccs) = Triggers(known.xdccs)
  BY <1>7, <1>8, <1>9, GoodOne
<1>11. Live(m, left) /\ Spoken(known.xdccs, m.xdccs)
  BY <1>9, <1>10, SpokenRevised DEF Live
<1> DEFINE o == Named(m, n)
<1>12. Good(o, disk, blind, fresh) /\ o.xdccs = m.xdccs /\ o.trig = m.trig
  <2>1. n \in DOMAIN m.xdccs
    BY <1>2, <1>10 DEF Revised
  <2> QED BY <1>10, <2>1, NameGood
<1>13. Stored(o)
  BY <1>1, <1>6
<1> HIDE DEF o
<1>14. Live(o, left) /\ Spoken(known.xdccs, o.xdccs)
  BY <1>11, <1>12 DEF Live
<1> QED BY <1>1, <1>12, <1>13, <1>14, ByStored

\* A name of a pack is given back.
LEMMA NameFreedKeeps ==
  ASSUME PInv, NEW n \in Numbers, Unsaved(NameFreed(known, n)), UNCHANGED <<disk, left>>
  PROVE  StepKeeps
<1> DEFINE m == NameFreed(known, n)
<1>1. n \in DOMAIN known.xdccs /\ Good(known, disk, blind, fresh) /\ Live(known, left)
  BY InvFields DEF Numbers
<1>2. Good(m, disk, blind, fresh) /\ m.xdccs = known.xdccs /\ m.trig = known.trig
  BY <1>1, NameGood
<1> HIDE DEF m
<1>3. Live(m, left) /\ Spoken(known.xdccs, m.xdccs)
  BY <1>1, <1>2, SpokenSame DEF Live
<1> QED BY <1>2, <1>3, ByUnsaved DEF m

\* The i-th pack gets another name.
LEMMA NewName ==
  ASSUME PInv, NEW n \in Numbers, NEW f \in Path, NEW d, Good(known, d, blind, fresh)
  PROVE  LET m == [known EXCEPT !.xdccs[n].file = f]
         IN /\ Good(m, d, blind, fresh) /\ Live(m, left) /\ Spoken(known.xdccs, m.xdccs)
            /\ DOMAIN m.xdccs = DOMAIN known.xdccs
<1> DEFINE l == known.xdccs
           p == l[n]
           q == [p EXCEPT !.file = f]
           m == [known EXCEPT !.xdccs = [known.xdccs EXCEPT ![n] = q], !.md5build = known.md5build]
<1>2. known \in Memory /\ l \in Seq(Pack) /\ n \in DOMAIN l /\ p \in Pack /\ known.md5build \in [id : Nat, of : 0..Mixed]
  <2>1. known \in Memory /\ l \in Seq(Pack) /\ n \in DOMAIN l /\ known.md5build \in [id : Nat, of : 0..Mixed]
    BY InvFields DEF Numbers
  <2> QED BY <2>1, ListFields
<1>3. q \in Pack /\ q.id = p.id /\ q.group = p.group /\ q.desc = p.desc /\ q.trigger = p.trigger /\ q.seen = p.seen
      /\ q.md5 = p.md5
  <2> HIDE DEF p
  <2> QED BY <1>2 DEF Pack
<1>4. [known EXCEPT !.xdccs[n].file = f] = m
  BY <1>2 DEF Memory
<1>8. TrueSum(q, d, blind)
  <2>1. TrueSums(l, d, blind, fresh)
    BY DEF Good
  <2>2. TrueSum(p, d, blind)
    BY <1>2, <2>1, OneByOne
  <2> QED BY <1>3, <2>2 DEF TrueSum
<1> HIDE DEF q
<1>9. OneChange(known, n, q, known.md5build, m) /\ q.trigger = known.xdccs[n].trigger
  BY <1>2, <1>3 DEF OneChange
<1> HIDE DEF m
<1>10. /\ Good(m, d, blind, fresh) /\ Revised(known.xdccs, m.xdccs) /\ m.trig = known.trig
       /\ Triggers(m.xdccs) = Triggers(known.xdccs)
  BY <1>8, <1>9, GoodOne
<1>11. Regular(known.xdccs) /\ Live(known, left)
  BY InvFields
<1>12. Live(m, left) /\ Spoken(known.xdccs, m.xdccs) /\ DOMAIN m.xdccs = DOMAIN known.xdccs
  BY <1>10, <1>11, SpokenRevised DEF Live, Revised
<1> QED BY <1>4, <1>10, <1>12

\* MOVEFILE: the pack and the file on the disk move together, or the name is given back.
LEMMA MoveFileKeeps ==
  ASSUME PInv, NEW a, NEW n \in Numbers, NEW f \in Path, MoveFile(a, n, f)
  PROVE  StepKeeps
<1> DEFINE old == known.xdccs[n].file
           m == [known EXCEPT !.xdccs[n].file = f]
           o == Named(m, n)
<1>1. CASE Unsaved(NameFreed(known, n)) /\ UNCHANGED <<disk, left>>
  BY <1>1, NameFreedKeeps
<1>2. CASE /\ disk' = [disk EXCEPT ![f] = disk[old], ![old] = 0]
           /\ Unsaved(o) /\ left' = left
  <2>1. old \in Path /\ disk \in Disk /\ fresh \in Nat \ {0}
    <3>1. known.xdccs[n] \in Pack /\ disk \in Disk /\ fresh \in Nat \ {0}
      BY InvFields, ListFields DEF Numbers
    <3> QED BY <3>1, PackFields
  <2> HIDE DEF old
  <2>2. disk' \in Disk /\ \A g \in Path : disk'[g] = 0 \/ \E h \in Path : disk'[g] = disk[h]
    <3>1. disk \in [Path -> 0..(2 * Inodes)] /\ 0 \in 0..(2 * Inodes)
      BY <2>1, Sizes DEF Disk
    <3> QED BY <1>2, <2>1, <3>1 DEF Disk
  <2>3. \A r : Fades(r, disk, disk')
    BY <2>2, FadesAll
  <2>4. Good(known, disk', blind, fresh) /\ GoodFile(saved, disk', blind, fresh)
    <3>1. Good(known, disk, blind, fresh) /\ GoodFile(saved, disk, blind, fresh)
      BY InvFields
    <3>2. Good(known, disk', blind, fresh)
      BY <2>3, <3>1, GoodFades
    <3>3. GoodFile(saved, disk', blind, fresh)
      BY <2>3, <3>1, FileFades
    <3> QED BY <3>2, <3>3
  <2>5. /\ Good(m, disk', blind, fresh) /\ Live(m, left) /\ Spoken(known.xdccs, m.xdccs) /\ n \in DOMAIN m.xdccs
    BY <2>4, NewName DEF Numbers
  <2> HIDE DEF m
  <2>6. Good(o, disk', blind, fresh) /\ o.xdccs = m.xdccs /\ o.trig = m.trig
    BY <2>5, NameGood
  <2>7. known' = o /\ saved' = saved /\ blind' = blind /\ fresh' = fresh /\ left' = left
    BY <1>2 DEF Unsaved
  <2> HIDE DEF o
  <2>8. Live(o, left) /\ Spoken(known.xdccs, o.xdccs)
    BY <2>5, <2>6 DEF Live
  <2> QED BY <2>1, <2>2, <2>4, <2>6, <2>7, <2>8 DEF PInv, StepKeeps
<1> QED BY <1>1, <1>2 DEF MoveFile

\* The name of a pack that was given back is another.
LEMMA GarbledKeeps ==
  ASSUME PInv, NEW n \in Numbers, Garbled(n)
  PROVE  StepKeeps
<1>1. PICK f \in Path : known' = [known EXCEPT !.xdccs[n].file = f]
  BY DEF Garbled
<1>2. UNCHANGED <<disk, saved, left, blind, fresh>>
  BY DEF Garbled
<1>3. Good(known, disk, blind, fresh)
  BY InvFields
<1>4. Good(known', disk, blind, fresh) /\ Live(known', left) /\ Spoken(known.xdccs, known'.xdccs)
  BY <1>1, <1>3, NewName
<1> QED BY <1>2, <1>4, ByItself

\* More is known of triggers.
LEMMA GoodTriggers ==
  ASSUME NEW m, NEW d, NEW b, NEW z, Good(m, d, b, z), NEW t \in SUBSET Nat
  PROVE  LET n == [m EXCEPT !.trig = t] IN Good(n, d, b, z) /\ n.xdccs = m.xdccs /\ n.trig = t
<1> DEFINE n == [m EXCEPT !.trig = t]
<1>1. n \in Memory /\ n.xdccs = m.xdccs /\ n.trig = t /\ n.delayed = m.delayed /\ n.md5build = m.md5build
      /\ n.queue = m.queue
  BY DEF Good, Memory
<1> HIDE DEF n
<1>2. Good(n, d, b, z)
  BY <1>1 DEF Good
<1> QED BY <1>1, <1>2 DEF n

\* CHTRIGGER: the triggers get one more, or are rebuilt.
LEMMA ChTriggerKeeps ==
  ASSUME PInv, NEW a, NEW n \in Numbers, NEW on \in BOOLEAN, ChTrigger(a, n, on)
  PROVE  StepKeeps
<1> DEFINE l == known.xdccs
           p == l[n]
           q == [p EXCEPT !.trigger = on]
           r == [l EXCEPT ![n] = q]
           out == [known EXCEPT !.xdccs = r]
           t == known.trig \cup {p.id}
           m == [out EXCEPT !.trig = t]
<1>1. known \in Memory /\ l \in Seq(Pack) /\ n \in DOMAIN l /\ p \in Pack /\ known.trig \in SUBSET Nat /\ p.id \in Nat
  <2>1. known \in Memory /\ l \in Seq(Pack) /\ n \in DOMAIN l /\ known.trig \in SUBSET Nat
    BY InvFields DEF Numbers
  <2>2. p \in Pack
    BY <2>1, ListFields
  <2> QED BY <2>1, <2>2, PackFields
<1>2. [known EXCEPT !.xdccs[n].trigger = on] = out
  BY <1>1 DEF Memory
<1>3. UNCHANGED <<disk, left>> /\ ((on = TRUE /\ Stored(m)) \/ Stored(Final(out)))
  <2>1. out.trig = known.trig
    BY <1>1 DEF Memory
  <2>2. [out EXCEPT !.trig = @ \cup {known.xdccs[n].id}] = m
    <3> HIDE DEF out
    <3> QED BY <2>1
  <2> HIDE DEF out, m
  <2> QED BY <1>2, <2>2 DEF ChTrigger, Final
<1>4. q \in Pack /\ q.id = p.id /\ q.group = p.group /\ q.desc = p.desc /\ q.seen = p.seen /\ q.md5 = p.md5 /\ q.trigger = on
  <2> HIDE DEF p
  <2> QED BY <1>1 DEF Pack
<1> HIDE DEF q, p
<1>5. Revised(l, r) /\ r[n] = q /\ \A j \in DOMAIN l : j # n => r[j] = l[j]
  BY <1>1, <1>4, RevisedOne DEF p
<1> HIDE DEF r
<1>6. Rewritten(l, r)
  <2>1. \A j \in DOMAIN l : r[j].seen = l[j].seen /\ r[j].md5 \in {0, l[j].md5}
    BY <1>4, <1>5 DEF p
  <2> QED BY <1>5, <2>1 DEF Rewritten
<1>7. Good(known, disk, blind, fresh) /\ Live(known, left)
  BY InvFields
<1>8. Good(out, disk, blind, fresh) /\ out.xdccs = r /\ Spoken(l, r)
  BY <1>6, <1>7, GoodRewritten
<1> HIDE DEF out
<1>9. CASE on = TRUE /\ Stored(m)
  <2>1. Good(m, disk, blind, fresh) /\ m.xdccs = r /\ m.trig = t
    BY <1>1, <1>8, GoodTriggers
  <2>2. DOMAIN r = DOMAIN l /\ \A j \in DOMAIN l : r[j].id = l[j].id
    BY <1>5 DEF Revised
  <2>3. Triggers(l) \subseteq Triggers(r)
    <3> SUFFICES ASSUME NEW j \in DOMAIN l, l[j].trigger PROVE l[j].id \in Triggers(r)
      BY DEF Triggers
    <3>1. r[j].trigger
      BY <1>4, <1>5, <1>9
    <3> QED BY <2>2, <3>1 DEF Triggers
  <2>4. p.id \in Triggers(r)
    BY <1>1, <1>4, <1>5, <1>9, <2>2 DEF Triggers
  <2> HIDE DEF m
  <2>5. Live(m, left)
    BY <1>7, <2>1, <2>3, <2>4 DEF Live
  <2> QED BY <1>3, <1>8, <1>9, <2>1, <2>5, ByStored
<1>10. CASE Stored(Final(out))
  <2>1. Good(Final(out), disk, blind, fresh) /\ Final(out).xdccs = r /\ Live(Final(out), left)
    BY <1>8, RebuiltGood
  <2> QED BY <1>3, <1>8, <1>10, <2>1, ByStored
<1> QED BY <1>3, <1>9, <1>10

\* DELTRIGGER, with the rebuild or without.
LEMMA DelTriggerKeeps ==
  ASSUME PInv, NEW a, NEW n, NEW m, DelTrigger(a, n, m)
  PROVE  StepKeeps
<1> DEFINE l == known.xdccs
           bar == Barred(n, m, a)
           last == IF bar = {} THEN m ELSE First(bar) - 1
           r == [i \in Numbers |-> IF i \in n..last THEN [l[i] EXCEPT !.trigger = FALSE] ELSE l[i]]
           out == [known EXCEPT !.xdccs = r]
           X == {l[i].id : i \in n..last}
<1>1. UNCHANGED disk /\ ((Unsaved(Final(out)) /\ left' = left) \/ (Unsaved(out) /\ left' = left \cup X))
  BY DEF DelTrigger, Final
<1>2. l \in Seq(Pack) /\ DOMAIN l = 1..Len(l) /\ Len(l) \in Nat /\ Numbers = DOMAIN l /\ \A i \in DOMAIN l : l[i] \in Pack
  BY InvFields, ListFields DEF Numbers
<1> HIDE DEF last, l
<1>3. ASSUME NEW i \in DOMAIN l
      PROVE /\ r[i] \in Pack /\ r[i].id = l[i].id /\ r[i].group = l[i].group /\ r[i].desc = l[i].desc /\ r[i].seen = l[i].seen
            /\ r[i].md5 = l[i].md5 /\ (i \notin n..last => r[i] = l[i])
  <2>1. r[i] = IF i \in n..last THEN [l[i] EXCEPT !.trigger = FALSE] ELSE l[i]
    BY <1>2
  <2>2. l[i] \in Pack
    BY <1>2
  <2> DEFINE v == l[i]
             w == [v EXCEPT !.trigger = FALSE]
  <2>3. w \in Pack /\ w.id = v.id /\ w.group = v.group /\ w.desc = v.desc /\ w.seen = v.seen /\ w.md5 = v.md5
    <3> HIDE DEF v
    <3>1. v \in Pack
      BY <2>2 DEF v
    <3> QED BY <3>1 DEF Pack
  <2> HIDE DEF w, r
  <2> QED BY <2>1, <2>2, <2>3 DEF w
<1>4. DOMAIN r = DOMAIN l /\ r \in Seq(Pack)
  <2>1. r = [i \in 1..Len(l) |-> r[i]] /\ DOMAIN r = DOMAIN l
    BY <1>2
  <2> HIDE DEF r
  <2> QED BY <1>2, <1>3, <2>1
<1> HIDE DEF r
<1>5. Rewritten(l, r)
  BY <1>3, <1>4 DEF Rewritten, Revised
<1>6. Good(known, disk, blind, fresh) /\ Live(known, left)
  BY InvFields
<1>7. Good(out, disk, blind, fresh) /\ out.xdccs = r /\ Spoken(known.xdccs, r) /\ out.trig = known.trig
  BY <1>5, <1>6, GoodRewritten DEF l
<1> HIDE DEF out
<1>8. CASE Unsaved(Final(out)) /\ left' = left
  <2>1. Good(Final(out), disk, blind, fresh) /\ Final(out).xdccs = r /\ Live(Final(out), left)
    BY <1>7, RebuiltGood
  <2> QED BY <1>1, <1>7, <1>8, <2>1, ByUnsaved
<1>9. CASE Unsaved(out) /\ left' = left \cup X
  <2>1. \A x \in Triggers(l) : x \in Triggers(r) \cup X
    <3> SUFFICES ASSUME NEW i \in DOMAIN l, l[i].trigger PROVE l[i].id \in Triggers(r) \cup X
      BY DEF Triggers
    <3>1. CASE i \in n..last
      BY <3>1
    <3>2. CASE i \notin n..last
      BY <1>3, <1>4, <3>2 DEF Triggers
    <3> QED BY <3>1, <3>2
  <2> HIDE DEF X
  <2>2. Live(out, left \cup X)
    BY <1>6, <1>7, <2>1 DEF Live, l
  <2> QED BY <1>1, <1>7, <1>9, <2>2, ByUnsaved
<1> QED BY <1>1, <1>8, <1>9

\* A sum is begun; it is blind if the file is not what was seen of it.
LEMMA BeginGood ==
  ASSUME PInv, NEW m, NEW b, Good(m, disk, b, fresh), NEW n \in DOMAIN m.xdccs
  PROVE  LET s == Begin(m, n)
         IN /\ Good(s, disk, BegunBlind(m, n, b), fresh) /\ s.xdccs = m.xdccs /\ s.trig = m.trig
            /\ b \subseteq BegunBlind(m, n, b) /\ BegunBlind(m, n, b) \subseteq b \cup Nat
<1> DEFINE l == m.xdccs
           p == l[n]
           c == disk[p.file]
           job == [id |-> p.id, of |-> c]
           s == Begin(m, n)
           more == BegunBlind(m, n, b)
<1>1. s = [m EXCEPT !.md5build = job] /\ more = IF p.seen = c THEN b ELSE b \cup {p.id}
  BY DEF Begin, BegunBlind
<1>2. m \in Memory /\ Regular(l) /\ l \in Seq(Pack) /\ TrueSums(l, disk, b, fresh) /\ Jobs(m.delayed)
  BY DEF Good, Regular
<1>3. p \in Pack /\ p.id \in Nat /\ c \in 0..(2 * Inodes)
  <2>1. p \in Pack
    BY <1>2, ListFields
  <2> QED BY <2>1, PackFields DEF PInv, Disk
<1>4. job \in [id : Nat, of : 0..Mixed] /\ job.id = p.id /\ job.of = c
  BY <1>3, NoJob
<1>5. b \subseteq more /\ (c = p.seen \/ p.id \in more) /\ more \subseteq b \cup Nat
  BY <1>1, <1>3
<1> HIDE DEF job, c, p, s, more
<1>6. s \in Memory /\ s.xdccs = l /\ s.queue = m.queue /\ s.trig = m.trig /\ s.md5build = job /\ s.delayed = m.delayed
  BY <1>1, <1>2, <1>4 DEF Memory
<1> HIDE DEF l
<1>7. \A r : Fades(r, disk, disk)
  BY DEF Fades
<1>8. Good(m, disk, more, fresh)
  BY <1>5, <1>7, GoodFades
<1>9. TrueSums(l, disk, more, fresh)
  BY <1>8 DEF Good, l
<1>10. Building(job, l, disk, more)
  <2>1. n \in DOMAIN l /\ p = l[n]
    BY DEF l, p
  <2>2. \E i \in DOMAIN l : l[i].id = job.id /\ (job.of = l[i].seen \/ l[i].id \in more \/ Gone(l[i].seen, disk))
    BY <1>4, <1>5, <2>1
  <2> QED BY <1>2, <2>2, OneByOne
<1>11. Revised(l, l)
  BY <1>2 DEF Revised
<1>12. Good(s, disk, more, fresh)
  <2>1. Revised(m.xdccs, s.xdccs) /\ Jobs(s.delayed) /\ TrueSums(s.xdccs, disk, more, fresh)
        /\ Building(s.md5build, s.xdccs, disk, more)
    BY <1>2, <1>6, <1>9, <1>10, <1>11 DEF l
  <2> QED BY <1>6, <1>8, <2>1, GoodRevised
<1> QED BY <1>5, <1>6, <1>12 DEF s, more, l

\* A sum is forgotten.
LEMMA UnsummedGood ==
  ASSUME NEW m, NEW d, NEW b, NEW z, Good(m, d, b, z), NEW i \in DOMAIN m.xdccs
  PROVE  LET s == Unsummed(m, i)
         IN Good(s, d, b, z) /\ Bare(s.xdccs) = Bare(m.xdccs) /\ \A X : Live(m, X) => Live(s, X)
<1> DEFINE l == m.xdccs
           w == [l[i] EXCEPT !.md5 = 0]
           r == [l EXCEPT ![i] = w]
           s == [m EXCEPT !.xdccs = r]
<1>1. m \in Memory /\ Regular(l) /\ l \in Seq(Pack) /\ l[i] \in Pack /\ 0 \in 0..Mixed
  BY ListFields, NoJob DEF Good, Regular
<1>2. Unsummed(m, i) = s
  BY <1>1 DEF Unsummed, Memory
<1>3. /\ w \in Pack /\ w.id = l[i].id /\ w.group = l[i].group /\ w.desc = l[i].desc /\ w.seen = l[i].seen /\ w.md5 = 0
      /\ w.trigger = l[i].trigger
  <2> DEFINE v == l[i]
  <2>1. v \in Pack
    BY <1>1
  <2> HIDE DEF v
  <2>2. LET y == [v EXCEPT !.md5 = 0] IN
        /\ y \in Pack /\ y.id = v.id /\ y.group = v.group /\ y.desc = v.desc /\ y.seen = v.seen /\ y.md5 = 0
        /\ y.trigger = v.trigger
    BY <1>1, <2>1 DEF Pack
  <2> QED BY <2>2 DEF v
<1> HIDE DEF w
<1>4. Revised(l, r) /\ r[i] = w /\ \A j \in DOMAIN l : j # i => r[j] = l[j]
  BY <1>1, <1>3, RevisedOne
<1> HIDE DEF r, l
<1>5. Rewritten(l, r) /\ Triggers(r) = Triggers(l) /\ Bare(r) = Bare(l)
  <2>1. Rewritten(l, r) /\ Triggers(r) = Triggers(l)
    BY <1>3, <1>4 DEF Rewritten, Revised, Triggers
  <2> QED BY <1>1, <1>4, <2>1, RevisedSame
<1>6. Good(s, d, b, z) /\ s.xdccs = r /\ s.trig = m.trig
  BY <1>5, GoodRewritten DEF l
<1> HIDE DEF s
<1> QED BY <1>2, <1>5, <1>6 DEF Live, l

\* What the loop of MD5 works on.
Turnings == [m : Memory, saved : Filed, blind : SUBSET (blind \cup Nat), how : {"on", "none", "barred"}]
Turned(r) ==
  /\ Good(r.m, disk, r.blind, fresh) /\ GoodFile(r.saved, disk, r.blind, fresh)
  /\ Live(r.m, left) /\ Bare(r.m.xdccs) \subseteq Bare(known.xdccs)

\* A number of the range: a sum is forgotten or begun, or the pack is removed.
LEMMA TurnGood ==
  ASSUME PInv, NEW r \in Turnings, Turned(r), NEW i, NEW a
  PROVE  Md5Turn(r, i, a) \in Turnings /\ Turned(Md5Turn(r, i, a))
<1> DEFINE out == Final(remove_pack2(r.m, i))
           s == Md5Turn(r, i, a)
<1>1. \/ s = r
      \/ s = [r EXCEPT !.how = "none"]
      \/ s = [r EXCEPT !.how = "barred"]
      \/ i \in DOMAIN r.m.xdccs /\ s = [r EXCEPT !.m = Unsummed(r.m, i)]
      \/ i \in DOMAIN r.m.xdccs /\ s = [r EXCEPT !.m = Begin(r.m, i), !.blind = BegunBlind(r.m, i, r.blind)]
      \/ i \in DOMAIN r.m.xdccs /\ s = [r EXCEPT !.m = out, !.saved = write_statefile(out)]
  BY DEF Md5Turn
<1>2. /\ Good(r.m, disk, r.blind, fresh) /\ GoodFile(r.saved, disk, r.blind, fresh)
      /\ Live(r.m, left) /\ Bare(r.m.xdccs) \subseteq Bare(known.xdccs)
      /\ r.blind \in SUBSET (blind \cup Nat)
  BY DEF Turned, Turnings
<1> HIDE DEF out, s
<1>3. CASE s = r \/ s = [r EXCEPT !.how = "none"] \/ s = [r EXCEPT !.how = "barred"]
  <2>1. s \in Turnings /\ s.m = r.m /\ s.saved = r.saved /\ s.blind = r.blind
    BY <1>3 DEF Turnings
  <2> QED BY <1>2, <2>1 DEF Turned, s
<1>4. CASE i \in DOMAIN r.m.xdccs /\ s = [r EXCEPT !.m = Unsummed(r.m, i)]
  <2> DEFINE u == Unsummed(r.m, i)
  <2>1. Good(u, disk, r.blind, fresh) /\ Bare(u.xdccs) = Bare(r.m.xdccs) /\ Live(u, left)
    BY <1>2, <1>4, UnsummedGood
  <2> HIDE DEF u
  <2>2. u \in Memory
    BY <2>1 DEF Good
  <2>3. s \in Turnings /\ s.m = u /\ s.saved = r.saved /\ s.blind = r.blind
    BY <1>4, <2>2 DEF Turnings, u
  <2> QED BY <1>2, <2>1, <2>3 DEF Turned, s
<1>5. CASE i \in DOMAIN r.m.xdccs /\ s = [r EXCEPT !.m = Begin(r.m, i), !.blind = BegunBlind(r.m, i, r.blind)]
  <2> DEFINE u == Begin(r.m, i)
             more == BegunBlind(r.m, i, r.blind)
  <2>1. /\ Good(u, disk, more, fresh) /\ u.xdccs = r.m.xdccs /\ u.trig = r.m.trig
        /\ r.blind \subseteq more /\ more \subseteq r.blind \cup Nat
    BY <1>2, <1>5, BeginGood
  <2> HIDE DEF u, more
  <2>2. u \in Memory /\ more \in SUBSET (blind \cup Nat)
    BY <1>2, <2>1 DEF Good
  <2>3. s \in Turnings /\ s.m = u /\ s.saved = r.saved /\ s.blind = more
    BY <1>5, <2>2 DEF Turnings, u, more
  <2>4. GoodFile(r.saved, disk, more, fresh)
    <3>1. Fades(r.saved.packs, disk, disk)
      BY DEF Fades
    <3> QED BY <1>2, <2>1, <3>1, FileFades
  <2>5. Live(u, left)
    BY <1>2, <2>1 DEF Live
  <2> QED BY <1>2, <2>1, <2>3, <2>4, <2>5 DEF Turned, s
<1>6. CASE i \in DOMAIN r.m.xdccs /\ s = [r EXCEPT !.m = out, !.saved = write_statefile(out)]
  <2> DEFINE gone == remove_pack2(r.m, i)
  <2>1. Good(gone, disk, r.blind, fresh) /\ Bare(gone.xdccs) \subseteq Bare(r.m.xdccs)
    BY <1>2, <1>6, RemoveOne
  <2> HIDE DEF gone
  <2>2. Good(out, disk, r.blind, fresh) /\ out.xdccs = gone.xdccs /\ Live(out, left)
    BY <2>1, RebuiltGood DEF out, gone
  <2>3. GoodFile(write_statefile(out), disk, r.blind, fresh)
    BY <2>2, Written
  <2>4. out \in Memory /\ write_statefile(out) \in Filed
    BY <2>2, <2>3 DEF Good, GoodFile
  <2>5. s \in Turnings /\ s.m = out /\ s.saved = write_statefile(out) /\ s.blind = r.blind
    BY <1>6, <2>4 DEF Turnings
  <2> QED BY <1>2, <2>1, <2>2, <2>3, <2>5 DEF Turned, s
<1> QED BY <1>1, <1>3, <1>4, <1>5, <1>6 DEF s

\* MD5 on a range: the numbers one after another.
LEMMA Md5Keeps ==
  ASSUME PInv, NEW a, NEW n \in Numbers, NEW m \in Numbers, n <= m, Md5(a, n, m)
  PROVE  StepKeeps
<1> DEFINE c == m - n + 1
           start == [m |-> known, saved |-> saved, blind |-> blind, how |-> "on"]
           Is(f) == f = [k \in 0..c |-> IF k = 0 THEN start ELSE Md5Turn(f[k - 1], n + k - 1, a)]
           S == {r \in Turnings : Turned(r)}
           D == [k \in 1..c |-> [r \in S |-> Md5Turn(r, n + k - 1, a)]]
           V == CHOOSE f : Is(f)
<1>1. /\ known' = V[c].m /\ saved' = V[c].saved /\ blind' = V[c].blind
      /\ UNCHANGED <<disk, left, fresh>>
  BY DEF Md5
<1>2. c \in Nat
  BY InvFields DEF Numbers
<1>3. start \in S
  <2>1. known \in Memory /\ saved \in Filed /\ blind \in SUBSET (blind \cup Nat)
    BY InvFields DEF GoodFile
  <2>2. start \in Turnings /\ start.m = known /\ start.saved = saved /\ start.blind = blind
    BY <2>1 DEF Turnings
  <2> HIDE DEF start
  <2>3. Turned(start)
    BY <2>2 DEF PInv, Turned
  <2> QED BY <2>2, <2>3
<1> HIDE DEF c, start
<1>4. ASSUME NEW k \in 1..c, NEW r \in S PROVE Md5Turn(r, n + k - 1, a) \in S
  BY TurnGood
<1> HIDE DEF S
<1>5. D \in StepsOf(c, S) /\ \A k \in 1..c : \A r \in S : D[k][r] = Md5Turn(r, n + k - 1, a)
  BY <1>4 DEF StepsOf
<1> HIDE DEF D
<1>6. Made(c, S, start, D)
  BY <1>2, <1>3, <1>5, Iterated
<1>7. \A k \in 1..c : k \in 0..c /\ k # 0 /\ k - 1 \in 0..c
  BY <1>2
<1>8. \E f : Is(f)
  <2>1. PICK f \in [0..c -> S] : f[0] = start /\ \A k \in 1..c : f[k] = D[k][f[k - 1]]
    BY <1>6 DEF Made
  <2>2. \A k \in 1..c : f[k] = Md5Turn(f[k - 1], n + k - 1, a)
    BY <1>5, <1>7, <2>1
  <2>3. \A k \in 0..c : k # 0 => k \in 1..c
    BY <1>2
  <2>4. \A k \in 0..c : f[k] = IF k = 0 THEN start ELSE Md5Turn(f[k - 1], n + k - 1, a)
    BY <2>1, <2>2, <2>3
  <2>5. f = [k \in 0..c |-> f[k]]
    BY <2>1
  <2>6. Is(f)
    BY ONLY <2>4, <2>5
  <2> QED BY <2>6
<1>9. Is(V)
  <2> HIDE DEF Is
  <2> QED BY <1>8
<1> HIDE DEF V
<1>10. V[0] = start /\ \A k \in 1..c : V[k] = Md5Turn(V[k - 1], n + k - 1, a)
  BY <1>2, <1>7, <1>9
<1> HIDE DEF Is
<1>11. \A k \in 0..c : V[k] \in S
  <2>1. \A k \in 1..c : V[k - 1] \in S => V[k] = D[k][V[k - 1]]
    BY <1>5, <1>10
  <2> QED BY <1>6, <1>10, <2>1 DEF Made
<1>12. V[c] \in Turnings /\ Turned(V[c])
  BY <1>2, <1>11 DEF S
<1>13. PInv'
  BY <1>1, <1>12 DEF PInv, Turned
<1>14. Spoken(known.xdccs, known'.xdccs)
  BY <1>1, <1>12, SpokenBare DEF Turned
<1> QED BY <1>13, <1>14 DEF StepKeeps
-----------------------------------------------------------------------------
(* What the program does by itself *)

\* The monitor of files.
LEMMA LookKeeps ==
  ASSUME PInv, NEW n \in Numbers, Look(n)
  PROVE  StepKeeps
<1>1. UNCHANGED <<disk, left, blind, fresh>>
  BY DEF Look
<1>2. n \in DOMAIN known.xdccs /\ Good(known, disk, blind, fresh) /\ Live(known, left) /\ Regular(known.xdccs)
  BY InvFields DEF Numbers
<1>3. CASE Lost(known, n)
  <2> DEFINE out == remove_pack2(known, n)
  <2>1. known' = Final(out) /\ saved' = write_statefile(known')
    BY <1>3 DEF Look
  <2>2. Good(out, disk, blind, fresh) /\ Bare(out.xdccs) \subseteq Bare(known.xdccs)
    BY <1>2, RemoveOne
  <2> HIDE DEF out
  <2>3. Good(Final(out), disk, blind, fresh) /\ Final(out).xdccs = out.xdccs /\ Live(Final(out), left)
    BY <2>2, RebuiltGood
  <2>4. Spoken(known.xdccs, known'.xdccs)
    BY <2>1, <2>2, <2>3, SpokenBare
  <2> QED BY <1>1, <2>1, <2>3, <2>4, ByItself
<1>4. CASE ~Lost(known, n)
  <2>1. known' = Looked(known, n) /\ saved' = saved
    BY <1>4 DEF Look
  <2>2. Good(known', disk, blind, fresh) /\ Alike(known, known')
    BY <1>2, <2>1, InvFields, LookedGood
  <2>3. Live(known', left) /\ Spoken(known.xdccs, known'.xdccs)
    BY <1>2, <2>2, SpokenRevised DEF Alike, Live
  <2> QED BY <1>1, <2>1, <2>2, <2>3, ByItself
<1> QED BY <1>3, <1>4

\* The next pack without a sum.
LEMMA StartMd5Keeps ==
  ASSUME PInv, StartMd5
  PROVE  StepKeeps
<1> DEFINE K == NoSum(known)
           n == First(K)
<1>1. \/ K # {} /\ Look(n)
      \/ /\ K # {} /\ known' = Begin(known, n) /\ blind' = BegunBlind(known, n, blind)
         /\ UNCHANGED <<disk, saved, left, fresh>>
  BY DEF StartMd5
<1>2. n \in Numbers
  <2>1. K \subseteq DOMAIN known.xdccs
    BY DEF NoSum
  <2>2. K \subseteq Nat
    BY <2>1, InvFields
  <2> HIDE DEF K
  <2> QED BY <1>1, <2>1, <2>2, FirstType DEF Numbers
<1> HIDE DEF n, K
<1>3. CASE Look(n)
  BY <1>2, <1>3, LookKeeps
<1>4. CASE /\ known' = Begin(known, n) /\ blind' = BegunBlind(known, n, blind)
           /\ UNCHANGED <<disk, saved, left, fresh>>
  <2> DEFINE s == Begin(known, n)
             more == BegunBlind(known, n, blind)
  <2>1. n \in DOMAIN known.xdccs /\ Good(known, disk, blind, fresh) /\ Live(known, left) /\ GoodFile(saved, disk, blind, fresh)
    BY <1>2, InvFields DEF Numbers
  <2>2. Good(s, disk, more, fresh) /\ s.xdccs = known.xdccs /\ s.trig = known.trig /\ blind \subseteq more
    BY <2>1, BeginGood
  <2> HIDE DEF s, more
  <2>3. GoodFile(saved, disk, more, fresh)
    <3>1. Fades(saved.packs, disk, disk)
      BY DEF Fades
    <3> QED BY <2>1, <2>2, <3>1, FileFades
  <2>4. Live(s, left) /\ Spoken(known.xdccs, s.xdccs)
    BY <2>1, <2>2, SpokenSame DEF Live
  <2>5. known' = s /\ blind' = more /\ UNCHANGED <<disk, saved, left, fresh>>
    BY <1>4 DEF s, more
  <2> QED BY <2>2, <2>3, <2>4, <2>5 DEF PInv, StepKeeps
<1> QED BY <1>1, <1>3, <1>4

\* A sum is done, or given up.
LEMMA CompleteKeeps ==
  ASSUME PInv, complete_md5_hash
  PROVE  StepKeeps
<1> DEFINE l == known.xdccs
           n == At(l, known.md5build.id)
           p == l[n]
           of == known.md5build.of
           none == [id |-> 0, of |-> 0]
           q1 == [p EXCEPT !.md5 = of]
           m(q) == [known EXCEPT !.xdccs = [known.xdccs EXCEPT ![n] = q], !.md5build = none]
<1>1. known.md5build.id # 0 /\ UNCHANGED <<disk, saved, left, blind, fresh>>
      /\ \E v \in {[known EXCEPT !.xdccs[n].md5 = of], known} : known' = [v EXCEPT !.md5build = none]
  BY DEF complete_md5_hash
<1>2. known \in Memory /\ Regular(l) /\ l \in Seq(Pack) /\ of \in 0..Mixed /\ Good(known, disk, blind, fresh) /\ Live(known, left)
      /\ TrueSums(l, disk, blind, fresh) /\ Building(known.md5build, l, disk, blind)
  BY InvFields, MemoryFields DEF Good
<1>3. PICK i \in DOMAIN l : /\ l[i].id = known.md5build.id
                            /\ of = l[i].seen \/ l[i].id \in blind \/ Gone(l[i].seen, disk)
  <2>1. l \in Seq(Pack) /\ Building(known.md5build, l, disk, blind) /\ known.md5build.id # 0
    BY <1>1, <1>2
  <2> HIDE DEF l
  <2>2. \E i \in DOMAIN l : l[i].id = known.md5build.id
                            /\ (known.md5build.of = l[i].seen \/ l[i].id \in blind \/ Gone(l[i].seen, disk))
    BY <2>1, OneBuilding
  <2> QED BY <2>2
<1>4. n = i
  <2>1. known.md5build.id \in IdsOf(l)
    BY <1>3 DEF IdsOf
  <2>2. n \in DOMAIN l /\ l[n].id = known.md5build.id
    BY <1>2, <2>1, Found
  <2> HIDE DEF n, l
  <2> QED BY <1>2, <1>3, <2>2 DEF Regular, Unique
<1>5. n \in DOMAIN l /\ p \in Pack /\ TrueSum(p, disk, blind) /\ (of = p.seen \/ p.id \in blind \/ Gone(p.seen, disk))
  <2>1. n \in DOMAIN l /\ (of = p.seen \/ p.id \in blind \/ Gone(p.seen, disk))
    BY <1>3, <1>4
  <2> HIDE DEF n
  <2> QED BY <1>2, <2>1, ListFields, OneByOne
<1> HIDE DEF n, l, of
<1>6. /\ q1 \in Pack /\ q1.id = p.id /\ q1.group = p.group /\ q1.desc = p.desc /\ q1.seen = p.seen
      /\ q1.md5 = of /\ q1.trigger = p.trigger
  <2> HIDE DEF p
  <2> QED BY <1>2, <1>5 DEF Pack
<1>7. TrueSum(q1, disk, blind)
  BY <1>5, <1>6 DEF TrueSum
<1>8. known' = m(q1) \/ known' = m(p)
  <2>1. [[known EXCEPT !.xdccs[n].md5 = of] EXCEPT !.md5build = none] = m(q1)
    BY <1>2 DEF Memory, l
  <2>2. [known EXCEPT !.md5build = none] = m(p)
    <3>1. [known.xdccs EXCEPT ![n] = p] = known.xdccs
      BY <1>2, <1>5 DEF l
    <3> QED BY <1>2, <3>1 DEF Memory
  <2> QED BY <1>1, <2>1, <2>2
<1> HIDE DEF q1
<1>9. ASSUME NEW q \in Pack, q.id = p.id, q.group = p.group, q.desc = p.desc, q.trigger = p.trigger, TrueSum(q, disk, blind),
             known' = m(q)
      PROVE StepKeeps
  <2>1. none \in [id : Nat, of : 0..Mixed] /\ none.id = 0
    BY NoJob
  <2> HIDE DEF none
  <2>2. OneChange(known, n, q, none, m(q)) /\ q.trigger = known.xdccs[n].trigger
    BY <1>5, <1>9, <2>1 DEF OneChange, l
  <2> HIDE DEF m
  <2>3. OneChange(known, n, q, none, known')
    BY <1>9, <2>2
  <2>4. /\ Good(known', disk, blind, fresh) /\ Revised(known.xdccs, known'.xdccs) /\ known'.trig = known.trig
        /\ Triggers(known'.xdccs) = Triggers(known.xdccs)
    BY <1>2, <1>9, <2>2, <2>3, GoodOne
  <2>5. Live(known', left) /\ Spoken(known.xdccs, known'.xdccs)
    BY <1>2, <2>4, SpokenRevised DEF Live, l
  <2> QED BY <1>1, <2>4, <2>5, ByItself
<1>10. CASE known' = m(q1)
  BY <1>6, <1>7, <1>9, <1>10
<1>11. CASE known' = m(p)
  BY <1>5, <1>9, <1>11
<1> QED BY <1>8, <1>10, <1>11

\* AUTOADD leaves a job.
LEMMA AutoAddKeeps ==
  ASSUME PInv, AutoAdd
  PROVE  StepKeeps
<1> DEFINE j == [cmd |-> "SCAN", file |-> 0, ino |-> 0, group |-> autoadd_group, scope |-> {}]
           m == [known EXCEPT !.delayed = <<j>>]
<1>1. Unsaved(m) /\ UNCHANGED <<disk, left>>
  BY DEF AutoAdd
<1>2. j \in Job /\ j.cmd = "SCAN"
  BY Sizes DEF Job
<1> HIDE DEF j
<1>3. <<j>> \in Seq(Job) /\ Jobs(<<j>>)
  BY <1>2 DEF Jobs, Elems
<1>4. Good(known, disk, blind, fresh) /\ Live(known, left)
  BY InvFields
<1>5. Good(m, disk, blind, fresh) /\ m.xdccs = known.xdccs /\ m.trig = known.trig
  BY <1>3, <1>4, GoodDelayed
<1> HIDE DEF m
<1>6. Live(m, left') /\ Spoken(known.xdccs, m.xdccs)
  BY <1>1, <1>4, <1>5, SpokenSame DEF Live
<1> QED BY <1>1, <1>5, <1>6, ByUnsaved

\* One of the waiting jobs less.
LEMMA JobsLess ==
  ASSUME NEW q \in Seq(Job), Jobs(q), q # <<>>
  PROVE  Tail(q) \in Seq(Job) /\ Jobs(Tail(q)) /\ Head(q) \in Job /\ (Head(q).cmd = "ADD" => Head(q).file \in Path)
<1>1. Tail(q) \in Seq(Job) /\ Head(q) = q[1] /\ 1 \in DOMAIN q /\ q[1] \in Job
  BY EmptySeq
<1>2. \A i \in DOMAIN Tail(q) : Tail(q)[i] = q[i + 1] /\ i + 1 \in DOMAIN q
  OBVIOUS
<1>3. \A e \in Elems(Tail(q)) : e \in Elems(q)
  BY <1>2 DEF Elems
<1>4. Head(q) \in Elems(q)
  BY <1>1 DEF Elems
<1> QED BY <1>1, <1>3, <1>4 DEF Jobs

\* One job: a file is added, a pack removed, a directory scanned.
LEMMA RunDelayedKeeps ==
  ASSUME PInv, RunDelayed
  PROVE  StepKeeps
<1> DEFINE j == Head(known.delayed)
           m == [known EXCEPT !.delayed = Tail(known.delayed)]
           hit == {i \in Numbers : known.xdccs[i].seen # 0 /\ Inode(known.xdccs[i].seen) = j.ino
                                   /\ ~Hidden(known, i, j.scope)}
<1>1. /\ known.delayed # <<>>
      /\ \/ j.cmd = "ADD" /\ TakeIn(m, j.file, j.group)
         \/ /\ UNCHANGED <<disk, left, blind, fresh>>
            /\ IF hit = {} THEN known' = m /\ saved' = saved
               ELSE known' = Final(remove_pack2(m, First(hit))) /\ saved' = write_statefile(known')
         \/ known' = Scanned(m, TRUE, j.group) /\ UNCHANGED <<disk, saved, left, blind, fresh>>
  BY DEF RunDelayed
<1>2. Tail(known.delayed) \in Seq(Job) /\ Jobs(Tail(known.delayed)) /\ j \in Job /\ (j.cmd = "ADD" => j.file \in Path)
  BY <1>1, InvFields, JobsLess
<1>3. j.group \in 0..Groups
  <2> HIDE DEF j
  <2> QED BY <1>2 DEF Job
<1>4. Good(known, disk, blind, fresh) /\ Live(known, left) /\ Regular(known.xdccs) /\ disk \in Disk
  BY InvFields
<1>5. Good(m, disk, blind, fresh) /\ m.xdccs = known.xdccs /\ m.trig = known.trig
  BY <1>2, <1>4, GoodDelayed
<1> HIDE DEF m, j
<1>6. Live(m, left)
  BY <1>4, <1>5 DEF Live
<1>7. CASE j.cmd = "ADD" /\ TakeIn(m, j.file, j.group)
  BY <1>2, <1>3, <1>5, <1>6, <1>7, TakeInKeeps
<1>8. CASE /\ UNCHANGED <<disk, left, blind, fresh>>
           /\ IF hit = {} THEN known' = m /\ saved' = saved
              ELSE known' = Final(remove_pack2(m, First(hit))) /\ saved' = write_statefile(known')
  <2>1. CASE hit = {}
    <3>1. known' = m /\ saved' = saved
      BY <1>8, <2>1
    <3> QED BY <1>5, <1>6, <1>8, <3>1, SpokenSame, ByItself
  <2>2. CASE hit # {}
    <3> DEFINE n == First(hit)
               out == remove_pack2(m, n)
    <3>1. known' = Final(out) /\ saved' = write_statefile(known')
      BY <1>8, <2>2
    <3>2. n \in DOMAIN m.xdccs
      <4>1. hit \subseteq DOMAIN known.xdccs
        BY DEF Numbers
      <4>2. hit \subseteq Nat
        BY <4>1, InvFields
      <4> HIDE DEF hit
      <4> QED BY <1>5, <2>2, <4>1, <4>2, FirstType
    <3> HIDE DEF n
    <3>3. Good(out, disk, blind, fresh) /\ Bare(out.xdccs) \subseteq Bare(m.xdccs)
      BY <1>5, <3>2, RemoveOne
    <3> HIDE DEF out
    <3>4. Good(Final(out), disk, blind, fresh) /\ Final(out).xdccs = out.xdccs /\ Live(Final(out), left)
      BY <3>3, RebuiltGood
    <3>5. Spoken(known.xdccs, known'.xdccs)
      BY <1>5, <3>1, <3>3, <3>4, SpokenBare
    <3> QED BY <1>8, <3>1, <3>4, <3>5, ByItself
  <2> QED BY <2>1, <2>2
<1>9. CASE known' = Scanned(m, TRUE, j.group) /\ UNCHANGED <<disk, saved, left, blind, fresh>>
  <2>1. Good(known', disk, blind, fresh) /\ Revised(m.xdccs, known'.xdccs) /\ Triggers(known'.xdccs) = Triggers(m.xdccs)
        /\ known'.trig = m.trig
    BY <1>3, <1>4, <1>5, <1>9, ScannedGood
  <2>2. Live(known', left) /\ Spoken(known.xdccs, known'.xdccs)
    BY <1>4, <1>5, <1>6, <2>1, SpokenRevised DEF Live
  <2> QED BY <1>9, <2>1, <2>2, ByItself
<1> HIDE DEF hit
<1> QED BY <1>1, <1>7, <1>8, <1>9

\* The state file is written.
LEMMA WriteKeeps ==
  ASSUME PInv, write_files
  PROVE  StepKeeps
<1>1. known' = known /\ saved' = write_statefile(known') /\ UNCHANGED <<disk, left, blind, fresh>>
  BY DEF write_files
<1>2. Good(known', disk, blind, fresh) /\ Live(known', left) /\ Spoken(known.xdccs, known'.xdccs)
  BY <1>1, InvFields, SpokenSame
<1> QED BY <1>1, <1>2, ByItself

\* A user asks for a pack.
LEMMA RequestKeeps ==
  ASSUME PInv, NEW n \in Numbers, Request(n)
  PROVE  StepKeeps
<1> DEFINE e == [id |-> known.xdccs[n].id, asked |-> known.xdccs[n].id]
           m == [known EXCEPT !.queue = Append(known.queue, e)]
<1>1. Unsaved(m) /\ UNCHANGED <<disk, left>>
  BY DEF Request
<1>2. known.xdccs[n] \in Pack /\ known.xdccs[n].id \in IdsOf(known.xdccs) /\ known.queue \in Seq(Requests)
  BY InvFields, ListFields DEF Numbers, IdsOf
<1>3. e \in Requests /\ e.id = e.asked /\ e.id \in IdsOf(known.xdccs)
  BY <1>2, PackFields DEF Requests
<1> HIDE DEF e
<1>4. /\ Append(known.queue, e) \in Seq(Requests) /\ Len(known.queue) \in Nat
      /\ DOMAIN Append(known.queue, e) = 1..(Len(known.queue) + 1) /\ DOMAIN known.queue = 1..Len(known.queue)
      /\ \A i \in 1..(Len(known.queue) + 1) : Append(known.queue, e)[i] = IF i \in DOMAIN known.queue THEN known.queue[i] ELSE e
  BY <1>2, <1>3
<1>5. \A x \in Elems(Append(known.queue, e)) : x \in Elems(known.queue) \/ x = e
  BY <1>4 DEF Elems
<1>6. Good(known, disk, blind, fresh) /\ Live(known, left)
  BY InvFields
<1>7. m \in Memory /\ m.xdccs = known.xdccs /\ m.trig = known.trig /\ m.md5build = known.md5build /\ m.delayed = known.delayed
      /\ m.queue = Append(known.queue, e)
  BY <1>4, InvFields DEF Memory
<1> HIDE DEF m
<1>8. Asked(m.queue, m.xdccs)
  BY <1>3, <1>5, <1>6, <1>7 DEF Good, Asked
<1>9. Good(m, disk, blind, fresh)
  BY <1>6, <1>7, <1>8 DEF Good
<1>10. Live(m, left') /\ Spoken(known.xdccs, m.xdccs)
  BY <1>1, <1>6, <1>7, SpokenSame DEF Live
<1> QED BY <1>1, <1>9, <1>10, ByUnsaved

\* A request is served or given up.
LEMMA ServedKeeps ==
  ASSUME PInv, NEW k \in DOMAIN known.queue, Served(k)
  PROVE  StepKeeps
<1> DEFINE q == Drop(known.queue, k)
<1>1. known' = [known EXCEPT !.queue = q] /\ UNCHANGED <<disk, saved, left, blind, fresh>>
  BY DEF Served
<1>2. known.queue \in Seq(Requests) /\ Good(known, disk, blind, fresh) /\ Live(known, left)
  BY InvFields
<1>3. q \in Seq(Requests) /\ \A x \in Elems(q) : x \in Elems(known.queue)
  <2>1. known.queue \in Seq(Elems(known.queue))
    <3>1. \A i \in DOMAIN known.queue : known.queue[i] \in Elems(known.queue)
      BY DEF Elems
    <3> QED BY <1>2, <3>1
  <2>2. q \in Seq(Elems(known.queue))
    BY <2>1, DropType
  <2>3. q \in Seq(Requests)
    BY <1>2, DropType
  <2> HIDE DEF q
  <2> QED BY <2>2, <2>3 DEF Elems
<1> HIDE DEF q
<1>4. known' \in Memory /\ known'.xdccs = known.xdccs /\ known'.trig = known.trig /\ known'.md5build = known.md5build
      /\ known'.delayed = known.delayed /\ known'.queue = q
  BY <1>1, <1>3, InvFields DEF Memory
<1>5. Asked(known'.queue, known'.xdccs)
  BY <1>2, <1>3, <1>4 DEF Good, Asked
<1>6. Good(known', disk, blind, fresh)
  BY <1>2, <1>4, <1>5 DEF Good
<1>7. Live(known', left) /\ Spoken(known.xdccs, known'.xdccs)
  BY <1>2, <1>4, SpokenSame DEF Live
<1> QED BY <1>1, <1>6, <1>7, ByItself
-----------------------------------------------------------------------------
(* The disk and the process *)

\* The disk changes and no odd content comes that was not there.
LEMMA ByDisk ==
  ASSUME PInv, disk' \in Disk, Fades(known.xdccs, disk, disk'), Fades(saved.packs, disk, disk'),
         UNCHANGED <<known, saved, left, blind, fresh>>
  PROVE  StepKeeps
<1>1. Good(known, disk', blind, fresh)
  <2>1. Good(known, disk, blind, fresh)
    BY InvFields
  <2> QED BY <2>1, GoodFades
<1>2. GoodFile(saved, disk', blind, fresh)
  <2>1. GoodFile(saved, disk, blind, fresh)
    BY InvFields
  <2> QED BY <2>1, FileFades
<1> QED BY <1>1, <1>2, SpokenSame DEF PInv, StepKeeps

\* The content of a file in its first version is gone when the file is changed: a sum
\* that is being computed from it will say Mixed.
LEMMA ModifyKeeps ==
  ASSUME PInv, NEW f \in Path, Modify(f)
  PROVE  StepKeeps
<1> DEFINE c == disk[f]
           job == known.md5build
<1>1. /\ c % 2 = 1 /\ UNCHANGED <<saved, left, blind, fresh>>
      /\ disk' = [g \in Path |-> IF disk[g] = c THEN c + 1 ELSE disk[g]]
      /\ known' = Touched(c, known)
  BY DEF Modify, DiskStep
<1>2. disk \in [Path -> 0..(2 * Inodes)] /\ c \in 0..(2 * Inodes) /\ Inodes \in Nat
  BY Sizes DEF PInv, Disk
<1>3. c + 1 \in 0..(2 * Inodes) /\ (c + 1) % 2 = 0 /\ c # c + 1
  <2> HIDE DEF c
  <2>1. c # 2 * Inodes
    BY <1>1, <1>2
  <2> QED BY <1>1, <1>2, <2>1
<1> HIDE DEF c
<1>4. disk' \in Disk
  BY <1>1, <1>2, <1>3 DEF Disk
<1>5. \A l : Fades(l, disk, disk')
  <2>1. \A g \in Path : (\E h \in Path : disk'[g] = disk[h]) \/ disk'[g] % 2 = 0
    BY <1>1, <1>3
  <2> QED BY <2>1, FadesAll
<1>6. Gone(c, disk')
  <2>1. \A g \in Path : disk'[g] # c
    BY <1>1, <1>3
  <2> QED BY <1>1, <2>1 DEF Gone
<1>7. Good(known, disk', blind, fresh) /\ GoodFile(saved, disk', blind, fresh)
  <2>1. Good(known, disk, blind, fresh) /\ GoodFile(saved, disk, blind, fresh)
    BY InvFields
  <2>2. Good(known, disk', blind, fresh)
    BY <1>5, <2>1, GoodFades
  <2>3. GoodFile(saved, disk', blind, fresh)
    BY <1>5, <2>1, FileFades
  <2> QED BY <2>2, <2>3
<1>8. CASE job.of # c
  <2>1. known' = known
    BY <1>1, <1>8 DEF Touched
  <2> QED BY <1>1, <1>4, <1>7, <2>1, SpokenSame DEF PInv, StepKeeps
<1>9. CASE job.of = c
  <2> DEFINE new == [job EXCEPT !.of = Mixed]
             l == known.xdccs
  <2>1. known \in Memory /\ job \in [id : Nat, of : 0..Mixed] /\ l \in Seq(Pack) /\ Mixed \in 0..Mixed
    BY InvFields, NoJob
  <2>2. known' = [known EXCEPT !.md5build = new]
    <3>1. known' = [known EXCEPT !.md5build.of = Mixed]
      BY <1>1, <1>9 DEF Touched
    <3> QED BY <2>1, <3>1 DEF Memory
  <2>3. new \in [id : Nat, of : 0..Mixed] /\ new.id = job.id
    BY <2>1
  <2> HIDE DEF new
  <2>4. known' \in Memory /\ known'.xdccs = l /\ known'.queue = known.queue /\ known'.trig = known.trig
        /\ known'.md5build = new /\ known'.delayed = known.delayed
    BY <2>1, <2>2, <2>3 DEF Memory
  <2> HIDE DEF l
  <2>5. Building(new, l, disk', blind)
    <3>1. Building(job, l, disk', blind)
      BY <1>7 DEF Good, l
    <3> HIDE DEF job
    <3>2. ASSUME job.id # 0
          PROVE \E i \in DOMAIN l : l[i].id = new.id /\ (new.of = l[i].seen \/ l[i].id \in blind \/ Gone(l[i].seen, disk'))
      <4>1. PICK i \in DOMAIN l : l[i].id = job.id /\ (job.of = l[i].seen \/ l[i].id \in blind \/ Gone(l[i].seen, disk'))
        BY <2>1, <3>1, <3>2, OneBuilding
      <4>2. job.of = l[i].seen => Gone(l[i].seen, disk')
        BY <1>6, <1>9
      <4> QED BY <2>3, <4>1, <4>2
    <3> QED BY <2>1, <2>3, <3>2, OneByOne
  <2>6. Good(known', disk', blind, fresh)
    <3>1. TrueSums(l, disk', blind, fresh) /\ Regular(l) /\ Asked(known.queue, l) /\ Jobs(known.delayed)
      BY <1>7 DEF Good, l
    <3> QED BY <2>4, <2>5, <3>1 DEF Good
  <2>7. Live(known', left) /\ Spoken(known.xdccs, known'.xdccs)
    BY <2>4, SpokenSame DEF PInv, Live, l
  <2> QED BY <1>1, <1>4, <1>7, <2>6, <2>7 DEF PInv, StepKeeps
<1> QED BY <1>8, <1>9

\* A new file is none that was seen.
LEMMA AppearKeeps ==
  ASSUME PInv, NEW f \in Path, Appear(f)
  PROVE  StepKeeps
<1>1. UNCHANGED <<known, saved, left, blind, fresh>>
  BY DEF Appear, DiskStep
<1>2. PICK k \in 1..Inodes : /\ k \notin {Inode(p.seen) : p \in Elems(known.xdccs) \cup Elems(saved.packs)}
                             /\ disk' = [disk EXCEPT ![f] = 2 * k - 1]
  BY DEF Appear
<1>3. disk \in [Path -> 0..(2 * Inodes)] /\ Inodes \in Nat
  BY Sizes DEF PInv, Disk
<1>4. 2 * k - 1 \in 0..(2 * Inodes) /\ Inode(2 * k - 1) = k
  BY <1>3 DEF Inode
<1>5. disk' \in Disk
  BY <1>2, <1>3, <1>4 DEF Disk
<1>6. ASSUME NEW l \in Seq(Pack), \A p \in Elems(l) : Inode(p.seen) # k
      PROVE Fades(l, disk, disk')
  <2> SUFFICES ASSUME NEW i \in DOMAIN l, Gone(l[i].seen, disk) PROVE Gone(l[i].seen, disk')
    BY <1>6, ListFields, PackFields DEF Fades, Cores
  <2>1. l[i].seen % 2 = 1 /\ \A g \in Path : disk[g] # l[i].seen
    BY DEF Gone
  <2>2. l[i].seen # 2 * k - 1
    BY <1>4, <1>6 DEF Elems
  <2>3. \A g \in Path : disk'[g] # l[i].seen
    BY <1>2, <1>3, <2>1, <2>2
  <2> QED BY <2>1, <2>3 DEF Gone
<1>7. Fades(known.xdccs, disk, disk')
  <2>1. known.xdccs \in Seq(Pack) /\ \A p \in Elems(known.xdccs) : Inode(p.seen) # k
    BY <1>2, InvFields
  <2> QED BY <1>6, <2>1
<1>8. Fades(saved.packs, disk, disk')
  <2>1. saved.packs \in Seq(Pack) /\ \A p \in Elems(saved.packs) : Inode(p.seen) # k
    BY <1>2, InvFields DEF GoodFile, Regular
  <2> QED BY <1>6, <2>1
<1> QED BY <1>1, <1>5, <1>7, <1>8, ByDisk

\* A file is deleted by somebody else.
LEMMA DeleteKeeps ==
  ASSUME PInv, NEW f \in Path, Delete(f)
  PROVE  StepKeeps
<1>1. UNCHANGED <<known, saved, left, blind, fresh>> /\ disk' = [disk EXCEPT ![f] = 0]
  BY DEF Delete, DiskStep
<1>2. disk \in [Path -> 0..(2 * Inodes)] /\ 0 \in 0..(2 * Inodes)
  BY Sizes DEF PInv, Disk
<1>3. disk' \in Disk /\ \A g \in Path : disk'[g] = 0 \/ disk'[g] = disk[g]
  BY <1>1, <1>2 DEF Disk
<1>4. \A l : Fades(l, disk, disk')
  BY <1>3, FadesAll
<1> QED BY <1>1, <1>3, <1>4, ByDisk

\* A file is moved by somebody else.
LEMMA MoveKeeps ==
  ASSUME PInv, NEW f \in Path, NEW g \in Path, Move(f, g)
  PROVE  StepKeeps
<1>1. UNCHANGED <<known, saved, left, blind, fresh>> /\ disk' = [disk EXCEPT ![g] = disk[f], ![f] = 0]
  BY DEF Move, DiskStep
<1>2. disk \in [Path -> 0..(2 * Inodes)] /\ 0 \in 0..(2 * Inodes)
  BY Sizes DEF PInv, Disk
<1>3. disk' \in Disk /\ \A h \in Path : disk'[h] = 0 \/ \E x \in Path : disk'[h] = disk[x]
  BY <1>1, <1>2 DEF Disk
<1>4. \A l : Fades(l, disk, disk')
  BY <1>3, FadesAll
<1> QED BY <1>1, <1>3, <1>4, ByDisk

\* The program ends, or crashes.
LEMMA ExitKeeps ==
  ASSUME PInv, Exit
  PROVE  StepKeeps
BY SpokenSame DEF Exit, PInv, StepKeeps

\* A start happens when the program is down: what it forgets of groups is not its doing.
LEMMA StartKeeps ==
  ASSUME PInv, Start
  PROVE  PInv' /\ ~up
<1>1. ~up /\ known' = read_statefile(saved) /\ UNCHANGED <<disk, saved, left, blind, fresh>>
  BY DEF Start
<1>2. Good(known', disk, blind, fresh) /\ Live(known', left)
  BY <1>1, InvFields, ReadGood
<1> QED BY <1>1, <1>2 DEF PInv
-----------------------------------------------------------------------------
(* The theorems *)

\* What a start finds.
LEMMA InitKeeps ==
  ASSUME PacksInit
  PROVE  PInv
<1> DEFINE l == saved.packs
<1>1. /\ disk = [f \in Path |-> IF f <= Inodes THEN 2 * f - 1 ELSE 0]
      /\ saved \in [packs : Started, queue : {<<>>}] /\ known = read_statefile(saved)
      /\ blind = {} /\ fresh = 1 + Len(saved.packs)
  BY DEF PacksInit
<1>2. disk \in Disk
  <2>1. Files \in Nat /\ Inodes \in Nat
    BY Sizes
  <2>2. \A f \in Path : (IF f <= Inodes THEN 2 * f - 1 ELSE 0) \in 0..(2 * Inodes)
    BY <2>1 DEF Path
  <2> QED BY <1>1, <2>2 DEF Disk
<1>3. l \in Started /\ saved.queue = <<>>
  BY <1>1
<1>4. /\ l \in Seq(Pack)
      /\ \A i \in DOMAIN l : l[i].id \in 1..Len(l) /\ l[i].md5 \in {0, l[i].seen}
      /\ \A i, j \in DOMAIN l : i < j => l[i].id # l[j].id
      /\ \A i, j \in DOMAIN l : i < j /\ l[i].group = l[j].group /\ l[j].group # 0 => ~l[j].desc
  <2> HIDE DEF l
  <2> QED BY <1>3, StartedAssumption
<1> HIDE DEF l
<1>5. DOMAIN l = 1..Len(l) /\ Len(l) \in Nat /\ \A i \in DOMAIN l : l[i] \in Pack /\ l[i].desc \in BOOLEAN
  BY <1>4, ListFields, PackFields
<1>6. Unique(l)
  <2> SUFFICES ASSUME NEW i \in DOMAIN l, NEW j \in DOMAIN l, i # j PROVE l[i].id # l[j].id
    BY DEF Unique
  <2>1. i < j \/ j < i
    BY <1>5
  <2> QED BY <1>4, <2>1
<1>7. DescFirst(l, 1..Groups)
  <2> SUFFICES ASSUME NEW i \in DOMAIN l, NEW j \in DOMAIN l, i < j, l[i].group = l[j].group, l[j].group \in 1..Groups
               PROVE  l[j].desc = FALSE
    BY DEF DescFirst
  <2>1. l[j].group # 0
    BY Sizes
  <2>2. ~l[j].desc
    BY <1>4, <2>1
  <2> QED BY <1>5, <2>2
<1>8. TrueSums(l, disk, blind, fresh)
  <2>1. \A i \in DOMAIN l : TrueSum(l[i], disk, blind) /\ l[i].id \in 1..(fresh - 1)
    BY <1>1, <1>4, <1>5 DEF TrueSum, l
  <2> QED BY <1>4, <2>1, OneByOne
<1>9. GoodFile(saved, disk, blind, fresh)
  <2>1. <<>> \in Seq([num : Nat, asked : Nat]) /\ Elems(saved.queue) = {}
    BY <1>3 DEF Elems
  <2>2. saved \in Filed
    BY <1>1, <1>4, <2>1 DEF Filed, l
  <2> QED BY <1>4, <1>6, <1>7, <1>8, <2>1, <2>2 DEF GoodFile, Regular, l
<1>10. fresh \in Nat \ {0}
  BY <1>1, <1>5 DEF l
<1>11. Good(known, disk, blind, fresh) /\ Live(known, left)
  BY <1>1, <1>2, <1>9, ReadGood
<1> QED BY <1>2, <1>9, <1>10, <1>11 DEF PInv

\* Every step keeps the invariant.  A description is taken by GROUPDESC only, or while
\* the program is down.
LEMMA NextKeeps ==
  ASSUME PInv, PacksNext
  PROVE  \/ StepKeeps
         \/ PInv' /\ ~up
         \/ \E g \in 1..Groups : \E d \in BOOLEAN :
              GroupDesc(g, d) /\ PInv'
                /\ \A h \in 1..Groups : h \in Said(known.xdccs) /\ h \notin Said(known'.xdccs) => h = g /\ d = FALSE
<1>1. CASE GroupCommand
  <2>1. ASSUME NEW a \in Scopes, NEW n \in Numbers, NEW m \in Numbers, NEW g \in 0..Groups, n <= m, MoveGroup(a, n, m, g)
        PROVE StepKeeps
    BY <2>1, MoveGroupKeeps
  <2>2. ASSUME NEW g \in 1..Groups, NEW d \in BOOLEAN, GroupDesc(g, d)
        PROVE /\ PInv'
              /\ \A h \in 1..Groups : h \in Said(known.xdccs) /\ h \notin Said(known'.xdccs) => h = g /\ d = FALSE
    BY <2>2, GroupDescKeeps
  <2>3. ASSUME NEW a \in Scopes, NEW g \in 1..Groups, RemoveGroup(a, g)
        PROVE StepKeeps
    BY <2>3, RemoveGroupKeeps
  <2>4. ASSUME NEW g \in 1..Groups, NEW h \in 1..Groups, Regroup(g, h)
        PROVE StepKeeps
    BY <2>4, RegroupKeeps
  <2>5. ASSUME NEW g \in 1..Groups, NewGroup(g)
        PROVE StepKeeps
    BY <2>5, NewGroupKeeps
  <2>6. CASE \E a \in Scopes, n, m \in Numbers, g \in 0..Groups : n <= m /\ MoveGroup(a, n, m, g)
    BY <2>1, <2>6
  <2>7. CASE \/ \E a \in Scopes, g \in 1..Groups : RemoveGroup(a, g)
             \/ \E g, h \in 1..Groups : Regroup(g, h)
             \/ \E g \in 1..Groups : NewGroup(g)
    BY <2>3, <2>4, <2>5, <2>7
  <2>8. CASE \E g \in 1..Groups : \E d \in BOOLEAN : GroupDesc(g, d)
    <3>1. PICK g \in 1..Groups, d \in BOOLEAN : GroupDesc(g, d)
      BY <2>8
    <3>2. /\ PInv'
          /\ \A h \in 1..Groups : h \in Said(known.xdccs) /\ h \notin Said(known'.xdccs) => h = g /\ d = FALSE
      BY <3>1, <2>2
    <3> QED BY <3>1, <3>2
  <2> QED BY ONLY <1>1, <2>6, <2>7, <2>8 DEF GroupCommand
<1>2. CASE ListCommand
  <2>1. ASSUME NEW a \in Scopes, NEW n \in Numbers, NEW m \in Numbers,
               RemovePacks(a, n, m) \/ FileRemove(a, n, m) \/ DelTrigger(a, n, m)
        PROVE StepKeeps
    BY <2>1, RemovePacksKeeps, FileRemoveKeeps, DelTriggerKeeps
  <2>2. ASSUME NEW a \in Scopes, NEW n \in Numbers, NEW on \in BOOLEAN, ChTrigger(a, n, on)
        PROVE StepKeeps
    BY <2>2, ChTriggerKeeps
  <2>3. ASSUME NEW n \in Numbers, NEW m \in Numbers, NEW k \in Numbers, n <= m, Renumber(n, m, k)
        PROVE StepKeeps
    BY <2>3, RenumberKeeps
  <2> QED BY <1>2, <2>1, <2>2, <2>3, SortKeeps, AddKeeps DEF ListCommand
<1>3. CASE FileCommand
  <2>1. ASSUME NEW a \in Scopes, NEW n \in Numbers, NEW m \in Numbers, n <= m, Md5(a, n, m)
        PROVE StepKeeps
    BY <2>1, Md5Keeps
  <2>2. ASSUME NEW a \in Scopes, NEW n \in Numbers, NEW f \in Path, ChFile(a, n, f) \/ MoveFile(a, n, f)
        PROVE StepKeeps
    BY <2>2, ChFileKeeps, MoveFileKeeps
  <2> QED BY <1>3, <2>1, <2>2 DEF FileCommand
<1>4. CASE DirCommand
  <2>1. ASSUME NEW a \in Scopes, NEW fs \in (SUBSET Path) \ {{}}, RemoveDir(a, fs)
        PROVE StepKeeps
    BY <2>1, RemoveDirKeeps
  <2>2. ASSUME NEW new \in BOOLEAN, NEW g \in 0..Groups, AddDir(new, g)
        PROVE StepKeeps
    BY <2>2, AddDirKeeps
  <2> QED BY <1>4, <2>1, <2>2, RemoveLostKeeps DEF DirCommand
<1>5. CASE UserEvent
  BY <1>5, RequestKeeps, ServedKeeps DEF UserEvent
<1>6. CASE FileWork
  BY <1>6, LookKeeps, StartMd5Keeps, CompleteKeeps, GarbledKeeps DEF FileWork, Looking
<1>7. CASE DirWork
  BY <1>7, AutoAddKeeps, RunDelayedKeeps DEF DirWork
<1>8. CASE DiskChange
  BY <1>8, ModifyKeeps, AppearKeeps, DeleteKeeps, MoveKeeps DEF DiskChange
<1>9. CASE Restart
  BY <1>9, WriteKeeps, ExitKeeps, StartKeeps DEF Restart
<1> QED BY <1>1, <1>2, <1>3, <1>4, <1>5, <1>6, <1>7, <1>8, <1>9 DEF PacksNext

\* Nothing that PInv says changes when no variable does.
LEMMA PInvStutter ==
  ASSUME PInv, UNCHANGED pkVars
  PROVE  PInv'
BY DEF PInv, pkVars

\* Every step keeps the invariant.
LEMMA PInvNext ==
  ASSUME PInv, [PacksNext]_pkVars
  PROVE  PInv'
<1>1. CASE PacksNext
  BY <1>1, NextKeeps DEF StepKeeps
<1>2. CASE UNCHANGED pkVars
  BY <1>2, PInvStutter
<1> QED BY <1>1, <1>2

\* Whatever is done to packs, groups and files, by administrators, users, jobs and
\* restarts, the list and the state file stay as PInv says.
THEOREM PacksInvariant == PacksSpec => []PInv
<1>1. PacksInit => PInv
  BY InitKeeps
<1>2. PInv /\ [PacksNext]_pkVars => PInv'
  BY PInvNext
<1> QED BY <1>1, <1>2, PTL DEF PacksSpec

\* A group has one description at most, on its first pack, through every reordering
\* (reorder_new_groupdesc, reorder_groupdesc).
THEOREM GroupDescFirstHolds == PacksSpec => []GroupDescFirst
<1>1. PInv => GroupDescFirst
  <2> SUFFICES ASSUME PInv, NEW g \in 1..Groups, NEW i \in InGroup(known.xdccs, g), known.xdccs[i].desc
               PROVE  i = First(InGroup(known.xdccs, g))
    BY DEF GroupDescFirst
  <2> DEFINE l == known.xdccs
             K == InGroup(l, g)
             j == First(K)
  <2>1. l \in Seq(Pack) /\ DescFirst(l, 1..Groups) /\ DOMAIN l = 1..Len(l) /\ Len(l) \in Nat
    BY InvFields DEF Regular
  <2>2. i \in K /\ K \subseteq DOMAIN l /\ \A k \in K : l[k].group = g
    BY DEF InGroup
  <2>3. l[i].desc
    OBVIOUS
  <2> HIDE DEF K, l
  <2>4. j \in K /\ \A k \in K : j <= k
    <3>1. K \subseteq Nat /\ K # {}
      BY <2>1, <2>2
    <3> QED BY <3>1, FirstType
  <2> HIDE DEF j
  <2>5. i \in Nat /\ j \in Nat /\ j <= i
    BY <2>1, <2>2, <2>4
  <2>6. ~(j < i)
    BY <2>1, <2>2, <2>3, <2>4 DEF DescFirst
  <2>7. i = j
    BY <2>5, <2>6
  <2> QED BY <2>7 DEF j, K, l
<1> QED BY <1>1, PacksInvariant, PTL

\* Numbers and names outlive every change of the list: a trigger leads to a pack that has
\* it, but those left behind; a request leads to the pack it was made for.
THEOREM PacksKnownHolds == PacksSpec => []PacksKnown
<1>1. PInv => PacksKnown
  <2> SUFFICES ASSUME PInv PROVE TriggersLive /\ RequestKeepsPack
    BY DEF PacksKnown
  <2>1. TriggersLive
    BY DEF PInv, Live, TriggersLive
  <2>2. RequestKeepsPack
    BY DEF PInv, Good, Asked, RequestKeepsPack
  <2> QED BY <2>1, <2>2
<1> QED BY <1>1, PacksInvariant, PTL

\* A checksum that is shown for a file that was seen as it is, is the file's, but where it
\* was begun before a change was seen.
THEOREM Md5TrueHolds == PacksSpec => []Md5True
<1>1. PInv => Md5True
  <2> SUFFICES ASSUME PInv, NEW i \in DOMAIN known.xdccs,
                      known.xdccs[i].md5 # 0, known.xdccs[i].seen = disk[known.xdccs[i].file]
               PROVE  known.xdccs[i].md5 = disk[known.xdccs[i].file] \/ known.xdccs[i].id \in blind
    BY DEF Md5True, Elems
  <2> DEFINE p == known.xdccs[i]
  <2>1. p \in Pack /\ p.file \in Path
    <3>1. p \in Pack
      BY InvFields, ListFields
    <3> QED BY <3>1, PackFields
  <2>2. TrueSum(p, disk, blind)
    <3>1. known.xdccs \in Seq(Pack) /\ TrueSums(known.xdccs, disk, blind, fresh)
      BY InvFields DEF Good
    <3> QED BY <3>1, OneByOne
  <2>3. ~Gone(p.seen, disk)
    BY <2>1 DEF Gone
  <2> QED BY <2>2, <2>3 DEF TrueSum
<1> QED BY <1>1, PacksInvariant, PTL

\* While the program runs and a group has packs, only GROUPDESC takes its description.
THEOREM DescKeptHolds == PacksSpec => DescKept
<1> DEFINE Kept == \A g \in 1..Groups :
                     (up /\ HasDesc(known.xdccs, g) /\ InGroup(known'.xdccs, g) # {})
                       => HasDesc(known'.xdccs, g) \/ GroupDesc(g, FALSE)
<1>1. ASSUME PInv, [PacksNext]_pkVars PROVE [Kept]_pkVars
  <2> SUFFICES ASSUME PacksNext, NEW g \in 1..Groups, up, HasDesc(known.xdccs, g), InGroup(known'.xdccs, g) # {},
                      ~HasDesc(known'.xdccs, g)
               PROVE  GroupDesc(g, FALSE)
    BY <1>1
  <2>1. g \in Said(known.xdccs) /\ g \in Used(known'.xdccs) /\ g \notin Said(known'.xdccs)
    BY DEF Said, Used
  <2>2. ~StepKeeps
    BY <2>1 DEF StepKeeps, Spoken
  <2>3. PICK h \in 1..Groups, d \in BOOLEAN :
          GroupDesc(h, d) /\ (g \in Said(known.xdccs) /\ g \notin Said(known'.xdccs) => g = h /\ d = FALSE)
    BY <1>1, <2>2, NextKeeps
  <2>4. g = h /\ d = FALSE
    BY <2>1, <2>3
  <2> QED BY <2>3, <2>4
<1>2. PInv /\ [PacksNext]_pkVars => [Kept]_pkVars
  BY <1>1
<1>3. DescKept <=> [][Kept]_pkVars
  BY DEF DescKept
<1> HIDE DEF Kept
<1> QED BY <1>2, <1>3, PacksInvariant, PTL DEF PacksSpec
=============================================================================
