------------------------------- MODULE Packs -------------------------------
(***************************************************************************)
(* The list of packs and what refers to it: the administrator's commands   *)
(* of src/dinoex_admin.c, the delayed jobs and checksums of                *)
(* src/dinoex_jobs.c and src/iroffer_main.c, and what a restart gets back   *)
(* from the state file.                                                    *)
(*                                                                         *)
(* A pack is addressed by its number (its position) from outside and by    *)
(* pointer from inside: the waiting requests, the checksum job and the     *)
(* triggers point at it, the state file keeps numbers.  The description of *)
(* a group is kept on the first pack of the group.                         *)
(*                                                                         *)
(* A file is known by its content: an inode in one of its versions.  2k-1  *)
(* and 2k are the two versions of inode k; a checksum of a content is the  *)
(* content.                                                                *)
(*                                                                         *)
(* A MOVEFILE that cannot open the file frees the name the pack goes on    *)
(* with: until it is given another one, or the program ends, the name may  *)
(* read as that of any file, or of none.                                   *)
(***************************************************************************)
EXTENDS Integers, Queues

CONSTANTS
  Files, Inodes,           \* paths 1..Files, inodes 1..Inodes
  Groups,                  \* names of groups are 1..Groups, MAIN is the first
  Scopes,                  \* what an administrator may be restricted to: sets of groups
  Started,                 \* the lists of packs a state file may hold
  noduplicatefiles, no_duplicate_filenames, removelostfiles, \* BOOLEANs
  autoadd_sort,            \* sort new packs by "filename" or "group", or ""
  autoadd_group,           \* the group of autoadd, 0: none
  MaxPacks, MaxRequests, MaxDelayed, MaxWork   \* bounds of the model

ASSUME PacksAssumption ==
  /\ {Files, Inodes, Groups} \subseteq Nat \ {0} /\ autoadd_group \in 0..Groups
  /\ Scopes \subseteq SUBSET (1..Groups)
  /\ {noduplicatefiles, no_duplicate_filenames, removelostfiles} \subseteq BOOLEAN
  /\ autoadd_sort \in {"", "filename", "group"}

MAIN == 1                 \* the group's name; a pack without group has 0
Path == 1..Files
Content == 1..(2 * Inodes)
Inode(c) == (c + 1) \div 2
Mixed == 2 * Inodes + 1   \* what a checksum says that was taken while the file changed

\* seen: the content when the file was last looked at; md5: the content it was
\* computed from, 0: none.  id is the pointer.
Pack == [id : Nat, file : Path, seen : 0..(2 * Inodes), group : 0..Groups,
         desc : BOOLEAN, trigger : BOOLEAN, md5 : 0..Mixed]

\* REMOVE is about an inode and what its author may see, ADD about a path, SCAN is
\* ADDNEW or ADDGROUP.
Job == [cmd : {"REMOVE", "ADD", "SCAN"}, file : 0..Files, ino : 0..Inodes,
        group : 0..Groups, scope : SUBSET (1..Groups)]

\* A list that was saved by an earlier process: the packs by their pointers, of a
\* group none but the first with a description, and true sums.
ASSUME StartedAssumption ==
  \A l \in Started :
    /\ l \in Seq(Pack)
    /\ \A i \in DOMAIN l : l[i].id \in 1..Len(l) /\ l[i].md5 \in {0, l[i].seen}
    /\ \A i, j \in DOMAIN l : i < j => l[i].id # l[j].id
    /\ \A i, j \in DOMAIN l : i < j /\ l[i].group = l[j].group /\ l[j].group # 0 => ~l[j].desc

VARIABLES
  known,     \* what the program keeps: xdccs, queue, trig, md5build, delayed; freed,
             \* the packs whose name is in memory that was given back
  disk,    \* path -> content, 0: no such file
  saved,   \* what the state file holds
  up,      \* the program runs
  left,    \* ghost: packs and triggers removed without a rebuild of the triggers
  blind,   \* ghost: packs whose sum was begun before a change of the file was seen
  fresh,   \* ghost: the next pointer
  work     \* commands so far

pkVars == <<known, disk, saved, up, left, blind, fresh, work>>
-----------------------------------------------------------------------------
(* The list *)

\* The last position of a nonempty set.
Highest(K) == CHOOSE i \in K : \A j \in K : j <= i

InGroup(l, g) == {i \in DOMAIN l : l[i].group = g}
IdsOf(l) == {l[i].id : i \in DOMAIN l}
At(l, id) == CHOOSE i \in DOMAIN l : l[i].id = id
number_of_pack(l, id) == IF id \in IdsOf(l) THEN At(l, id) ELSE 0
HasDesc(l, g) == \E i \in InGroup(l, g) : l[i].desc

\* The description of a group becomes d, on its first pack only.
reorder_new_groupdesc_Last(l, g, d) ==   \* seeded defect: the last pack of the group gets it
  [i \in DOMAIN l |-> IF i \in InGroup(l, g)
                        THEN [l[i] EXCEPT !.desc = d /\ \A j \in InGroup(l, g) : j <= i]
                        ELSE l[i]]
reorder_new_groupdesc(l, g, d) ==
  [i \in DOMAIN l |-> IF i \in InGroup(l, g)
                        THEN [l[i] EXCEPT !.desc = d /\ i = First(InGroup(l, g))]
                        ELSE l[i]]

\* If the group has descriptions, its first pack gets the one found first.
reorder_groupdesc(l, g) ==
  IF g # 0 /\ HasDesc(l, g) THEN reorder_new_groupdesc(l, g, TRUE) ELSE l

\* A new group is described by its name.
add_default_groupdesc(l, g) ==
  IF Cardinality(InGroup(l, g)) = 1 THEN reorder_new_groupdesc(l, g, TRUE) ELSE l

\* The i-th pack leaves its group, which keeps its description.
LeaveGroup(l, i) ==
  LET out == [l EXCEPT ![i].group = 0, ![i].desc = FALSE]
  IN IF l[i].group = 0 THEN l
     ELSE IF l[i].desc THEN reorder_new_groupdesc(out, l[i].group, TRUE) ELSE out

\* a_set_group; g = 0 takes the pack out of its group.
SetGroup(l, i, g) ==
  LET joined == [LeaveGroup(l, i) EXCEPT ![i].group = g]
  IN IF g = 0 THEN LeaveGroup(l, i)
     ELSE add_default_groupdesc(reorder_groupdesc(joined, g), g)

\* a_sort_cmp: packs without a group come first.
SortKey(p, by) == IF by = "group" THEN p.group ELSE p.file

\* a_sort_insert
SortInsert(l, p, by) ==
  LET later == {i \in DOMAIN l : SortKey(p, by) < SortKey(l[i], by)}
      n == IF later = {} THEN Len(l) + 1 ELSE First(later)
      put == InsertAt(l, n, p)
  IN IF p.group = 0 THEN put
     ELSE IF p.desc THEN reorder_new_groupdesc(put, p.group, TRUE)
     ELSE reorder_groupdesc(put, p.group)

\* a_renumber1
Renumber1(l, old, new) ==
  reorder_groupdesc(InsertAt(Drop(l, old), new, l[old]), l[old].group)
\* a_renumber3: the packs old..end come to stand at new.
Renumbered(l, old, end, new) ==
  LET list[k \in 0..(end - old + 1)] ==
        IF k = 0 THEN l
        ELSE IF old > new THEN Renumber1(list[k - 1], old + k - 1, new + k - 1)
        ELSE Renumber1(list[k - 1], old, new)
  IN list[end - old + 1]

\* a_sort takes the packs one by one into a new list.
SortedBy(l, by) ==
  LET list[k \in 0..Len(l)] == IF k = 0 THEN <<>> ELSE SortInsert(list[k - 1], l[k], by)
  IN list[Len(l)]

\* The packs n..last join a group.
SetGroups(l, n, last, g) ==
  LET list[k \in 0..(last - n + 1)] == IF k = 0 THEN l ELSE SetGroup(list[k - 1], n + k - 1, g)
  IN list[last - n + 1]

\* a_regroup: the packs of g get group h; MAIN names the packs without a group.
NamedGroup(l, g) == {i \in DOMAIN l : (IF l[i].group = 0 THEN MAIN ELSE l[i].group) = g}
MoveAll(l, g, h) ==
  LET moved == [i \in DOMAIN l |-> IF i \in NamedGroup(l, g)
                                     THEN [l[i] EXCEPT !.group = IF h = MAIN THEN 0 ELSE h] ELSE l[i]]
      list == reorder_groupdesc(moved, h)
  IN IF g = MAIN /\ h # MAIN THEN add_default_groupdesc(list, h) ELSE list

\* a_newgroup_sub: the packs that have the files of a directory join a group.
SameInode(l, c) == {i \in DOMAIN l : l[i].seen # 0 /\ Inode(l[i].seen) = Inode(c)}
GroupFiles(l, g) ==
  LET list[f \in 0..Files] ==
        IF f = 0 THEN l
        ELSE IF disk[f] = 0 \/ SameInode(list[f - 1], disk[f]) = {} THEN list[f - 1]
        ELSE SetGroup(list[f - 1], First(SameInode(list[f - 1], disk[f])), g)
  IN list[Files]
-----------------------------------------------------------------------------
(* What follows a change *)

write_statefile(m) ==
  [packs |-> m.xdccs,
   queue |-> [i \in DOMAIN m.queue |->
                [num |-> number_of_pack(m.xdccs, m.queue[i].id), asked |-> m.queue[i].asked]]]

Triggers(l) == {l[i].id : i \in {j \in DOMAIN l : l[j].trigger}}

\* autotrigger_rebuild
Rebuilt(m) == [m EXCEPT !.trig = Triggers(m.xdccs)]

cancel_md5_hash_KeepSum(m, i) ==   \* seeded defect: the old sum stays
  [m EXCEPT !.md5build = IF @.id = m.xdccs[i].id THEN [id |-> 0, of |-> 0] ELSE @]
cancel_md5_hash(m, i) ==
  [m EXCEPT !.md5build = IF @.id = m.xdccs[i].id THEN [id |-> 0, of |-> 0] ELSE @,
            !.xdccs[i].md5 = 0]

\* look_for_file_changes where the file exists.
Looked(m, i) ==
  LET c == disk[m.xdccs[i].file]
  IN IF c \in {0, m.xdccs[i].seen} THEN m
     ELSE cancel_md5_hash([m EXCEPT !.xdccs[i].seen = c], i)
Lost(m, i) == disk[m.xdccs[i].file] = 0
\* The i-th pack keeps the name it has no more, or gets one of its own again.
NameFreed(m, i) == [m EXCEPT !.freed = @ \cup {m.xdccs[i].id}]
Named(m, i) == [m EXCEPT !.freed = @ \ {m.xdccs[i].id}]

\* Every pack is looked at.
LookAll(m) ==
  LET looked[i \in 0..Len(m.xdccs)] == IF i = 0 THEN m ELSE Looked(looked[i - 1], i)
  IN looked[Len(m.xdccs)]

Hidden(m, i, scope) == m.xdccs[i].group \notin scope \cup {0}

\* a_remove_pack2: the pack goes with its requests and its checksum job; the
\* group keeps its description.
remove_pack2_KeepQueue(m, i) ==   \* seeded defect: the requests stay
  LET p == m.xdccs[i]
      out == Drop(m.xdccs, i)
  IN [cancel_md5_hash(m, i) EXCEPT
        !.xdccs = IF p.desc /\ p.group # 0 THEN reorder_new_groupdesc(out, p.group, TRUE) ELSE out]
remove_pack2_LoseDesc(m, i) ==   \* seeded defect: the description goes with the pack
  [cancel_md5_hash(m, i) EXCEPT !.xdccs = Drop(m.xdccs, i),
     !.queue = Keep(m.queue, {k \in DOMAIN m.queue : m.queue[k].id # m.xdccs[i].id})]
remove_pack2_KeepJob(m, i) ==   \* seeded defect: the checksum of the pack goes on
  LET out == Drop(m.xdccs, i)
  IN [m EXCEPT !.xdccs = IF m.xdccs[i].desc /\ m.xdccs[i].group # 0
                           THEN reorder_new_groupdesc(out, m.xdccs[i].group, TRUE) ELSE out,
               !.queue = Keep(m.queue, {k \in DOMAIN m.queue : m.queue[k].id # m.xdccs[i].id})]
remove_pack2(m, i) ==
  LET p == m.xdccs[i]
      out == Drop(m.xdccs, i)
  IN [cancel_md5_hash(m, i) EXCEPT
        !.xdccs = IF p.desc /\ p.group # 0 THEN reorder_new_groupdesc(out, p.group, TRUE) ELSE out,
        !.queue = Keep(m.queue, {k \in DOMAIN m.queue : m.queue[k].id # p.id})]

\* The packs with the pointers of a set, one after another, from the last to the first.
RemoveAll(m, ids) ==
  LET among(s) == {i \in DOMAIN s.xdccs : s.xdccs[i].id \in ids}
      after[k \in 0..Len(m.xdccs)] ==
        IF k = 0 THEN m
        ELSE IF among(after[k - 1]) = {} THEN after[k - 1]
        ELSE remove_pack2(after[k - 1], Highest(among(after[k - 1])))
  IN after[Len(m.xdccs)]

\* a_remove_pack_final, without the write.
Final_Forgotten(m) == m   \* seeded defect: the triggers are not rebuilt
Final(m) == Rebuilt(m)
-----------------------------------------------------------------------------
(* New packs *)

\* noduplicatefiles: the pack that has the inode already; if its own path is gone
\* and nothing else changed, the file was renamed (check_for_renamed_file).
Renamed(m, f) ==
  LET i == First(SameInode(m.xdccs, disk[f]))
  IN IF disk[m.xdccs[i].file] = 0 /\ m.xdccs[i].seen = disk[f]
     THEN Named([m EXCEPT !.xdccs[i].file = f], i) ELSE m

\* a_add2: what memory becomes when f is added to group g.
Add2(m, f, g) ==
  LET p == [id |-> fresh, file |-> f, seen |-> disk[f], group |-> g, desc |-> FALSE,
            trigger |-> FALSE, md5 |-> 0]
      \* the group is set for the sorting only, then given again
      sorted == SortInsert(m.xdccs, p, autoadd_sort)
      plain == Append(m.xdccs, [p EXCEPT !.group = 0])
      list == IF autoadd_sort = "" THEN plain ELSE [sorted EXCEPT ![At(sorted, fresh)].group = 0]
  IN [m EXCEPT !.xdccs = SetGroup(list, At(list, fresh), g)]

Duplicate(m, f) == noduplicatefiles /\ SameInode(m.xdccs, disk[f]) # {}
Addable(m, f) ==
  /\ disk[f] # 0 /\ Len(m.xdccs) < MaxPacks
  /\ ~Duplicate(m, f)
  /\ no_duplicate_filenames => \A i \in DOMAIN m.xdccs : m.xdccs[i].file # f

\* A file that is refused changes nothing, unless it is one that was renamed.
Added(m, f, g) ==
  IF Addable(m, f) THEN Add2(m, f, g)
  ELSE IF disk[f] # 0 /\ Duplicate(m, f) THEN Renamed(m, f) ELSE m

\* a_adddir_sub: the files of the directory in their order; with onlynew those that
\* are packs or were renamed are skipped, and those that wait already in any case.
Visited(m, onlynew) ==
  LET visited[f \in 0..Files] ==
        IF f = 0 THEN m
        ELSE IF onlynew /\ disk[f] # 0 /\ SameInode(visited[f - 1].xdccs, disk[f]) # {}
          THEN Renamed(visited[f - 1], f) ELSE visited[f - 1]
  IN visited[Files]
Scanned(m, onlynew, g) ==
  LET new(f) == /\ disk[f] # 0
                /\ onlynew => SameInode(m.xdccs, disk[f]) = {}
                /\ \A j \in Elems(m.delayed) : j.cmd = "ADD" => j.ino # Inode(disk[f])
      files == Keep([f \in Path |-> f], {f \in Path : new(f)})
  IN [Visited(m, onlynew) EXCEPT !.delayed = @ \o [k \in DOMAIN files |->
        [cmd |-> "ADD", file |-> files[k], ino |-> Inode(disk[files[k]]), group |-> g, scope |-> {}]]]
-----------------------------------------------------------------------------
(* The administrator's commands; a is what he may see *)

Working == up /\ work < MaxWork
Unsaved(m) == known' = m /\ UNCHANGED <<saved, up, blind, fresh>> /\ work' = work + 1
Stored(m) == known' = m /\ saved' = write_statefile(m) /\ UNCHANGED <<up, blind, fresh>> /\ work' = work + 1

Numbers == DOMAIN known.xdccs
\* The numbers of a range that he may not see.
Barred(n, m, a) == {i \in n..m : Hidden(known, i, a)}

\* a_remove goes from m down to n and returns at the first pack it may not
\* remove; only a range done to its end is followed by the final part.
RemovePacks(a, n, m) ==
  LET bar == Barred(n, m, a)
      low == IF bar = {} THEN n ELSE 1 + Highest(bar)
      ids == {known.xdccs[i].id : i \in low..m}
      out == RemoveAll(known, ids)
  IN /\ Working /\ UNCHANGED disk
     /\ IF bar = {} THEN Stored(Final(out)) /\ UNCHANGED left
        ELSE Unsaved(out) /\ left' = left \cup ids

\* a_fileremove counts nothing, so the final part never follows; the files go too.
FileRemove(a, n, m) ==
  LET bar == Barred(n, m, a)
      low == IF bar = {} THEN n ELSE 1 + Highest(bar)
      ids == {known.xdccs[i].id : i \in low..m}
  IN /\ Working
     /\ Unsaved(RemoveAll(known, ids)) /\ left' = left \cup ids
     /\ disk' = [f \in Path |-> IF \E i \in low..m : known.xdccs[i].file = f THEN 0 ELSE disk[f]]

RemoveGroup(a, g) ==
  LET ids == {known.xdccs[i].id : i \in {j \in InGroup(known.xdccs, g) : ~Hidden(known, j, a)}}
  IN /\ Working /\ ids # {}
     /\ Stored(Final(RemoveAll(known, ids)))
     /\ UNCHANGED <<disk, left>>

\* a_removelost looks at each pack, and removes those whose file is gone.
RemoveLost(a) ==
  LET ids == {known.xdccs[i].id : i \in {j \in Numbers : Lost(known, j) /\ ~Hidden(known, j, a)}}
  IN /\ Working /\ UNCHANGED <<disk, left>>
     /\ IF ids = {} THEN Unsaved(LookAll(known)) ELSE Stored(Final(RemoveAll(LookAll(known), ids)))

\* a_removedir_sub for some files of a directory: REMOVEDIR, REMOVEMATCH.
RemoveDir(a, fs) ==
  LET files == Keep([f \in Path |-> f], {f \in fs : disk[f] # 0})
  IN /\ Working /\ files # <<>> /\ Len(known.delayed) + Len(files) <= MaxDelayed
     /\ Unsaved([known EXCEPT !.delayed = @ \o [k \in DOMAIN files |->
          [cmd |-> "REMOVE", file |-> 0, ino |-> Inode(disk[files[k]]), group |-> 0, scope |-> a]]])
     /\ UNCHANGED <<disk, left>>

Renumber(old, end, new) ==
  /\ Working /\ new \notin old..end
  /\ Stored([known EXCEPT !.xdccs = Renumbered(@, old, end, new)])
  /\ UNCHANGED <<disk, left>>

Sort(by) ==
  /\ Working /\ known.xdccs # <<>>
  /\ Stored([known EXCEPT !.xdccs = SortedBy(@, by)])
  /\ UNCHANGED <<disk, left>>

\* What becomes of the program and its file when f is added, or refused.
TakeIn(m, f, g) ==
  /\ known' = Added(m, f, g)
  /\ IF Addable(m, f) THEN saved' = write_statefile(known') /\ fresh' = fresh + 1 ELSE UNCHANGED <<saved, fresh>>
  /\ UNCHANGED <<disk, up, left, blind>>
Add(f) == Working /\ Added(known, f, 0) # known /\ TakeIn(known, f, 0) /\ work' = work + 1

\* ADDDIR, ADDNEW, ADDGROUP
AddDir(onlynew, g) ==
  LET m == Scanned(known, onlynew, g)
  IN /\ Working /\ m # known /\ Len(m.delayed) <= MaxDelayed
     /\ Unsaved(m) /\ UNCHANGED <<disk, left>>

ChFile(a, n, f) ==
  /\ Working /\ disk[f] # 0 /\ ~Hidden(known, n, a)
  /\ Stored(Named(cancel_md5_hash([known EXCEPT !.xdccs[n].file = f, !.xdccs[n].seen = disk[f]], n), n))
  /\ UNCHANGED <<disk, left>>

\* a_movefile renames on the disk, and does not save; where there is no file
\* a_access_file frees the name of the pack.
MoveFile(a, n, f) ==
  LET old == known.xdccs[n].file
  IN /\ Working /\ ~Hidden(known, n, a) /\ UNCHANGED left
     /\ \/ /\ disk[old] # 0 /\ f # old
           /\ disk' = [disk EXCEPT ![f] = disk[old], ![old] = 0]
           /\ Unsaved(Named([known EXCEPT !.xdccs[n].file = f], n))
        \/ disk[old] = 0 /\ Unsaved(NameFreed(known, n)) /\ UNCHANGED disk

\* a_group and a_movegroup; a range stops at a pack he may not change, unsaved.
MoveGroup(a, n, m, g) ==
  LET bar == Barred(n, m, a)
      last == IF bar = {} THEN m ELSE First(bar) - 1
      out == [known EXCEPT !.xdccs = SetGroups(@, n, last, g)]
  IN /\ Working /\ UNCHANGED <<disk, left>>
     /\ IF bar = {} THEN Stored(out) ELSE Unsaved(out)

Regroup(g, h) ==
  /\ Working /\ NamedGroup(known.xdccs, g) # {}
  /\ Stored([known EXCEPT !.xdccs = MoveAll(@, g, h)])
  /\ UNCHANGED <<disk, left>>

GroupDesc(g, d) ==
  /\ Working /\ InGroup(known.xdccs, g) # {}
  /\ Stored([known EXCEPT !.xdccs = reorder_new_groupdesc(@, g, d)])
  /\ UNCHANGED <<disk, left>>

NewGroup(g) ==
  /\ Working /\ \E f \in Path : disk[f] # 0 /\ SameInode(known.xdccs, disk[f]) # {}
  /\ Stored([known EXCEPT !.xdccs = GroupFiles(@, g)])
  /\ UNCHANGED <<disk, left>>

ChTrigger(a, n, on) ==
  LET out == [known EXCEPT !.xdccs[n].trigger = on]
  IN /\ Working /\ ~Hidden(known, n, a)
     /\ IF on /\ ~known.xdccs[n].trigger THEN Stored([out EXCEPT !.trig = @ \cup {known.xdccs[n].id}])
        ELSE Stored(Rebuilt(out))
     /\ UNCHANGED <<disk, left>>

\* a_deltrigger saves nothing, and forgets the rebuild where it stops early.
DelTrigger(a, n, m) ==
  LET bar == Barred(n, m, a)
      last == IF bar = {} THEN m ELSE First(bar) - 1
      out == [known EXCEPT !.xdccs = [i \in Numbers |-> IF i \in n..last THEN [known.xdccs[i] EXCEPT !.trigger = FALSE]
                                                        ELSE known.xdccs[i]]]
  IN /\ Working /\ UNCHANGED disk /\ \E i \in n..last : known.xdccs[i].trigger
     /\ IF bar = {} THEN Unsaved(Rebuilt(out)) /\ UNCHANGED left
        ELSE Unsaved(out) /\ left' = left \cup {known.xdccs[i].id : i \in n..last}

\* start_md5_hash opens the file of the i-th pack as it is now; b: the blind sums.
Begin(m, i) == [m EXCEPT !.md5build = [id |-> m.xdccs[i].id, of |-> disk[m.xdccs[i].file]]]
BegunBlind(m, i, b) == IF m.xdccs[i].seen = disk[m.xdccs[i].file] THEN b ELSE b \cup {m.xdccs[i].id}
Unsummed(m, i) == [m EXCEPT !.xdccs[i].md5 = 0]

\* A number of the range in a_md5.  While a sum is computed the packs are only marked; else
\* the sum is begun.  If the file is gone, and lost ones are removed, the pack goes with a
\* REMOVE inside the loop: the next number is that of the next pack but one, and the last
\* number, or more, is of no pack.
Md5Turn(r, i, a) ==
  LET out == Final(remove_pack2(r.m, i))
  IN IF r.how # "on" THEN r
     ELSE IF i \notin DOMAIN r.m.xdccs THEN [r EXCEPT !.how = "none"]
     ELSE IF Hidden(r.m, i, a) THEN [r EXCEPT !.how = "barred"]
     ELSE IF r.m.md5build.id # 0 THEN [r EXCEPT !.m = Unsummed(r.m, i)]
     ELSE IF ~Lost(r.m, i) THEN [r EXCEPT !.m = Begin(r.m, i), !.blind = BegunBlind(r.m, i, r.blind)]
     ELSE IF removelostfiles THEN [r EXCEPT !.m = out, !.saved = write_statefile(out)]
     ELSE r

\* Where a number is of no pack the program dies of it; not under an administrator who is
\* restricted to groups, to whom no pack is one he may not see.
Md5(a, n, m) ==
  LET turns[k \in 0..(m - n + 1)] ==
        IF k = 0 THEN [m |-> known, saved |-> saved, blind |-> blind, how |-> "on"]
        ELSE Md5Turn(turns[k - 1], n + k - 1, a)
      end == turns[m - n + 1]
  IN /\ Working /\ work' = work + 1
     /\ known' = end.m /\ saved' = end.saved /\ blind' = end.blind
     /\ up' \in IF end.how = "none" /\ a = 1..Groups THEN BOOLEAN ELSE {TRUE}
     /\ UNCHANGED <<disk, left, fresh>>
-----------------------------------------------------------------------------
(* What the program does by itself *)

Running == up /\ UNCHANGED work

\* check_for_file_remove: the monitor of files, and a file that cannot be opened.
Look(n) ==
  /\ Running /\ UNCHANGED <<disk, up, left, blind, fresh>>
  /\ IF Lost(known, n)
       THEN removelostfiles /\ known' = Final(remove_pack2(known, n)) /\ saved' = write_statefile(known')
       ELSE Looked(known, n) # known /\ known' = Looked(known, n) /\ UNCHANGED saved

\* A pack without a sum is looked for each second, the first one is started.
NoSum(m) == {i \in DOMAIN m.xdccs : m.xdccs[i].md5 = 0}
StartMd5 ==
  /\ Running /\ known.md5build.id = 0 /\ NoSum(known) # {}
  /\ LET n == First(NoSum(known)) IN
       IF disk[known.xdccs[n].file] = 0 THEN Look(n)
       ELSE /\ known' = Begin(known, n) /\ blind' = BegunBlind(known, n, blind)
            /\ UNCHANGED <<disk, saved, up, left, fresh>>

\* What was freed is put to another use, and the name is another.
Garbled(n) ==
  /\ Running /\ known.xdccs[n].id \in known.freed
  /\ \E f \in Path : f # known.xdccs[n].file /\ known' = [known EXCEPT !.xdccs[n].file = f]
  /\ UNCHANGED <<disk, saved, up, left, blind, fresh>>

\* The file is read to its end, or cannot be, or has become shorter.
complete_md5_hash ==
  LET n == At(known.xdccs, known.md5build.id)
  IN /\ Running /\ known.md5build.id # 0
     /\ \E m \in {[known EXCEPT !.xdccs[n].md5 = known.md5build.of], known} :
          known' = [m EXCEPT !.md5build = [id |-> 0, of |-> 0]]
     /\ UNCHANGED <<disk, saved, up, left, blind, fresh>>

\* autoadd_all
AutoAdd ==
  /\ Working /\ known.delayed = <<>>
  /\ Unsaved([known EXCEPT !.delayed = <<[cmd |-> "SCAN", file |-> 0, ino |-> 0, group |-> autoadd_group,
                                       scope |-> {}]>>])
  /\ UNCHANGED <<disk, left>>

\* run_delayed_jobs: one job a second.  REMOVE takes the first pack of the inode
\* that may be removed.
RunDelayed ==
  LET j == Head(known.delayed)
      m == [known EXCEPT !.delayed = Tail(@)]
      hit == {i \in Numbers : known.xdccs[i].seen # 0 /\ Inode(known.xdccs[i].seen) = j.ino
                              /\ ~Hidden(known, i, j.scope)}
  IN /\ Running /\ known.delayed # <<>>
     /\ CASE j.cmd = "ADD" -> TakeIn(m, j.file, j.group)
          [] j.cmd = "REMOVE" ->
               /\ UNCHANGED <<disk, up, left, blind, fresh>>
               /\ IF hit = {} THEN known' = m /\ UNCHANGED saved
                  ELSE known' = Final(remove_pack2(m, First(hit))) /\ saved' = write_statefile(known')
          [] OTHER -> /\ known' = Scanned(m, TRUE, j.group)
                      /\ Len(known'.delayed) <= MaxDelayed
                      /\ UNCHANGED <<disk, saved, up, left, blind, fresh>>

\* Every three minutes, and after a change of the queues.
write_files ==
  /\ Running /\ saved # write_statefile(known) /\ saved' = write_statefile(known)
  /\ UNCHANGED <<known, disk, up, left, blind, fresh>>

\* A user asks for a pack by its number; a request is served or given up.
Request(n) ==
  /\ Working /\ Len(known.queue) < MaxRequests
  /\ Unsaved([known EXCEPT !.queue = Append(@, [id |-> known.xdccs[n].id, asked |-> known.xdccs[n].id])])
  /\ UNCHANGED <<disk, left>>
Served(k) ==
  /\ Running /\ known' = [known EXCEPT !.queue = Drop(@, k)]
  /\ UNCHANGED <<disk, saved, up, left, blind, fresh>>
-----------------------------------------------------------------------------
(* The disk and the process *)

\* Files change, come, go and are moved while the program runs or is down.
Touched(c, m) == IF m.md5build.of = c THEN [m EXCEPT !.md5build.of = Mixed] ELSE m
DiskStep == work < MaxWork /\ work' = work + 1 /\ UNCHANGED <<saved, up, left, blind, fresh>>
Modify(f) ==
  /\ DiskStep /\ disk[f] % 2 = 1
  /\ disk' = [g \in Path |-> IF disk[g] = disk[f] THEN disk[f] + 1 ELSE disk[g]]
  /\ known' = Touched(disk[f], known)
Appear(f) ==
  /\ DiskStep /\ UNCHANGED known
  /\ \E k \in 1..Inodes :
       /\ k \notin {Inode(disk[g]) : g \in Path}
       \* a new file is none that the program or its state file has seen already
       /\ k \notin {Inode(p.seen) : p \in Elems(known.xdccs) \cup Elems(saved.packs)}
       /\ disk' = [disk EXCEPT ![f] = 2 * k - 1]
Delete(f) == DiskStep /\ disk[f] # 0 /\ disk' = [disk EXCEPT ![f] = 0] /\ UNCHANGED known
Move(f, g) ==
  /\ DiskStep /\ disk[f] # 0 /\ f # g /\ UNCHANGED known
  /\ disk' = [disk EXCEPT ![g] = disk[f], ![f] = 0]

Exit == up /\ up' = FALSE /\ work < MaxWork /\ work' = work + 1 /\ UNCHANGED <<known, disk, saved, left, blind, fresh>>

\* read_statefile: a sum is kept only for a file that is still the same, or that
\* cannot be accessed now.
Restored(p) ==
  LET c == disk[p.file]
  IN IF p.md5 = 0 THEN [p EXCEPT !.seen = c]
     ELSE IF c \in {0, p.seen} THEN p ELSE [p EXCEPT !.seen = c, !.md5 = 0]
\* The packs of the file, and the requests by their numbers.
read_statefile(s) ==
  LET list == [i \in DOMAIN s.packs |-> Restored(s.packs[i])]
      good == Keep(s.queue, {k \in DOMAIN s.queue : s.queue[k].num \in DOMAIN list})
  IN [xdccs |-> list, trig |-> Triggers(list), md5build |-> [id |-> 0, of |-> 0], delayed |-> <<>>, freed |-> {},
      queue |-> [k \in DOMAIN good |-> [id |-> list[good[k].num].id, asked |-> good[k].asked]]]

Start == ~up /\ up' = TRUE /\ known' = read_statefile(saved) /\ UNCHANGED <<disk, saved, left, blind, fresh, work>>
-----------------------------------------------------------------------------
PacksInit ==
  /\ disk = [f \in Path |-> IF f <= Inodes THEN 2 * f - 1 ELSE 0]
  /\ saved \in [packs : Started, queue : {<<>>}]
  /\ known = read_statefile(saved)
  /\ up = TRUE /\ left = {} /\ blind = {} /\ work = 0
  /\ fresh = 1 + Len(saved.packs)

\* Commands on groups and triggers, on the order and the numbers, on files.
GroupCommand ==
  \/ \E a \in Scopes, n, m \in Numbers, g \in 0..Groups : n <= m /\ MoveGroup(a, n, m, g)
  \/ \E a \in Scopes, g \in 1..Groups : RemoveGroup(a, g)
  \/ \E g, h \in 1..Groups : Regroup(g, h)
  \/ \E g \in 1..Groups : NewGroup(g) \/ \E d \in BOOLEAN : GroupDesc(g, d)
ListCommand ==
  \/ \E a \in Scopes, n, m \in Numbers :
       n <= m /\ (RemovePacks(a, n, m) \/ FileRemove(a, n, m) \/ DelTrigger(a, n, m))
  \/ \E a \in Scopes, n \in Numbers, on \in BOOLEAN : ChTrigger(a, n, on)
  \/ \E n, m, k \in Numbers : n <= m /\ Renumber(n, m, k)
  \/ \E by \in {"filename", "group"} : Sort(by)
  \/ \E f \in Path : Add(f)
FileCommand ==
  \/ \E a \in Scopes, n, m \in Numbers : n <= m /\ Md5(a, n, m)
  \/ \E a \in Scopes, n \in Numbers, f \in Path : ChFile(a, n, f) \/ MoveFile(a, n, f)
DirCommand ==
  \/ \E a \in Scopes : RemoveLost(a) \/ \E fs \in (SUBSET Path) \ {{}} : RemoveDir(a, fs)
  \/ \E new \in BOOLEAN, g \in 0..Groups : AddDir(new, g)

\* Users, the program's own work on files, what happens to files, crash and restart.
UserEvent == (\E n \in Numbers : Request(n)) \/ (\E k \in DOMAIN known.queue : Served(k))
Looking == \E n \in Numbers : Look(n)
FileWork == Looking \/ StartMd5 \/ complete_md5_hash \/ \E n \in Numbers : Garbled(n)
DirWork == AutoAdd \/ RunDelayed
DiskChange ==
  \/ \E f \in Path : Modify(f) \/ Appear(f) \/ Delete(f)
  \/ \E f, g \in Path : Move(f, g)
Restart == write_files \/ Exit \/ Start

PacksNext ==
  \/ GroupCommand \/ ListCommand \/ FileCommand \/ DirCommand
  \/ UserEvent \/ FileWork \/ DirWork \/ DiskChange \/ Restart
PacksSpec == PacksInit /\ [][PacksNext]_pkVars
-----------------------------------------------------------------------------
(* Properties *)

\* Every pack, job and reference is well-formed, and the checksum job is about a pack of
\* the list (mainloop asserts it), through every command and what happens to the files
\* meanwhile; but the name of a pack that MOVEFILE freed may be any, or none.
PacksTypeOK ==
  /\ known.xdccs \in Seq(Pack) /\ Len(known.xdccs) <= MaxPacks
  /\ known.delayed \in Seq(Job) /\ disk \in [Path -> 0..(2 * Inodes)]
  /\ up \in BOOLEAN /\ work \in 0..MaxWork
  /\ \A i, j \in DOMAIN known.xdccs : known.xdccs[i].id = known.xdccs[j].id => i = j
  /\ known.md5build.id \in IdsOf(known.xdccs) \cup {0}

\* A group has one description at most, on its first pack, whatever is added, removed,
\* sorted, renumbered or regrouped (README.modDinoex:1629: "After REGROUP you could
\* have 2 descriptions for one group" was a bug).
GroupDescFirst ==
  \A g \in 1..Groups : \A i \in InGroup(known.xdccs, g) :
    known.xdccs[i].desc => i = First(InGroup(known.xdccs, g))

\* While a group has packs no step takes its description, except GROUPDESC.
DescKept ==
  [][\A g \in 1..Groups :
       (up /\ HasDesc(known.xdccs, g) /\ InGroup(known'.xdccs, g) # {})
         => HasDesc(known'.xdccs, g) \/ GroupDesc(g, FALSE)]_pkVars

\* A trigger leads to a pack of the list that has it, but for those that were left
\* behind by FILEREMOVE or by a range that stopped at a foreign group.
TriggersLive ==
  up => \A id \in known.trig : id \in Triggers(known.xdccs) \cup left

\* A request leads to the pack it was made for, through removals, renumbering, sorting
\* and a restart from any file that was saved.
RequestKeepsPack ==
  \A e \in Elems(known.queue) : e.id = e.asked /\ e.id \in IdsOf(known.xdccs)

\* Numbers and names outlive every change of the list.
PacksKnown == TriggersLive /\ RequestKeepsPack

\* Once the program has seen a file as it is, the checksum it shows is the file's,
\* but where a sum begun before a change was seen survived the file's return.
Md5True ==
  \A p \in Elems(known.xdccs) :
    up /\ p.md5 # 0 /\ p.seen = disk[p.file] => p.md5 = disk[p.file] \/ p.id \in blind
=============================================================================
