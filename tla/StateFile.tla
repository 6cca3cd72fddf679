----------------------------- MODULE StateFile ------------------------------
(***************************************************************************)
(* The state file of src/iroffer_statefile.c.  write_statefile writes      *)
(* "state.tmp", makes the present file the backup "state~" and renames;    *)
(* backup_statefile gives the present file a dated name, before the        *)
(* counters are cleared and when another version of the program wrote it.  *)
(* Every system call is a step: any may fail where the code goes on, and   *)
(* the program may be killed between any two.                              *)
(*                                                                         *)
(* Kills are of the process: the kernel finishes what it was told.  (The   *)
(* code calls no fsync, so after a power failure all depends on the file   *)
(* system.)  Two dated copies never get the same name.                     *)
(***************************************************************************)
EXTENDS Integers, FiniteSets

CONSTANTS
  MaxChanges,   \* bound: changes of the state, kills and failures
  Versions      \* of the program

ASSUME StateFileAssumption == MaxChanges \in Nat \ {0}

VARIABLES
  mem,        \* what the program knows: the number of the change, 0: nothing
  pc,         \* where the program is
  dir,        \* the files cur, bak ("~") and tmp
  dated,      \* the dated copies
  version,    \* the program's
  readable,   \* open and read work on the state file
  changes, kills, failures

sfVars == <<mem, pc, dir, dated, version, readable, changes, kills, failures>>

File == [kind : {"none", "empty", "partial", "whole"}, data : 0..MaxChanges, by : {0} \cup Versions]
None == [kind |-> "none", data |-> 0, by |-> 0]
Empty == [None EXCEPT !.kind = "empty"]
Partial == [None EXCEPT !.kind = "partial"]
Whole(f) == f.kind = "whole"

StateFileTypeOK ==
  /\ mem \in 0..MaxChanges /\ version \in Versions /\ readable \in BOOLEAN
  /\ pc \in {"down", "start", "ready", "upgrade", "clear", "open", "write", "unlink", "link", "rename"}
  /\ dir \in [{"cur", "bak", "tmp"} -> File] /\ dated \subseteq File

\* There is no file yet, or one that an earlier run has left.
StateFileInit ==
  /\ changes \in {0, 1} /\ version \in Versions
  /\ dir \in {[cur |-> f, bak |-> None, tmp |-> None] : f \in
       IF changes = 0 THEN {None} ELSE [kind : {"whole"}, data : {1}, by : Versions]}
  /\ mem = 0 /\ pc = "down" /\ dated = {} /\ readable = TRUE /\ kills = 0 /\ failures = 0

OnDisk(d) == /\ dir' = d /\ UNCHANGED <<dated, version, readable, changes, kills>>
Goto(label) == pc' = label
Works == UNCHANGED failures
CallFails == failures < MaxChanges /\ failures' = failures + 1
-----------------------------------------------------------------------------
(* write_statefile *)

Open_InPlace ==   \* seeded defect: the state file is written in its place
  pc = "open" /\ UNCHANGED mem /\ Works /\ OnDisk([dir EXCEPT !.cur = Empty]) /\ Goto("write")
Open ==
  /\ pc = "open" /\ UNCHANGED mem
  /\ \/ Works /\ OnDisk([dir EXCEPT !.tmp = Empty]) /\ Goto("write")
     \/ CallFails /\ OnDisk(dir) /\ Goto("ready")

\* A write that falls short makes the whole save fail.
Write(short) == IF short THEN "ready" ELSE "unlink"
WriteItems ==
  /\ pc = "write" /\ UNCHANGED mem
  /\ \/ /\ Works /\ Goto(Write(FALSE))
        /\ OnDisk([dir EXCEPT !.tmp = [kind |-> "whole", data |-> mem, by |-> version]])
     \/ CallFails /\ OnDisk([dir EXCEPT !.tmp = Partial]) /\ Goto(Write(TRUE))

Unlink ==
  /\ pc = "unlink" /\ UNCHANGED mem /\ Goto("link")
  /\ \/ Works /\ OnDisk([dir EXCEPT !.bak = None])
     \/ CallFails /\ OnDisk(dir)

\* link fails by itself when there is no file, or still a backup.
Link ==
  /\ pc = "link" /\ UNCHANGED mem /\ Goto("rename")
  /\ \/ Works /\ OnDisk(IF dir.bak = None THEN [dir EXCEPT !.bak = dir.cur] ELSE dir)
     \/ CallFails /\ OnDisk(dir)

Rename ==
  /\ pc = "rename" /\ UNCHANGED mem /\ Goto("ready")
  /\ \/ Works /\ OnDisk([dir EXCEPT !.cur = dir.tmp, !.tmp = None])
     \/ CallFails /\ OnDisk(dir)
-----------------------------------------------------------------------------
(* The program *)

\* Commands, transfers and jobs change the state, and many of them save it.
ChangeState ==
  /\ pc = "ready" /\ changes < MaxChanges
  /\ mem' = changes + 1 /\ changes' = changes + 1
  /\ UNCHANGED <<pc, dir, dated, version, readable, kills, failures>>
SaveState == pc = "ready" /\ Goto("open") /\ UNCHANGED mem /\ Works /\ OnDisk(dir)

backup_statefile ==
  /\ \/ /\ dir.cur # None /\ Works
        /\ dir' = [dir EXCEPT !.cur = None] /\ dated' = dated \cup {dir.cur}
     \/ /\ (IF dir.cur = None THEN Works ELSE CallFails)
        /\ UNCHANGED <<dir, dated>>
  /\ UNCHANGED <<version, readable, changes, kills>>

\* CLEARRECORDS, CLEARGETS
Clear_Backup == pc = "ready" /\ changes < MaxChanges /\ backup_statefile /\ Goto("clear") /\ UNCHANGED mem
Clear ==
  /\ pc = "clear" /\ Goto("open") /\ mem' = changes + 1 /\ changes' = changes + 1
  /\ UNCHANGED <<dir, dated, version, readable, kills, failures>>

\* read_statefile; open creates the file, a file too small is replaced, a corrupt
\* one stops the program.  After a failed read, not after a failed open, nothing is
\* saved at once.
Read ==
  /\ pc = "start" /\ Works
  /\ mem' = IF readable /\ Whole(dir.cur) THEN dir.cur.data ELSE 0
  /\ OnDisk(IF readable /\ dir.cur = None THEN [dir EXCEPT !.cur = Empty] ELSE dir)
  /\ \/ Goto(CASE dir.cur.kind \in {"none", "empty"} \/ ~readable -> "open"
               [] readable /\ dir.cur.kind = "partial" -> "down"
               [] readable /\ dir.cur.kind = "whole" /\ dir.cur.by # version -> "upgrade"
               [] OTHER -> "ready")
     \/ ~readable /\ dir.cur.kind \in {"partial", "whole"} /\ Goto("ready")
Upgrade_Backup == pc = "upgrade" /\ backup_statefile /\ Goto("open") /\ UNCHANGED mem

Boot == pc = "down" /\ Goto("start") /\ UNCHANGED mem /\ Works /\ OnDisk(dir)
\* Another program or other rights may be in place at the next start.
Replaced ==
  /\ pc = "down" /\ version' \in Versions /\ readable' \in BOOLEAN
  /\ UNCHANGED <<mem, pc, dir, dated, changes, kills, failures>>
Killed ==
  /\ pc \notin {"down", "start"} /\ kills < MaxChanges /\ kills' = kills + 1
  /\ Goto("down") /\ mem' = 0
  /\ UNCHANGED <<dir, dated, version, readable, changes, failures>>

StateFileNext ==
  \/ Open \/ WriteItems \/ Unlink \/ Link \/ Rename
  \/ ChangeState \/ SaveState \/ Clear_Backup \/ Clear
  \/ Read \/ Upgrade_Backup \/ Boot \/ Replaced \/ Killed
StateFileSpec == StateFileInit /\ [][StateFileNext]_sfVars
-----------------------------------------------------------------------------
(* What the file holds, as a promise *)
Store == INSTANCE DurableStore WITH
  State <- 0..MaxChanges, Nothing <- 0,
  up <- pc \notin {"down", "start"},
  stored <- IF Whole(dir.cur) THEN dir.cur.data ELSE 0,
  kept <- {f.data : f \in {g \in dated : Whole(g)}}

\* However the program is stopped and whichever call fails, a start finds exactly
\* what was last saved, unless it was set aside, and no copy set aside is lost.
Durable == Store!StoreSpec
=============================================================================
