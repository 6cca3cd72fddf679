------------------------------ MODULE Ignores -------------------------------
(***************************************************************************)
(* The ignore list: every message of a user fills a bucket, one drop leaks *)
(* out of each bucket every autoignore_threshold seconds, and a user whose *)
(* bucket is full is ignored until it is empty.  An administrator and the  *)
(* punishments of transfers fill a bucket at once.  src/dinoex_irc.c,      *)
(* src/iroffer_main.c, src/dinoex_admin.c; entries that ignore are saved   *)
(* at once and read back by a restart (src/iroffer_statefile.c).           *)
(*                                                                         *)
(* Time is counted in steps, of which Threshold make autoignore_threshold. *)
(* A save is atomic here; StateFile says why it may be.                    *)
(***************************************************************************)
EXTENDS Integers, Queues

CONSTANTS
  User,        \* masks of single users
  Wide,        \* a mask that covers them all
  Odd,         \* users whose mask does not match itself as a pattern: it has brackets
  Excluded,    \* users in autoignore_exclude
  Admin,       \* users who may log in by message
  Threshold, Rate,   \* autoignore_threshold, autoignore_rate
  Times,       \* how long administrators ignore, and punishslowusers
  Word32,      \* 2^32: a bucket is saved in 32 bits and read without a sign
  MaxClock, MaxEntries   \* bounds

ASSUME IgnoresAssumption ==
  Threshold \in Nat \ {0} /\ Rate \in Nat /\ Times \subseteq Nat /\ Word32 \in Nat \ {0}

Mask == User \cup {Wide}

VARIABLES
  list,        \* ignorelist: entries of a mask, its bucket and IGN_IGNORING
  dec,         \* lastignoredec
  clock,
  onDisk,      \* what the state file says: the entries, and when it was written
  running,
  promised     \* ghost: mask -> [from, to] announced for it; 0: nothing

igVars == <<list, dec, clock, onDisk, running, promised>>

Ignoring(l, m) == \E i \in DOMAIN l : l[i].mask = m /\ l[i].ignoring
IgnoresTypeOK ==
  /\ \A i \in DOMAIN list : list[i].mask \in Mask /\ list[i].bucket \in Int /\ list[i].ignoring \in BOOLEAN
  /\ dec <= clock /\ onDisk.at <= clock /\ running \in BOOLEAN
  /\ \A i \in DOMAIN onDisk.list : onDisk.list[i].ignoring

NoPromise == [from |-> 0, to |-> 0]
IgnoresInit ==
  /\ list = <<>> /\ dec = 0 /\ clock = 0 /\ onDisk = [list |-> <<>>, at |-> 0]
  /\ running = TRUE /\ promised = [m \in Mask |-> NoPromise]
-----------------------------------------------------------------------------
(* The list *)

\* fnmatch: the entry's mask is the pattern.
Matches(e, m) == e.mask = Wide \/ (e.mask = m /\ m \notin Odd)
Found(l, m) == \E i \in DOMAIN l : Matches(l[i], m)
Place(l, m) == First({i \in DOMAIN l : Matches(l[i], m)})
get_ignore(l, m) == IF Found(l, m) THEN l ELSE Append(l, [mask |-> m, bucket |-> 0, ignoring |-> FALSE])
Got(l, m) == IF Found(l, m) THEN Place(l, m) ELSE Len(l) + 1

\* write_statefile: who is not ignored is not written.
Written(l) ==
  LET kept == Keep(l, {i \in DOMAIN l : l[i].ignoring})
  IN [list |-> [i \in DOMAIN kept |-> [kept[i] EXCEPT !.bucket = @ % Word32]], at |-> clock]

\* It was announced that the mask of entry i is ignored for a time.  The leak runs on
\* its own clock, so that the first drop may leave at once.
Announce(m, for) ==
  promised' = [promised EXCEPT ![m] = [from |-> clock + for - 2 * Threshold, to |-> clock + for]]

\* check_ignore
Saved_Not(l) == onDisk   \* seeded defect: left to the next save
Saved(l) == Written(l)
check_ignore(m) ==
  LET l == get_ignore(list, m)
      i == Got(list, m)
      now == [l EXCEPT ![i].bucket = @ + 1]
      full == ~l[i].ignoring /\ now[i].bucket >= Rate
  IN /\ list' = IF full THEN [now EXCEPT ![i].ignoring = TRUE] ELSE now
     /\ IF full
          THEN /\ onDisk' = Saved(list')
               /\ Announce(l[i].mask, Threshold * (now[i].bucket + 1))
          ELSE /\ UNCHANGED onDisk
               /\ promised' = IF l[i].ignoring   \* "will increase duration"
                                THEN [promised EXCEPT ![l[i].mask].to = @ + Threshold]
                                ELSE promised

Message(m) ==
  /\ running
  /\ IF m \in Excluded THEN UNCHANGED <<list, onDisk, promised>> ELSE check_ignore(m)
  /\ Len(list') <= MaxEntries
  /\ UNCHANGED <<dec, clock, running>>

\* ADMIN: after check_ignore let it pass, reset_ignore.
AdminMessage(m) ==
  LET l == get_ignore(list, m)
      i == Got(list, m)
      passes == \/ m \in Excluded
                \/ ~l[i].ignoring /\ l[i].bucket + 1 < Rate
  IN /\ running /\ passes /\ m \in Admin
     /\ list' = [l EXCEPT ![i].bucket = 0] /\ Len(list') <= MaxEntries
     /\ UNCHANGED <<dec, clock, onDisk, running, promised>>
-----------------------------------------------------------------------------
(* Ignoring for a time *)

\* IGNORE, punishslowusers and ignore_duplicate_ip.  The time is rounded down.
Ignore(m, time) ==
  LET l == get_ignore(list, m)
      i == Got(list, m)
  IN /\ running
     /\ list' = [l EXCEPT ![i].ignoring = TRUE, ![i].bucket = time \div Threshold]
     /\ Len(list') <= MaxEntries
     /\ onDisk' = Written(list')
     /\ Announce(l[i].mask, time)
     /\ UNCHANGED <<dec, clock, running>>

\* UNIGNORE: the first entry of exactly this mask, watched or ignored.
Unignore(m) ==
  LET same == {i \in DOMAIN list : list[i].mask = m}
  IN /\ running /\ same # {}
     /\ list' = Drop(list, First(same))
     /\ onDisk' = Written(list')
     /\ promised' = [promised EXCEPT ![m] = NoPromise]
     /\ UNCHANGED <<dec, clock, running>>

\* The drop that leaves.  An entry goes, and stops ignoring, when its bucket is empty.
Leaked(l) == [i \in DOMAIN l |-> [l[i] EXCEPT !.bucket = @ - 1]]
Decay(l) == Keep(Leaked(l), {i \in DOMAIN l : l[i].bucket # 1})
Released(l) == {i \in DOMAIN l : l[i].ignoring /\ l[i].bucket = 1}
\* The list when it is written for the last entry that is released: the drops of the
\* entries behind are still to leave.
Halfway(l) ==
  [i \in DOMAIN l |-> IF \A j \in Released(l) : i > j THEN l[i]
                      ELSE [l[i] EXCEPT !.bucket = @ - 1, !.ignoring = @ /\ i \notin Released(l)]]

IgnoreSecond ==
  /\ clock < MaxClock /\ clock' = clock + 1
  /\ IF running /\ clock' > dec + Threshold
       THEN /\ dec' = dec + Threshold /\ list' = Decay(list)
            /\ onDisk' = IF Released(list) # {} THEN [Written(Halfway(list)) EXCEPT !.at = clock'] ELSE onDisk
       ELSE UNCHANGED <<dec, list, onDisk>>
  /\ UNCHANGED <<running, promised>>
-----------------------------------------------------------------------------
(* The state file *)

Save == running /\ onDisk' = Written(list) /\ UNCHANGED <<list, dec, clock, running, promised>>

Crash == running /\ running' = FALSE /\ list' = <<>> /\ UNCHANGED <<dec, clock, onDisk, promised>>

\* read_statefile: the buckets have leaked while the bot was down.
Restore ==
  /\ ~running /\ running' = TRUE /\ dec' = clock
  /\ list' = [i \in DOMAIN onDisk.list |->
                [onDisk.list[i] EXCEPT !.bucket = @ - (clock - onDisk.at) \div Threshold]]
  /\ UNCHANGED <<clock, onDisk, promised>>

IgnoresEvent ==
  \/ \E m \in User : Message(m) \/ AdminMessage(m)
  \/ \E m \in Mask : Unignore(m)
  \/ \E m \in Mask, time \in Times : Ignore(m, time)
  \/ Save \/ Crash
IgnoresNext == IgnoresEvent \/ IgnoreSecond \/ Restore
IgnoresSpec == IgnoresInit /\ [][IgnoresNext]_igVars
-----------------------------------------------------------------------------
(* Properties *)

\* Whoever was told to be ignored for a time is ignored that long (but for the two
\* drops that may leave early), through a crash too, unless an administrator ends it.
IgnoreKept == running => \A m \in Mask : clock < promised[m].from => Ignoring(list, m)

\* ... and no longer: "Ignore activated for %s which will last %u min".  The leak
\* may be late by a drop, and another one is lost in a restart.
IgnoreInTime ==
  running => \A m \in Mask : Ignoring(list, m) => clock <= promised[m].to + 3 * Threshold
=============================================================================
