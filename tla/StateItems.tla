----------------------------- MODULE StateItems -----------------------------
(***************************************************************************)
(* What the state file keeps (src/dinoex_statefile.c and read_statefile in *)
(* src/iroffer_statefile.c): which fields of a pack are written, what the  *)
(* others become when it is read, perhaps with another configuration, and  *)
(* the queues.  How the file itself survives is StateFile's; groups,       *)
(* triggers and checksums are Packs's.                                     *)
(*                                                                         *)
(* A text is 0 when it is empty or missing, 1 the name of the pack's file  *)
(* and 2 anything else.                                                    *)
(***************************************************************************)
EXTENDS Integers, Queues

CONSTANTS
  Asker,       \* who waits for a pack
  Speed,       \* minspeed and maxspeed; 0: none
  Conf,        \* configurations: mins, maxs, idle (idlequeuesize), nets (networks_online), old
  Two32,       \* 2^32
  Amount,      \* that CHGETS and CHLIMIT are given
  Bytes,       \* that a download may have sent
  MaxGets,     \* bound: downloads of a pack
  MaxAsked     \* bound: requests that wait

VARIABLES
  alive,
  memory,      \* packs; main and idle, the queues; used, of a transfer limit
  settings,    \* the configuration
  items,       \* the items of the state file
  wasSaved     \* ghost: memory and settings when it was written

itemVars == <<alive, memory, settings, items, wasSaved>>

ASSUME ItemsAssumption ==
  /\ Conf \subseteq [mins : Speed, maxs : Speed, idle : Nat, nets : Nat, old : BOOLEAN]
  /\ Two32 \in Nat /\ Two32 > 0 /\ Amount \subseteq Nat /\ Bytes \subseteq Nat

Text == 0..2
PackItems == [FILE : Nat, DESC : Text, NOTE : Text, GETS : Nat, MINSPEED : Speed, MAXSPEED : Speed,
         LOCK : Text, DLIMIT_MAX : Nat, DLIMIT_USED : Nat, DLIMIT_DESC : Text, XTIME : 0..1, COLOR : 0..1]
QueueItem == [file : Nat, nick : Asker, net : Nat]
ItemsTypeOK ==
  /\ alive \in BOOLEAN /\ settings \in Conf /\ memory.used \in 0..(Two32 * Two32 - 1)
  /\ memory.packs \in Seq(PackItems) /\ \A i \in DOMAIN memory.packs : memory.packs[i].DESC # 0 \/ alive
  /\ memory.main \in Seq(QueueItem) /\ memory.idle \in Seq(QueueItem)
-----------------------------------------------------------------------------
(* Writing *)

ItemOf(p, tag) == <<[tag |-> tag, val |-> p[tag]]>>
When(cond, p, tag) == IF cond THEN ItemOf(p, tag) ELSE <<>>
write_statefile_xdccs(p, c) ==
  ItemOf(p, "FILE") \o When(c.old \/ p.DESC # 1, p, "DESC") \o When(c.old \/ p.NOTE # 0, p, "NOTE")
  \o ItemOf(p, "GETS")
  \o When(p.MINSPEED \notin {0, c.mins}, p, "MINSPEED") \o When(p.MAXSPEED \notin {0, c.maxs}, p, "MAXSPEED")
  \o When(p.LOCK # 0, p, "LOCK")
  \o When(p.DLIMIT_MAX # 0, p, "DLIMIT_MAX") \o When(p.DLIMIT_MAX # 0, p, "DLIMIT_USED")
  \o When(p.DLIMIT_DESC # 0, p, "DLIMIT_DESC")
  \o When(p.XTIME # 0, p, "XTIME") \o When(p.COLOR # 0, p, "COLOR")

NumberOf(m, f) == CHOOSE i \in DOMAIN m.packs : m.packs[i].FILE = f
write_statefile_queue(m, list) ==
  [k \in DOMAIN list |-> [pack |-> NumberOf(m, list[k].file), nick |-> list[k].nick, net |-> list[k].net]]
fix_uint64(v) == <<v \div Two32, v % Two32>>

write_statefile_dinoex(m, c) ==
  [packs |-> [i \in DOMAIN m.packs |-> write_statefile_xdccs(m.packs[i], c)],
   used |-> fix_uint64(m.used),
   queue |-> write_statefile_queue(m, m.main) \o write_statefile_queue(m, m.idle)]
-----------------------------------------------------------------------------
(* Reading *)

Blank(c) ==
  [FILE |-> 0, DESC |-> 0, NOTE |-> 0, GETS |-> 0, MINSPEED |-> c.mins, MAXSPEED |-> c.maxs, LOCK |-> 0,
   DLIMIT_MAX |-> 0, DLIMIT_USED |-> 0, DLIMIT_DESC |-> 0, XTIME |-> 0, COLOR |-> 0]
ReadItem_Early(p, i) ==   \* seeded defect: the file's name is no description
  IF i.tag \in {"MINSPEED", "MAXSPEED"} /\ i.val = 0 THEN p ELSE [p EXCEPT ![i.tag] = i.val]
ReadItem(p, i) ==
  CASE i.tag = "FILE" -> [p EXCEPT !.FILE = i.val, !.DESC = 1]
    [] i.tag \in {"MINSPEED", "MAXSPEED"} /\ i.val = 0 -> p
    [] OTHER -> [p EXCEPT ![i.tag] = i.val]

ReadPack(p, list) ==
  LET read[k \in 0..Len(list)] == IF k = 0 THEN p ELSE ReadItem(read[k - 1], list[k])
  IN read[Len(list)]

\* A pack that is not complete is left out: those after it get other numbers.
Complete(p) == p.FILE # 0 /\ p.DESC # 0
ReadPacks(c) ==
  LET list == [i \in DOMAIN items.packs |-> ReadPack(Blank(c), items.packs[i])]
  IN Keep(list, {i \in DOMAIN list : Complete(list[i])})
\* A network too many is let pass; one that is not there any more becomes the first.
read_statefile_queue(packs, c) ==
  LET known == Keep(items.queue, {k \in DOMAIN items.queue : items.queue[k].pack \in DOMAIN packs})
  IN [k \in DOMAIN known |-> [file |-> packs[known[k].pack].FILE, nick |-> known[k].nick,
                              net |-> IF known[k].net > c.nets THEN 0 ELSE known[k].net]]
\* start_main_queue, which goes on from here, is XdccQueue's.
RestoredItems(c) ==
  LET packs == ReadPacks(c)
      queue == read_statefile_queue(packs, c)
  IN [packs |-> packs, used |-> items.used[1] * Two32 + items.used[2],
      main |-> IF c.idle > 0 THEN <<>> ELSE queue, idle |-> IF c.idle > 0 THEN queue ELSE <<>>]
-----------------------------------------------------------------------------
(* The bot.  Each command on packs saves at once. *)

SavedItems(m) == items' = write_statefile_dinoex(m, settings) /\ wasSaved' = [mem |-> m, conf |-> settings]
WrittenItems(m) == alive /\ memory' = m /\ SavedItems(m) /\ UNCHANGED <<alive, settings>>
SetField(S, tag, v) ==
  WrittenItems([memory EXCEPT !.packs = [i \in DOMAIN @ |-> IF i \in S THEN [@[i] EXCEPT ![tag] = v] ELSE @[i]]])
Spans == {a..b : a, b \in DOMAIN memory.packs} \ {{}}

\* Without a text the description is the file's name, unless it is that already.
ChDesc(i) == \E d \in Text : (d = 1 => memory.packs[i].DESC # 1) /\ SetField({i}, "DESC", d)
ChNote(i) == \E t \in {0, 2} : SetField({i}, "NOTE", t)
ChTime(i) == \E t \in 0..1 : SetField({i}, "XTIME", t)
ChMins(S) == \E s \in Speed : SetField(S, "MINSPEED", s)
ChMaxs(S) == \E s \in Speed : SetField(S, "MAXSPEED", s)
Limited(p, max) ==
  [p EXCEPT !.DLIMIT_MAX = max, !.DLIMIT_USED = IF max = 0 THEN 0 ELSE p.GETS + max]
ChLimit(S) ==
  \E max \in Amount :
    WrittenItems([memory EXCEPT !.packs = [i \in DOMAIN @ |-> IF i \in S THEN Limited(@[i], max) ELSE @[i]]])
ChLimitInfo(i) == \E t \in {0, 2} : SetField({i}, "DLIMIT_DESC", t)
ChGets(S) == \E n \in Amount : SetField(S, "GETS", n)
ChColor(S) == \E c \in 0..1 : SetField(S, "COLOR", c)
Lock(S) == SetField(S, "LOCK", 2)
Unlock(S) == SetField(S, "LOCK", 0)
\* The packs of a group; the packs with the same password.
LockGroup(S) == Lock(S)
UnlockGroup(S) == Unlock(S)
Relock(S) == (\A i \in S : memory.packs[i].LOCK # 0) /\ Lock(S)
Command ==
  \/ \E i \in DOMAIN memory.packs : ChDesc(i) \/ ChNote(i) \/ ChTime(i) \/ ChLimitInfo(i)
  \/ \E S \in Spans : ChMins(S) \/ ChMaxs(S) \/ ChLimit(S) \/ ChGets(S) \/ ChColor(S) \/ Lock(S) \/ Unlock(S)
  \/ \E S \in SUBSET (DOMAIN memory.packs) : LockGroup(S) \/ UnlockGroup(S) \/ Relock(S)

Unwritten(m) == alive /\ memory' = m /\ UNCHANGED <<alive, settings, items, wasSaved>>
Queued(n, net, f) ==
  LET r == [file |-> f, nick |-> n, net |-> net]
  IN /\ net < settings.nets /\ Len(memory.main) + Len(memory.idle) < MaxAsked
     /\ \/ Unwritten([memory EXCEPT !.main = Append(@, r)])
        \/ settings.idle > 0 /\ Unwritten([memory EXCEPT !.idle = Append(@, r)])
\* A download ends: the pack and the limit count it.
Downloaded(i, bytes) ==
  /\ memory.packs[i].GETS < MaxGets /\ memory.used + bytes < Two32 * Two32
  /\ Unwritten([memory EXCEPT !.packs[i].GETS = @ + 1, !.used = @ + bytes])
reset_download_limits ==
  LET again(p) == IF p.DLIMIT_MAX = 0 THEN p ELSE Limited(p, p.DLIMIT_MAX)
  IN Unwritten([memory EXCEPT !.packs = [i \in DOMAIN @ |-> again(@[i])]])

SaveItems == WrittenItems(memory)   \* every hour, and for other reasons
\* REHASH: a speed that was the default follows the default.
Follows(s, old, new) == IF s = old THEN new ELSE s
RehashSpeeds(c) ==
  LET follow(p) == [p EXCEPT !.MINSPEED = Follows(@, settings.mins, c.mins), !.MAXSPEED = Follows(@, settings.maxs, c.maxs)]
  IN /\ alive /\ settings' = c /\ memory' = [memory EXCEPT !.packs = [i \in DOMAIN @ |-> follow(@[i])]]
     /\ UNCHANGED <<alive, items, wasSaved>>
Ends == alive /\ alive' = FALSE /\ memory' = [memory EXCEPT !.packs = <<>>, !.main = <<>>, !.idle = <<>>] /\ UNCHANGED settings
ItemsExit == Ends /\ SavedItems(memory)
ItemsCrash == Ends /\ UNCHANGED <<items, wasSaved>>
ItemsStart(c) == ~alive /\ alive' = TRUE /\ settings' = c /\ memory' = RestoredItems(c) /\ UNCHANGED <<items, wasSaved>>

ItemsInit ==
  /\ alive = TRUE /\ settings \in Conf
  /\ memory = [packs |-> [i \in 1..2 |-> [Blank(settings) EXCEPT !.FILE = i, !.DESC = 1]],
            main |-> <<>>, idle |-> <<>>, used |-> 0]
  /\ items = write_statefile_dinoex(memory, settings) /\ wasSaved = [mem |-> memory, conf |-> settings]
ItemsNext ==
  \/ Command
  \/ \E n \in Asker, net \in 0..1, i \in DOMAIN memory.packs : Queued(n, net, memory.packs[i].FILE)
  \/ \E i \in DOMAIN memory.packs, bytes \in Bytes : Downloaded(i, bytes)
  \/ reset_download_limits \/ SaveItems \/ ItemsExit \/ ItemsCrash
  \/ \E c \in Conf : RehashSpeeds(c) \/ ItemsStart(c)
ItemsSpec == ItemsInit /\ [][ItemsNext]_itemVars
-----------------------------------------------------------------------------
(* Properties *)

SpeedKept(s, old, t, new) == IF s = old THEN t = new ELSE s # 0 => t = s
SamePack(p, q) ==
  /\ \A f \in DOMAIN p \ {"MINSPEED", "MAXSPEED", "DLIMIT_USED"} : q[f] = p[f]
  /\ SpeedKept(p.MINSPEED, wasSaved.conf.mins, q.MINSPEED, settings'.mins)
  /\ SpeedKept(p.MAXSPEED, wasSaved.conf.maxs, q.MAXSPEED, settings'.maxs)
  /\ p.DLIMIT_MAX # 0 => q.DLIMIT_USED = p.DLIMIT_USED
Same(s, t, Alike(_, _)) == Len(s) = Len(t) /\ \A k \in DOMAIN s : Alike(s[k], t[k])
SameRequest(r, q) == q.file = r.file /\ q.nick = r.nick /\ (r.net < settings'.nets => q.net = r.net)

\* A start finds the packs, the requests in their order, and the use of the limits, as
\* they were saved, whatever has changed in the configuration: a speed that was the
\* default follows the default, as it does at REHASH.  Not so a speed of 0 that was
\* set against a default, nor anything once a pack has an empty description.
KeptAtStart ==
  alive' /\ (\A i \in DOMAIN wasSaved.mem.packs : wasSaved.mem.packs[i].DESC # 0) =>
    /\ memory'.used = wasSaved.mem.used
    /\ Same(wasSaved.mem.packs, memory'.packs, SamePack)
    /\ Same(wasSaved.mem.main \o wasSaved.mem.idle, memory'.main \o memory'.idle, SameRequest)
KeptOverStart == [][~alive => KeptAtStart]_itemVars
=============================================================================
