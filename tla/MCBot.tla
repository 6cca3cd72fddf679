------------------------------- MODULE MCBot -------------------------------
(* Small instances of Packs, StateItems, StateFile, Ignores, Incoming,       *)
(* Access, Http, Acks, LinkedList and BufferedOutput.  The parts are far from *)
(* one another: a behaviour of MCSpec keeps to one subject, so that it can   *)
(* be longer than one that mixes them.                                       *)
EXTENDS Packs, StateItems, Ignores, Incoming, Access, Http, Acks, StateFile, BufferedOutput, LinkedList

VARIABLES subject, events   \* events: of the subject, so far
-----------------------------------------------------------------------------
P(i, g, d, t) == [id |-> i, file |-> i, seen |-> 2 * i - 1, group |-> g, desc |-> d, trigger |-> t,
                  md5 |-> 2 * i - 1]

\* Two packs of a group and one of another or of none, or one pack; some have no sum.
Lists ==
  {<<[P(1, 2, TRUE, TRUE) EXCEPT !.md5 = 0]>>,
   <<P(1, 2, TRUE, TRUE), P(2, 2, FALSE, FALSE), P(3, 1, TRUE, TRUE)>>,
   <<[P(1, 0, FALSE, TRUE) EXCEPT !.md5 = 0], P(2, 2, TRUE, FALSE)>>}

\* How many commands and changes of the disk a behaviour of each subject has.
Limit == [groups |-> MaxWork, numbers |-> MaxWork, sums |-> MaxWork - 1, jobs |-> MaxWork - 1]
FewPacks ==
  /\ PacksInit
  /\ subject = "sums" => Len(saved.packs) = 2
  /\ subject \notin {"groups", "numbers", "sums"} => Len(saved.packs) = 1
PacksStep ==
  /\ UNCHANGED events
  /\ \/ subject = "groups" /\ (GroupCommand \/ (work < Limit.groups - 1 /\ ListCommand))
     \/ subject = "numbers" /\ (ListCommand \/ UserEvent \/ Restart)
     \/ subject = "sums" /\ (FileCommand \/ FileWork \/ (work < Limit.sums - 1 /\ DiskChange /\ UNCHANGED disk[3]) \/ Restart)
     \/ subject = "jobs" /\ (UserEvent \/ DirCommand \/ DirWork \/ Looking \/ StartMd5 \/ DiskChange)
  /\ work' <= Limit[subject]
  \* a freed name takes many values: while there is one the last command is not given
  /\ known'.freed # {} => work' < Limit[subject]
-----------------------------------------------------------------------------
\* An IPv6 address is counted by its first half.
HalfOf == [a \in Address |-> IF a = "v4" THEN a ELSE "64"]

\* What the lists are sorted by: a and c are equal.
RankOf == [i \in Item |-> IF i = "b" THEN 2 ELSE 1]

\* The least and the greatest speed a pack has, the idle queue, networks, old format.
Configurations ==
  {[mins |-> 1, maxs |-> 0, idle |-> 0, nets |-> 2, old |-> FALSE],
   [mins |-> 1, maxs |-> 0, idle |-> 1, nets |-> 2, old |-> TRUE],
   [mins |-> 2, maxs |-> 1, idle |-> 1, nets |-> 1, old |-> FALSE]}

\* An upload that a GET led to, with a GET and a FETCH that wait for it: a state of
\* Incoming after five events.
Busy ==
  /\ uploads = <<[nick |-> "n1", file |-> "f1", port |-> 1, resumed |-> FALSE, status |-> "CONNECTING"]>>
  /\ gets = <<[nick |-> "n1", state |-> "RUNNING"], [nick |-> "n2", state |-> "WAITING"]>>
  /\ fetches = <<>> /\ later = <<"f2">> /\ files = [f \in {"f1", "f2"} |-> IF f = "f1" THEN "part" ELSE "none"]

services == <<httpVars, heap, boutVars, itemVars, ackVars>>
allVars == <<pkVars, subject, events, sfVars, igVars, inVars, acVars, services>>

AtMost(bound) == events' = events + 1 /\ events' <= bound
MCInit ==
  /\ subject \in (DOMAIN Limit) \cup {"statefile", "ignores", "incoming", "access", "http", "lists", "output", "items", "acks"}
  /\ events = 0
  /\ FewPacks /\ StateFileInit /\ IgnoresInit /\ AccessInit
  /\ ItemsInit /\ (subject # "items" => settings.mins = 1 /\ settings.old)
  /\ AcksInit /\ (subject # "acks" => download.size = 3 /\ download.start = 0)
  /\ HttpInit /\ HeapInit /\ BoutInit /\ (subject # "http" => size = 0)
  /\ (IncomingInit \/ (subject = "incoming" /\ Busy))
  /\ subject # "statefile" => version = 1 /\ changes = 0
  /\ subject # "incoming" => files = [f \in {"f1", "f2"} |-> "none"]
MCNext ==
  /\ UNCHANGED subject
  /\ \/ PacksStep /\ UNCHANGED <<sfVars, igVars, inVars, acVars, services>>
     \/ /\ subject = "statefile" /\ StateFileNext /\ kills' + failures' <= 2
        /\ UNCHANGED <<pkVars, events, igVars, inVars, acVars, services>>
     \/ /\ subject = "ignores"
        /\ \/ IgnoresEvent /\ AtMost(3)
           \/ (IgnoreSecond \/ Restore) /\ UNCHANGED events
        /\ UNCHANGED <<pkVars, sfVars, inVars, acVars, services>>
     \/ /\ subject = "incoming" /\ IncomingNext /\ AtMost(4)
        /\ UNCHANGED <<pkVars, sfVars, igVars, acVars, services>>
     \/ /\ subject = "access" /\ AccessNext /\ AtMost(9)
        /\ UNCHANGED <<pkVars, sfVars, igVars, inVars, services>>
     \/ /\ subject = "items" /\ ItemsNext
        /\ IF alive /\ alive' THEN AtMost(2) ELSE UNCHANGED events
        /\ UNCHANGED <<pkVars, sfVars, igVars, inVars, acVars, httpVars, heap, boutVars, ackVars>>
     \/ /\ \/ subject = "http" /\ HttpNext /\ UNCHANGED <<heap, boutVars, ackVars>>
           \/ subject = "lists" /\ HeapNext /\ UNCHANGED <<httpVars, boutVars, ackVars>>
           \/ subject = "output" /\ BoutNext /\ UNCHANGED <<httpVars, heap, ackVars>>
           \/ subject = "acks" /\ AcksNext /\ UNCHANGED <<httpVars, heap, boutVars>>
        /\ UNCHANGED <<pkVars, events, itemVars, sfVars, igVars, inVars, acVars>>
MCSpec == MCInit /\ [][MCNext]_allVars
-----------------------------------------------------------------------------
(* The properties of the parts, see there.  In the behaviours of another subject     *)
(* the variables of a part keep their first values.                                  *)

\* Each state and step is of its types.
AllTypesOK ==
  /\ subject \in DOMAIN Limit => PacksTypeOK
  /\ subject = "statefile" => StateFileTypeOK
  /\ subject = "ignores" => IgnoresTypeOK
  /\ subject = "incoming" => IncomingTypeOK
  /\ subject = "access" => AccessTypeOK
  /\ subject = "http" => HttpTypeOK
  /\ subject = "lists" => HeapTypeOK /\ Asserted
  /\ subject = "output" => BoutTypeOK /\ Counted
  /\ subject = "acks" => AcksTypeOK
  /\ subject = "items" => ItemsTypeOK
=============================================================================
