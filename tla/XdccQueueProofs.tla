-------------------------- MODULE XdccQueueProofs --------------------------
(***************************************************************************)
(* Theorems about the request queues, for every number of users, networks, *)
(* packs, slots and queue sizes.                                           *)
(*                                                                         *)
(*   TypeCorrect             the type invariant, of Spec                   *)
(*   QuietInvariant          SlotLimit and PersonLimit, of QuietSpec       *)
(*   ServedInvariant         OverLimitDrained, RemovedPackUnused and       *)
(*                           LimitedPackNotQueued, of Spec                 *)
(*   HoldFreezesHolds        the action property HoldFreezes, of QuietSpec *)
(*   QueuedOnceHolds         QueuedOnce, of Spec                           *)
(*   QueueBoundsHold         QueueBounds, of QuietSpec                     *)
(***************************************************************************)
EXTENDS XdccQueue, QueuesTheorems

-----------------------------------------------------------------------------
(* TypeOK *)

\* A call of a queue function is a frame.
LEMMA CallType ==
  ASSUME NEW fn \in Fn, NEW n \in Nat, NEW last \in Nick \cup {NoNick}
  PROVE  /\ Call(fn, n, last) \in Frame
         /\ <<Call(fn, n, last)>> \in Seq(Frame)
<1>1. Call(fn, n, last) \in Frame
  BY DEF Call, Frame
<1> QED BY <1>1

\* What TypeOK says of single entries and transfers.
LEMMA Elements ==
  ASSUME TypeOK
  PROVE  /\ \A i \in DOMAIN trans :
              /\ trans[i] \in Transfer /\ trans[i].nick \in Nick
              /\ trans[i].net \in Net /\ trans[i].pack \in Pack
         /\ \A i \in DOMAIN mainqueue : mainqueue[i] \in Entry
         /\ \A i \in DOMAIN idlequeue : idlequeue[i] \in Entry
<1>1. \A i \in DOMAIN trans : trans[i] \in Transfer
  BY DEF TypeOK
<1>2. \A t \in Transfer : t.nick \in Nick /\ t.net \in Net /\ t.pack \in Pack
  BY DEF Transfer
<1> QED BY <1>1, <1>2 DEF TypeOK

\* t_closeconn changes no other field than done, and keeps the list of transfers.
LEMMA ClosedType ==
  ASSUME trans \in Seq(Transfer), NEW S
  PROVE  /\ Closed(S) \in Seq(Transfer)
         /\ Len(Closed(S)) = Len(trans)
         /\ \A i \in 1..Len(trans) :
              Closed(S)[i] = IF i \in S THEN [trans[i] EXCEPT !.done = TRUE] ELSE trans[i]
<1>1. DOMAIN trans = 1..Len(trans) /\ Len(trans) \in Nat
  OBVIOUS
<1>2. \A i \in 1..Len(trans) : trans[i] \in Transfer
  OBVIOUS
<1>3. \A t \in Transfer : [t EXCEPT !.done = TRUE] \in Transfer
  BY DEF Transfer
<1>4. Closed(S) \in [1..Len(trans) -> Transfer]
  BY <1>1, <1>2, <1>3 DEF Closed
<1>5. Closed(S) \in Seq(Transfer) /\ Len(Closed(S)) = Len(trans)
  BY <1>1, <1>4
<1> QED BY <1>1, <1>5 DEF Closed

\* A started transfer is one more in the list.
LEMMA StartTransferType ==
  ASSUME trans \in Seq(Transfer), NEW e \in Entry, StartTransfer(e)
  PROVE  trans' \in Seq(Transfer) /\ Len(trans') = Len(trans) + 1
<1>1. PICK changed \in BOOLEAN, failed \in BOOLEAN :
        trans' = Append(IF changed THEN Closed(TransferOfPack(e.pack)) ELSE trans,
                        [nick |-> e.nick, host |-> e.host, net |-> e.net,
                         pack |-> e.pack, done |-> failed])
  BY DEF StartTransfer
<1>2. [nick |-> e.nick, host |-> e.host, net |-> e.net,
       pack |-> e.pack, done |-> failed] \in Transfer
  BY DEF Entry, Transfer
<1>3. /\ Closed(TransferOfPack(e.pack)) \in Seq(Transfer)
      /\ Len(Closed(TransferOfPack(e.pack))) = Len(trans)
  BY ClosedType
<1> QED BY <1>1, <1>2, <1>3

\* The punishments and removals leave lists of entries.
LEMMA PurgeQueuesType ==
  ASSUME TypeOK, NEW Out, PurgeQueues(Out)
  PROVE  mainqueue' \in Seq(Entry) /\ idlequeue' \in Seq(Entry)
BY PurgeType DEF TypeOK, PurgeQueues

\* Replacing the running call by frames leaves a stack of frames.
LEMMA ReturnType ==
  ASSUME TypeOK, calls # <<>>
  PROVE  /\ Return(<<>>) => calls' \in Seq(Frame)
         /\ \A next \in Seq(Frame) : Return(next) => calls' \in Seq(Frame)
<1>1. calls \in Seq(Frame) /\ Tail(calls) \in Seq(Frame) /\ <<>> \in Seq(Frame)
  BY HeadTailProperties, EmptySeq DEF TypeOK
<1>2. \A next \in Seq(Frame) : next \o Tail(calls) \in Seq(Frame)
  BY <1>1, ConcatProperties
<1> QED BY <1>1, <1>2 DEF Return

\* The running call and its arguments.
LEMMA TopFrame ==
  ASSUME TypeOK, calls # <<>>
  PROVE  /\ calls[1] \in Frame /\ Arg \in Nat
         /\ calls[1].last \in Nick \cup {NoNick}
         /\ LastNick \in Nick \cup {NoNick}
<1>1. calls[1] \in Frame
  BY DEF TypeOK
<1> QED BY <1>1 DEF Frame, Arg, LastNick

\* start_sends pushes frames.
LEMMA StartSendsType ==
  ASSUME TypeOK
  PROVE  StartSends \in Seq(Frame)
<1>1. slotsmax \in Nat
  BY ConfigAssumption DEF TypeOK
<1>2. Call("start_one_send", 0, NoNick) \in Frame
  BY CallType DEF Fn
<1> QED BY <1>1, <1>2 DEF StartSends

\* So does check_main_queue.
LEMMA IfMainQueueReadyType ==
  ASSUME NEW max \in Nat, NEW last \in Nick \cup {NoNick}
  PROVE  IfMainQueueReady(max, last) \in Seq(Frame)
<1>1. Call("check_idle_queue", 0, NoNick) \in Frame /\ Call("main_ready", max, last) \in Frame
  BY CallType DEF Fn
<1> QED BY <1>1 DEF IfMainQueueReady

\* The searches of send_from_queue and check_idle_queue return positions of the
\* queue they search.
LEMMA ChoiceType ==
  ASSUME TypeOK
  PROVE  /\ SendChoice # {} => First(SendChoice) \in DOMAIN mainqueue
         /\ IdleChoice # {} => First(IdleChoice) \in DOMAIN idlequeue
<1>1. DOMAIN mainqueue \subseteq Nat /\ DOMAIN idlequeue \subseteq Nat
  BY DEF TypeOK
<1>2. SendChoice \subseteq DOMAIN mainqueue
  BY DEF SendChoice
<1>3. IdleChoice \subseteq DOMAIN idlequeue
  BY DEF IdleChoice
<1> QED BY <1>1, <1>2, <1>3, FirstType

\* The end of a transfer keeps the types.
LEMMA EndTransferType ==
  ASSUME TypeOK, NEW i \in DOMAIN trans, NEW complete \in BOOLEAN,
         EndTransfer(i, complete)
  PROVE  /\ mainqueue' \in Seq(Entry) /\ idlequeue' \in Seq(Entry)
         /\ trans' \in Seq(Transfer) /\ today' \in [Pack -> Nat]
         /\ Len(trans') = Len(trans)
         /\ UNCHANGED <<packs, net, over, exiting>>
<1>1. trans[i].pack \in Pack
  BY Elements
<1>2. today[trans[i].pack] \in Nat
  BY <1>1 DEF TypeOK
<1>3. trans' = Closed({i})
  BY DEF EndTransfer
<1>4. trans' \in Seq(Transfer) /\ Len(trans') = Len(trans)
  BY <1>3, ClosedType DEF TypeOK
<1>5. today' \in [Pack -> Nat]
  BY <1>1, <1>2 DEF EndTransfer, TypeOK
<1>6. \E Out : PurgeQueues(Out)
  BY DEF EndTransfer
<1> QED BY <1>4, <1>5, <1>6, PurgeQueuesType DEF EndTransfer

\* The initial states have the types.
LEMMA InitTypeOK == Init => TypeOK
<1> SUFFICES ASSUME Init PROVE TypeOK
  OBVIOUS
<1>1. mainqueue \in Seq(Entry) /\ idlequeue \in Seq(Entry)
  BY RestoredAssumption DEF Init
<1>2. queuesize \in Nat /\ slotsmax \in 1..maxtrans
  BY ConfigAssumption DEF Init
<1>3. calls \in Seq(Frame)
  <2>1. Call("check_idle_queue", 0, NoNick) \in Frame
    BY CallType DEF Fn
  <2>2. calls = [i \in 1..queuesize |-> Call("check_idle_queue", 0, NoNick)]
    BY DEF Init
  <2> QED BY <1>2, <2>1, <2>2
<1>4. trans = <<>> /\ packs = Pack /\ today = [p \in Pack |-> 0]
      /\ net = [n \in Net |-> "down"] /\ holdqueue = FALSE /\ over = FALSE
      /\ exiting = FALSE
  BY DEF Init
<1>5. today \in [Pack -> Nat] /\ net \in [Net -> NetState] /\ packs \subseteq Pack
  BY <1>4 DEF NetState
<1>6. trans \in Seq(Transfer)
  BY <1>4
<1>7. holdqueue \in BOOLEAN /\ over \in BOOLEAN /\ exiting \in BOOLEAN
  BY <1>4
<1> QED BY <1>1, <1>2, <1>3, <1>5, <1>6, <1>7 DEF TypeOK

\* A pending call keeps the types: one step for each function.
LEMMA CallStepType == TypeOK /\ CallStep => TypeOK'
<1> SUFFICES ASSUME TypeOK, CallStep PROVE TypeOK'
  OBVIOUS
<1>1. CASE SendFromQueue_Send
  <2>1. <<Call("check_idle_queue", 0, NoNick)>> \in Seq(Frame)
    BY CallType DEF Fn
  <2>2. calls' \in Seq(Frame)
    BY <1>1, <2>1, ReturnType DEF SendFromQueue_Send, Running
  <2>3. First(SendChoice) \in DOMAIN mainqueue
    BY <1>1, ChoiceType DEF SendFromQueue_Send
  <2>4. mainqueue[First(SendChoice)] \in Entry /\ mainqueue' \in Seq(Entry)
    BY <1>1, <2>3, DropType DEF SendFromQueue_Send, TypeOK
  <2>5. trans' \in Seq(Transfer)
    BY <1>1, <2>4, StartTransferType DEF SendFromQueue_Send, TypeOK
  <2> QED BY <1>1, <2>2, <2>4, <2>5 DEF SendFromQueue_Send, TypeOK, config, status
<1>2. CASE SendFromQueue_Nobody
  <2>1. <<Call("send_from_queue", Arg, NoNick)>> \in Seq(Frame)
    BY <1>2, TopFrame, CallType DEF SendFromQueue_Nobody, Running, Fn
  <2>2. calls' \in Seq(Frame)
    BY <1>2, <2>1, ReturnType DEF SendFromQueue_Nobody, Running
  <2> QED BY <1>2, <2>2 DEF SendFromQueue_Nobody, TypeOK, queues, config, status
<1>3. CASE StartOneSend
  <2>1. <<Call("send_from_queue", 0, NoNick)>> \in Seq(Frame)
    BY CallType DEF Fn
  <2>2. calls' \in Seq(Frame)
    BY <1>3, <2>1, ReturnType DEF StartOneSend, Running
  <2> QED BY <1>3, <2>2 DEF StartOneSend, TypeOK, queues, config, status
<1>4. CASE CheckIdleQueue_Move
  <2>1. <<Call("start_one_send", 0, NoNick)>> \in Seq(Frame)
    BY CallType DEF Fn
  <2>2. calls' \in Seq(Frame)
    BY <1>4, <2>1, ReturnType DEF CheckIdleQueue_Move, Running
  <2>3. First(IdleChoice) \in DOMAIN idlequeue
    BY <1>4, ChoiceType DEF CheckIdleQueue_Move
  <2>4. mainqueue' \in Seq(Entry) /\ idlequeue' \in Seq(Entry)
    BY <1>4, <2>3, DropType DEF CheckIdleQueue_Move, TypeOK
  <2> QED BY <1>4, <2>2, <2>4 DEF CheckIdleQueue_Move, TypeOK, config, status
<1>5. CASE CheckIdleQueue_Nothing
  <2>1. calls' \in Seq(Frame)
    BY <1>5, ReturnType DEF CheckIdleQueue_Nothing, Running
  <2> QED BY <1>5, <2>1 DEF CheckIdleQueue_Nothing, TypeOK, queues, config, status
<1>6. CASE MainReady
  <2>1. <<Call("send_from_queue", 0, calls[1].last)>> \in Seq(Frame)
    BY <1>6, TopFrame, CallType DEF MainReady, Running, Fn
  <2>2. calls' \in Seq(Frame)
    BY <1>6, <2>1, ReturnType DEF MainReady, Running
  <2> QED BY <1>6, <2>2 DEF MainReady, TypeOK, queues, config, status
<1>7. CASE Perform_Visit
  <2>1. Arg \in Nat /\ calls # <<>>
    BY <1>7, TopFrame DEF Perform_Visit, Running
  <2>2. CASE \E complete \in BOOLEAN : EndTransfer(Arg, complete) /\ UNCHANGED <<config, calls>>
    BY <1>7, <2>2, EndTransferType DEF Perform_Visit, config, TypeOK
  <2>3. CASE Return(IF Arg < Len(trans) THEN <<Call("t_perform", Arg + 1, NoNick)>> ELSE <<>>)
             /\ UNCHANGED <<queues, trans, config, status>>
    <3>1. <<Call("t_perform", Arg + 1, NoNick)>> \in Seq(Frame)
      BY <2>1, CallType DEF Fn
    <3>2. calls' \in Seq(Frame)
      BY <2>1, <2>3, <3>1, ReturnType
    <3> QED BY <2>3, <3>2 DEF TypeOK, queues, config, status
  <2> QED BY <1>7, <2>2, <2>3 DEF Perform_Visit
<1>8. CASE Perform_Delete
  <2>1. Arg \in Nat /\ calls # <<>>
    BY <1>8, TopFrame DEF Perform_Delete, Running
  <2>2. trans[Arg].nick \in Nick /\ slotsmax \in Nat
    BY <1>8, Elements, ConfigAssumption DEF Perform_Delete, TypeOK
  <2>3. <<Call("t_perform", Arg, NoNick)>> \in Seq(Frame)
    BY <2>1, CallType DEF Fn
  <2>4. IfMainQueueReady(slotsmax, trans[Arg].nick) \in Seq(Frame)
    BY <2>2, IfMainQueueReadyType
  <2>5. calls' \in Seq(Frame)
    <3> DEFINE rest == IF Arg < Len(trans) THEN <<Call("t_perform", Arg, NoNick)>> ELSE <<>>
    <3>1. rest \in Seq(Frame)
      BY <2>3, EmptySeq
    <3>2. IfMainQueueReady(slotsmax, trans[Arg].nick) \o rest \in Seq(Frame)
      BY <2>4, <3>1, ConcatProperties
    <3>3. Return(IfMainQueueReady(slotsmax, trans[Arg].nick) \o rest)
      BY <1>8 DEF Perform_Delete
    <3> QED BY <2>1, <3>2, <3>3, ReturnType
  <2>6. trans' \in Seq(Transfer)
    BY <1>8, DropType DEF Perform_Delete, TypeOK
  <2> QED BY <1>8, <2>5, <2>6 DEF Perform_Delete, TypeOK, queues, config, status
<1> QED BY <1>1, <1>2, <1>3, <1>4, <1>5, <1>6, <1>7, <1>8 DEF CallStep

\* The users' requests keep the types.
LEMMA UserStepType == TypeOK /\ UserStep => TypeOK'
<1> SUFFICES ASSUME TypeOK, UserStep PROVE TypeOK'
  OBVIOUS
<1>1. ASSUME NEW v \in Visitors, NEW p \in Pack, Request(v, p) PROVE TypeOK'
  <2> DEFINE e == [nick |-> v.nick, host |-> v.host, net |-> v.net, pack |-> p]
  <2>1. e \in Entry
    BY ConfigAssumption DEF Entry
  <2>2. UNCHANGED <<config, status, calls>>
    BY <1>1 DEF Request
  <2>3. CASE AddToMainQueue(e) /\ UNCHANGED trans
    <3>1. Append(mainqueue, e) \in Seq(Entry) /\ Append(idlequeue, e) \in Seq(Entry)
      BY <2>1 DEF TypeOK
    <3>2. mainqueue' \in Seq(Entry) /\ idlequeue' \in Seq(Entry)
      <4> HIDE DEF e
      <4> QED BY <2>3, <3>1 DEF AddToMainQueue, TypeOK
    <3> QED BY <2>2, <2>3, <3>2 DEF TypeOK, config, status
  <2>4. CASE StartTransfer(e) /\ UNCHANGED queues
    <3>1. trans' \in Seq(Transfer)
      BY <2>1, <2>4, StartTransferType DEF TypeOK
    <3> QED BY <2>2, <2>4, <3>1 DEF TypeOK, queues, config, status
  <2> QED BY <1>1, <2>3, <2>4 DEF Request
<1>2. ASSUME NEW v \in Visitors, NEW ps, Remove(v, ps) PROVE TypeOK'
  <2>1. mainqueue' \in Seq(Entry) /\ idlequeue' \in Seq(Entry)
    BY <1>2, PurgeQueuesType DEF Remove
  <2> QED BY <1>2, <2>1 DEF Remove, TypeOK, config, status
<1>3. ASSUME NEW v \in Visitors, Cancel(v) PROVE TypeOK'
  BY <1>3, ClosedType DEF Cancel, TypeOK, queues, config, status
<1>4. ASSUME NEW i \in 1..Len(trans), PunishSlow(i) PROVE TypeOK'
  <2>1. mainqueue' \in Seq(Entry) /\ idlequeue' \in Seq(Entry)
    BY <1>4, PurgeQueuesType DEF PunishSlow
  <2>2. trans' \in Seq(Transfer)
    BY <1>4, ClosedType DEF PunishSlow, TypeOK
  <2> QED BY <1>4, <2>1, <2>2 DEF PunishSlow, TypeOK, config, status
<1>5. ASSUME NEW i \in 1..Len(trans), TransferEnds(i) PROVE TypeOK'
  <2>1. PICK complete \in BOOLEAN : EndTransfer(i, complete)
    BY <1>5 DEF TransferEnds
  <2>2. i \in DOMAIN trans /\ UNCHANGED <<config, calls>>
    BY <1>5 DEF TransferEnds
  <2> QED BY <2>1, <2>2, EndTransferType DEF TypeOK, config
<1>6. ASSUME NEW S, PunishDuplicateIp(S) PROVE TypeOK'
  <2>1. mainqueue' \in Seq(Entry) /\ idlequeue' \in Seq(Entry)
    BY <1>6, PurgeQueuesType DEF PunishDuplicateIp
  <2>2. trans' \in Seq(Transfer)
    BY <1>6, ClosedType DEF PunishDuplicateIp, TypeOK
  <2> QED BY <1>6, <2>1, <2>2 DEF PunishDuplicateIp, TypeOK, config, status
<1> QED BY <1>1, <1>2, <1>3, <1>4, <1>5, <1>6 DEF UserStep

\* Renaming a user keeps entries entries and transfers transfers.
LEMMA RenamedType ==
  ASSUME TypeOK, NEW S, NEW q \in Seq(S), NEW old, NEW new \in Nick,
         S = Entry \/ S = Transfer
  PROVE  [i \in DOMAIN q |-> [q[i] EXCEPT !.nick = IF @ = old THEN new ELSE @]] \in Seq(S)
<1>1. DOMAIN q = 1..Len(q) /\ Len(q) \in Nat /\ \A i \in 1..Len(q) : q[i] \in S
  OBVIOUS
<1>2. \A x \in S : [x EXCEPT !.nick = IF @ = old THEN new ELSE @] \in S
  BY DEF Entry, Transfer
<1> QED BY <1>1, <1>2

\* A nick change keeps the types.
LEMMA NickStepType == TypeOK /\ NickStep => TypeOK'
<1> SUFFICES ASSUME TypeOK, NEW old \in Nick, NEW new \in Nick, NickChange(old, new)
             PROVE  TypeOK'
  BY DEF NickStep
<1> DEFINE Renamed(q) == [i \in DOMAIN q |-> [q[i] EXCEPT !.nick = IF @ = old THEN new ELSE @]]
<1>1. /\ Renamed(mainqueue) \in Seq(Entry) /\ Renamed(idlequeue) \in Seq(Entry)
      /\ Renamed(trans) \in Seq(Transfer)
  BY RenamedType DEF TypeOK
<1>2. trans' \in Seq(Transfer) /\ idlequeue' \in Seq(Entry)
  BY <1>1 DEF NickChange
<1>3. \E K : mainqueue' = Keep(Renamed(mainqueue), DOMAIN Renamed(mainqueue) \ K)
  BY DEF NickChange
<1>4. mainqueue' \in Seq(Entry)
  <2> HIDE DEF Renamed
  <2>1. PICK K : mainqueue' = Keep(Renamed(mainqueue), DOMAIN Renamed(mainqueue) \ K)
    BY <1>3
  <2>2. DOMAIN Renamed(mainqueue) \ K \subseteq DOMAIN Renamed(mainqueue)
    OBVIOUS
  <2> QED BY <1>1, <2>1, <2>2, KeepType
<1>5. UNCHANGED <<config, status, calls>>
  BY DEF NickChange
<1> QED BY <1>2, <1>4, <1>5 DEF TypeOK, config, status

\* reverify_restrictsend keeps the types.
LEMMA DropGoneType ==
  ASSUME TypeOK, NEW gone, DropGone(gone)
  PROVE  /\ mainqueue' \in Seq(Entry) /\ idlequeue' \in Seq(Entry)
         /\ trans' \in Seq(Transfer)
<1>1. \E S, Out : trans' = Closed(S) /\ PurgeQueues(Out)
  BY DEF DropGone
<1>2. PICK S, Out : trans' = Closed(S) /\ PurgeQueues(Out)
  BY <1>1
<1> QED BY <1>2, ClosedType, PurgeQueuesType DEF TypeOK

\* The networks and the clock keep the types.
LEMMA ClockStepType == TypeOK /\ ClockStep => TypeOK'
<1> SUFFICES ASSUME TypeOK, ClockStep PROVE TypeOK'
  OBVIOUS
<1>1. ASSUME NEW n \in Net,
             NetDown(n) \/ NetConnect(n) \/ NetJoined(n) \/ NetSilent(n)
      PROVE  TypeOK'
  <2>1. net' \in [Net -> NetState]
    BY <1>1 DEF NetDown, NetConnect, NetJoined, NetSilent, NetState, TypeOK
  <2>2. calls' \in Seq(Frame)
    BY <1>1, StartSendsType DEF NetDown, NetConnect, NetJoined, NetSilent, TypeOK
  <2> QED BY <1>1, <2>1, <2>2
        DEF NetDown, NetConnect, NetJoined, NetSilent, TypeOK, queues, config
<1>2. CASE Reverify
  BY <1>2, DropGoneType DEF Reverify, TypeOK, config, status
<1>3. CASE SecondTick
  <2>1. <<Call("t_perform", 1, NoNick)>> \in Seq(Frame)
    BY CallType DEF Fn
  <2> QED BY <1>3, <2>1 DEF SecondTick, TypeOK, queues, config, status
<1>4. CASE Minute
  <2>1. <<Call("check_idle_queue", 0, NoNick)>> \in Seq(Frame)
    BY CallType DEF Fn
  <2> QED BY <1>4, <2>1, DropGoneType DEF Minute, TypeOK, config, status
<1>5. CASE ThreeMinutes
  <2>1. <<Call("start_one_send", 0, NoNick)>> \in Seq(Frame)
    BY CallType DEF Fn
  <2>2. IfMainQueueReady(maxtrans, NoNick) \in Seq(Frame)
    BY IfMainQueueReadyType, ConfigAssumption
  <2> QED BY <1>5, <2>1, <2>2 DEF ThreeMinutes, TypeOK, queues, config, status
<1>6. CASE TransferLimit
  <2>1. mainqueue' \in Seq(Entry) /\ idlequeue' \in Seq(Entry)
    BY <1>6, PurgeQueuesType DEF TransferLimit
  <2>2. trans' \in Seq(Transfer)
    BY <1>6, ClosedType DEF TransferLimit, TypeOK
  <2> QED BY <1>6, <2>1, <2>2 DEF TransferLimit, TypeOK, config
<1>7. CASE NewPeriod
  <2>1. [p \in Pack |-> 0] \in [Pack -> Nat]
    OBVIOUS
  <2>2. over' \in BOOLEAN /\ today' \in [Pack -> Nat]
    BY <1>7, <2>1 DEF NewPeriod, TypeOK
  <2> QED BY <1>7, <2>2 DEF NewPeriod, TypeOK, queues, config
<1> QED BY <1>1, <1>2, <1>3, <1>4, <1>5, <1>6, <1>7 DEF ClockStep

\* REQUEUE moves an entry: it neither adds nor invents one.
LEMMA MovedType ==
  ASSUME NEW S, NEW q \in Seq(S), NEW o \in DOMAIN q, NEW n \in DOMAIN q
  PROVE  Moved(q, o, n) \in Seq(S) /\ Elems(Moved(q, o, n)) \subseteq Elems(q)
<1> DEFINE d == Drop(q, o)
<1>1. /\ d \in Seq(S) /\ Len(d) = Len(q) - 1 /\ q[o] \in S
      /\ Elems(d) \subseteq Elems(q)
  BY DropType
<1>4. q[o] \in Elems(q)
  BY DEF Elems
<1>2. n \in 1..(Len(d) + 1)
  BY <1>1
<1> HIDE DEF d
<1>3. /\ InsertAt(d, n, q[o]) \in Seq(S)
      /\ Elems(InsertAt(d, n, q[o])) \subseteq Elems(d) \cup {q[o]}
  BY <1>1, <1>2, InsertElems
<1> QED BY <1>1, <1>3, <1>4 DEF Moved, d

\* The administrator's commands keep the types.
LEMMA AdminStepType == TypeOK /\ AdminStep => TypeOK'
<1> SUFFICES ASSUME TypeOK, AdminStep PROVE TypeOK'
  OBVIOUS
<1> DEFINE E == [nick : Nick, host : {Man}, net : Net, pack : Pack]
<1>0. E \subseteq Entry
  BY DEF Entry
<1>1. CASE Shutdown
  <2>1. trans' \in Seq(Transfer)
    BY <1>1, ClosedType DEF Shutdown, TypeOK
  <2>2. [i \in DOMAIN trans |-> EntryOf(trans[i])] \in Seq(Entry)
    <3>1. \A i \in 1..Len(trans) : trans[i] \in Transfer
      BY DEF TypeOK
    <3>2. \A i \in 1..Len(trans) : EntryOf(trans[i]) \in Entry
      BY <3>1 DEF EntryOf, Entry, Transfer
    <3>3. DOMAIN trans = 1..Len(trans) /\ Len(trans) \in Nat
      BY DEF TypeOK
    <3> QED BY <3>2, <3>3
  <2>3. [i \in DOMAIN trans |-> EntryOf(trans[i])] \o mainqueue \in Seq(Entry)
    BY <2>2, ConcatProperties DEF TypeOK
  <2>4. mainqueue' \in Seq(Entry)
    BY <1>1, <2>3 DEF Shutdown, TypeOK
  <2> QED BY <1>1, <2>1, <2>4 DEF Shutdown, TypeOK, config
<1>2. ASSUME NEW e \in E, A_Send(e) PROVE TypeOK'
  BY <1>0, <1>2, StartTransferType DEF A_Send, TypeOK, queues, config, status
<1>3. ASSUME NEW e \in E, NEW at \in Net, A_Queue(e, at) \/ A_IQueue(e, at) PROVE TypeOK'
  <2> HIDE DEF E
  <2>1. <<Call("start_one_send", 0, NoNick)>> \in Seq(Frame)
    BY CallType DEF Fn
  <2>2. Append(mainqueue, e) \in Seq(Entry) /\ Append(idlequeue, e) \in Seq(Entry)
    BY <1>0 DEF TypeOK
  <2> QED BY <1>3, <2>1, <2>2 DEF A_Queue, A_IQueue, TypeOK, config, status
<1>4. ASSUME NEW pos \in 0..Bound, A_QSend(pos) \/ A_IQSend(pos) PROVE TypeOK'
  <2>1. /\ <<Call("send_from_queue", pos, NoNick)>> \in Seq(Frame)
        /\ <<Call("check_idle_queue", pos, NoNick)>> \in Seq(Frame)
    BY CallType DEF Fn
  <2> QED BY <1>4, <2>1 DEF A_QSend, A_IQSend, TypeOK, queues, config, status
<1>5. CASE A_Requeue
  BY <1>5, MovedType DEF A_Requeue, TypeOK, config, status
<1>6. CASE A_Rmq
  <2>1. mainqueue' \in Seq(Entry) /\ idlequeue' \in Seq(Entry)
    BY <1>6, DropType, PurgeQueuesType DEF A_Rmq, TypeOK
  <2> QED BY <1>6, <2>1 DEF A_Rmq, TypeOK, config, status
<1>7. ASSUME NEW n \in Net, NEW k \in Nick, A_BannNick(n, k) PROVE TypeOK'
  <2>1. mainqueue' \in Seq(Entry) /\ idlequeue' \in Seq(Entry)
    BY <1>7, PurgeQueuesType DEF A_BannNick
  <2>2. trans' \in Seq(Transfer)
    BY <1>7, ClosedType DEF A_BannNick, TypeOK
  <2> QED BY <1>7, <2>1, <2>2 DEF A_BannNick, TypeOK, config, status
<1>8. ASSUME NEW val \in BOOLEAN, A_HoldQueue(val) PROVE TypeOK'
  <2>1. calls' \in Seq(Frame)
    BY <1>8, StartSendsType, EmptySeq DEF A_HoldQueue
  <2> QED BY <1>8, <2>1 DEF A_HoldQueue, TypeOK, queues, status
<1>9. CASE A_Slots
  <2>1. slotsmax' \in 1..maxtrans /\ queuesize' \in Nat
    BY <1>9, ConfigAssumption DEF A_Slots
  <2> QED BY <1>9, <2>1 DEF A_Slots, TypeOK, queues, status
<1>10. CASE A_Rehash
  BY <1>10, DropGoneType, StartSendsType DEF A_Rehash, TypeOK, config, status
<1>11. ASSUME NEW p \in Pack, A_RemovePack(p) PROVE TypeOK'
  <2>1. mainqueue' \in Seq(Entry) /\ idlequeue' \in Seq(Entry)
    BY <1>11, PurgeQueuesType DEF A_RemovePack
  <2>2. trans' \in Seq(Transfer)
    BY <1>11, ClosedType DEF A_RemovePack, TypeOK
  <2>3. packs' \subseteq Pack
    BY <1>11 DEF A_RemovePack, TypeOK
  <2> QED BY <1>11, <2>1, <2>2, <2>3 DEF A_RemovePack, TypeOK, config
<1> QED BY <1>1, <1>2, <1>3, <1>4, <1>5, <1>6, <1>7, <1>8, <1>9, <1>10, <1>11 DEF AdminStep

\* Every step keeps the types.
LEMMA NextTypeOK == TypeOK /\ [Next]_vars => TypeOK'
<1>1. TypeOK /\ UNCHANGED vars => TypeOK'
  BY DEF TypeOK, vars, queues, config, status
<1> QED BY <1>1, CallStepType, UserStepType, NickStepType, ClockStepType, AdminStepType DEF Next

\* Whatever users, networks, the clock and the administrator do, in whatever order,
\* the two queues hold requests, the transfer list holds transfers, and slotsmax
\* stays within 1..maxtrans.
THEOREM TypeCorrect == Spec => []TypeOK
<1> QED BY InitTypeOK, NextTypeOK, PTL DEF Spec

-----------------------------------------------------------------------------
(* SlotLimit and PersonLimit, for a bot whose admin forces nothing *)

\* A pending call may still start a transfer.  The checks SlotLimit rests on are
\* made when the call is pushed: send_from_queue looks at no limit of the bot, and
\* only serves the first position (and not one an admin named), where Sendable
\* holds.
QuietCalls ==
  \A i \in DOMAIN calls :
    /\ calls[i].fn = "send_from_queue" => i = 1 /\ calls[i].n = 0 /\ Len(trans) < maxtrans
    /\ calls[i].fn = "main_ready" => calls[i].n <= maxtrans

QuietInv == TypeOK /\ SlotLimit /\ PersonLimit /\ QuietCalls

\* What QuietCalls asks of the frames a returning call leaves behind.
LEMMA QuietReturn ==
  ASSUME TypeOK, QuietCalls, calls # <<>>, NEW next \in Seq(Frame), Return(next),
         \A i \in DOMAIN next :
           /\ next[i].fn = "send_from_queue" => i = 1 /\ next[i].n = 0 /\ Len(trans') < maxtrans
           /\ next[i].fn = "main_ready" => next[i].n <= maxtrans
  PROVE  QuietCalls'
<1> DEFINE rest == Tail(calls)
<1>1. /\ rest \in Seq(Frame) /\ Len(rest) = Len(calls) - 1
      /\ \A i \in 1..Len(rest) : rest[i] = calls[i + 1]
  BY HeadTailProperties DEF TypeOK
<1>2. /\ calls \in Seq(Frame) /\ DOMAIN calls = 1..Len(calls) /\ Len(calls) \in Nat
      /\ DOMAIN next = 1..Len(next) /\ Len(next) \in Nat
  BY DEF TypeOK
<1>3. calls' = next \o rest
  BY DEF Return
<1> HIDE DEF rest
<1>4. /\ DOMAIN calls' = 1..(Len(next) + Len(rest))
      /\ \A i \in 1..(Len(next) + Len(rest)) :
           calls'[i] = IF i <= Len(next) THEN next[i] ELSE rest[i - Len(next)]
  <2>1. /\ next \o rest \in Seq(Frame) /\ Len(next \o rest) = Len(next) + Len(rest)
        /\ \A i \in 1..(Len(next) + Len(rest)) :
             (next \o rest)[i] = IF i <= Len(next) THEN next[i] ELSE rest[i - Len(next)]
    BY <1>1, ConcatProperties
  <2>2. DOMAIN (next \o rest) = 1..Len(next \o rest)
    BY <2>1
  <2> QED BY <1>3, <2>1, <2>2
<1>5. ASSUME NEW i \in DOMAIN calls', i > Len(next)
      PROVE  /\ calls'[i].fn # "send_from_queue"
             /\ calls'[i].fn = "main_ready" => calls'[i].n <= maxtrans
  <2>1. i - Len(next) \in 1..Len(rest) /\ calls'[i] = rest[i - Len(next)]
    BY <1>1, <1>2, <1>4, <1>5
  <2>2. PICK j \in DOMAIN calls : j # 1 /\ calls'[i] = calls[j]
    <3> DEFINE k == i - Len(next)
    <3>1. k \in 1..Len(rest) /\ calls'[i] = rest[k]
      BY <2>1
    <3> HIDE DEF k
    <3>2. k + 1 \in DOMAIN calls /\ k + 1 # 1 /\ rest[k] = calls[k + 1]
      BY <1>1, <1>2, <3>1
    <3> QED BY <3>1, <3>2
  <2> QED BY <2>2 DEF QuietCalls
<1>6. ASSUME NEW i \in DOMAIN calls', i <= Len(next)
      PROVE  i \in DOMAIN next /\ calls'[i] = next[i]
  BY <1>2, <1>4, <1>6
<1>7. \A i \in DOMAIN calls' : i <= Len(next) \/ i > Len(next)
  BY <1>1, <1>2, <1>4
<1> QED BY <1>5, <1>6, <1>7 DEF QuietCalls

\* A call that returns pushes nothing and starts nothing.
LEMMA QuietReturnNothing ==
  ASSUME TypeOK, QuietCalls, calls # <<>>, Return(<<>>)
  PROVE  QuietCalls'
<1>1. <<>> \in Seq(Frame) /\ DOMAIN <<>> = {}
  OBVIOUS
<1> QED BY <1>1, QuietReturn

\* No transfer is added and no call is pushed.
LEMMA QuietSameCalls ==
  ASSUME TypeOK, TypeOK', QuietCalls, calls' = calls, Len(trans') <= Len(trans)
  PROVE  QuietCalls'
<1>1. Len(trans) \in Nat /\ Len(trans') \in Nat /\ maxtrans \in Nat
  BY ConfigAssumption DEF TypeOK
<1> QED BY <1>1 DEF QuietCalls

\* The transfers a host has do not change when transfers are closed.
LEMMA ClosedPerson ==
  ASSUME TypeOK, NEW S, NEW h
  PROVE  Count(Closed(S), {t \in Transfer : t.host = h})
           = Count(trans, {t \in Transfer : t.host = h})
<1>1. /\ Closed(S) \in Seq(Transfer) /\ DOMAIN Closed(S) = DOMAIN trans
  BY ClosedType DEF TypeOK
<1>2. ASSUME NEW i \in DOMAIN trans
      PROVE  Closed(S)[i] \in Transfer /\ Closed(S)[i].host = trans[i].host
  <2>1. trans[i] \in Transfer /\ i \in 1..Len(trans) /\ trans \in Seq(Transfer)
    BY Elements DEF TypeOK
  <2>2. \A t \in Transfer : [t EXCEPT !.done = TRUE].host = t.host
    BY DEF Transfer
  <2>3. Closed(S)[i] = IF i \in S THEN [trans[i] EXCEPT !.done = TRUE] ELSE trans[i]
    BY <2>1, ClosedType
  <2>4. Closed(S)[i] \in Transfer
    BY <1>1, <2>1
  <2> QED BY <2>1, <2>2, <2>3, <2>4
<1>3. \A i \in DOMAIN trans : trans[i] \in Transfer
  BY Elements
<1>4. {i \in DOMAIN Closed(S) : Closed(S)[i] \in {t \in Transfer : t.host = h}}
        = {i \in DOMAIN trans : trans[i] \in {t \in Transfer : t.host = h}}
  BY <1>1, <1>2, <1>3
<1> QED BY <1>4 DEF Count

\* A new transfer adds one to its host, and no other host gains.
LEMMA StartedPerson ==
  ASSUME TypeOK, NEW e \in Entry, StartTransfer(e), NEW h
  PROVE  Count(trans', {t \in Transfer : t.host = h})
           = Count(trans, {t \in Transfer : t.host = h}) + (IF e.host = h THEN 1 ELSE 0)
<1>1. PICK changed \in BOOLEAN, failed \in BOOLEAN :
        trans' = Append(IF changed THEN Closed(TransferOfPack(e.pack)) ELSE trans,
                        [nick |-> e.nick, host |-> e.host, net |-> e.net,
                         pack |-> e.pack, done |-> failed])
  BY DEF StartTransfer
<1> DEFINE x == [nick |-> e.nick, host |-> e.host, net |-> e.net,
                 pack |-> e.pack, done |-> failed]
           q == IF changed THEN Closed(TransferOfPack(e.pack)) ELSE trans
           H == {t \in Transfer : t.host = h}
<1>2. x \in Transfer /\ x.host = e.host
  BY DEF Entry, Transfer
<1>3. q \in Seq(Transfer) /\ Count(q, H) = Count(trans, H)
  <2>1. trans \in Seq(Transfer)
    BY DEF TypeOK
  <2>2. Closed(TransferOfPack(e.pack)) \in Seq(Transfer)
    BY <2>1, ClosedType
  <2>3. Count(Closed(TransferOfPack(e.pack)), H) = Count(trans, H)
    BY ClosedPerson
  <2> QED BY <2>1, <2>2, <2>3
<1>4. trans' = Append(q, x)
  BY <1>1
<1>5. x \in H <=> e.host = h
  BY <1>2
<1> HIDE DEF x, q, H
<1>6. Count(trans', H) = Count(q, H) + (IF x \in H THEN 1 ELSE 0)
  BY <1>2, <1>3, <1>4, CountAppend
<1>7. Count(trans', H) = Count(trans, H) + (IF e.host = h THEN 1 ELSE 0)
  BY <1>3, <1>5, <1>6
<1> QED BY <1>7 DEF H

\* Closing transfers, deleting one or keeping the list as it is can break none
\* of the limits.
LEMMA FewerTransfers ==
  ASSUME QuietInv,
         \/ UNCHANGED trans
         \/ \E S : trans' = Closed(S)
         \/ \E i \in DOMAIN trans : trans' = Drop(trans, i)
  PROVE  SlotLimit' /\ PersonLimit' /\ Len(trans') <= Len(trans)
<1>1. Len(trans) \in Nat /\ maxtrans \in Nat /\ maxtransfersperperson \in Nat
  BY ConfigAssumption DEF QuietInv, TypeOK
<1>2. Len(trans') \in Nat /\ Len(trans') <= Len(trans)
  BY <1>1, ClosedType, DropType DEF QuietInv, TypeOK
<1>3. ASSUME NEW h \in Host
      PROVE  Count(trans', {t \in Transfer : t.host = h}) <= maxtransfersperperson
  <2> DEFINE H == {t \in Transfer : t.host = h}
  <2>1. Count(trans, H) \in Nat /\ Count(trans, H) <= maxtransfersperperson
    <3>1. trans \in Seq(Transfer)
      BY DEF QuietInv, TypeOK
    <3>2. Count(trans, H) <= maxtransfersperperson
      BY DEF QuietInv, PersonLimit
    <3> HIDE DEF H
    <3> QED BY <3>1, <3>2, CountType
  <2>2. CASE UNCHANGED trans
    BY <2>1, <2>2
  <2>3. CASE \E S : trans' = Closed(S)
    BY <2>1, <2>3, ClosedPerson DEF QuietInv
  <2>4. CASE \E i \in DOMAIN trans : trans' = Drop(trans, i)
    <3>1. PICK i \in DOMAIN trans : trans' = Drop(trans, i)
      BY <2>4
    <3>2. trans' \in Seq(Transfer) /\ trans \in Seq(Transfer)
      BY <3>1, DropType DEF QuietInv, TypeOK
    <3>3. Count(trans', H) <= Count(trans, H) /\ Count(trans', H) \in Nat
      <4> HIDE DEF H
      <4>1. Count(trans', H) <= Count(trans, H)
        BY <3>1, <3>2, CountDrop
      <4>2. Count(trans', H) \in Nat
        BY <3>2, CountType
      <4> QED BY <4>1, <4>2
    <3> QED BY <1>1, <2>1, <3>3
  <2> QED BY <2>2, <2>3, <2>4
<1> QED BY <1>1, <1>2, <1>3 DEF QuietInv, SlotLimit, PersonLimit

\* The same for a new transfer, when there is a slot and its host has a share left.
LEMMA OneMoreTransfer ==
  ASSUME QuietInv, NEW e \in Entry, StartTransfer(e), Len(trans) < maxtrans,
         e.host \in Host =>
           Count(trans, {t \in Transfer : t.host = e.host}) < maxtransfersperperson
  PROVE  SlotLimit' /\ PersonLimit'
<1>1. Len(trans) \in Nat /\ maxtrans \in Nat /\ maxtransfersperperson \in Nat
  BY ConfigAssumption DEF QuietInv, TypeOK
<1>2. Len(trans') = Len(trans) + 1
  BY StartTransferType DEF QuietInv, TypeOK
<1>3. ASSUME NEW h \in Host
      PROVE  Count(trans', {t \in Transfer : t.host = h}) <= maxtransfersperperson
  <2> DEFINE H == {t \in Transfer : t.host = h}
  <2>1. Count(trans', H) = Count(trans, H) + (IF e.host = h THEN 1 ELSE 0)
    BY StartedPerson DEF QuietInv
  <2>2. Count(trans, H) <= maxtransfersperperson
    BY DEF QuietInv, PersonLimit
  <2>3. e.host = h => Count(trans, H) < maxtransfersperperson
    OBVIOUS
  <2>4. Count(trans, H) \in Nat
    <3>1. trans \in Seq(Transfer)
      BY DEF QuietInv, TypeOK
    <3> HIDE DEF H
    <3> QED BY <3>1, CountType
  <2> HIDE DEF H
  <2>5. Count(trans', H) <= maxtransfersperperson
    BY <1>1, <2>1, <2>2, <2>3, <2>4
  <2> QED BY <2>5 DEF H
<1> QED BY <1>1, <1>2, <1>3 DEF SlotLimit, PersonLimit

\* A pending call that starts no transfer: what it pushes is no send_from_queue, or
\* there is a free slot, and trans grows by nothing.
LEMMA QuietFrames ==
  ASSUME QuietInv
  PROVE  /\ trans \in Seq(Transfer) /\ Len(trans) \in Nat /\ calls \in Seq(Frame)
         /\ slotsmax \in Nat /\ slotsmax <= maxtrans /\ maxtrans \in Nat
         /\ calls # <<>> => 1 \in DOMAIN calls
BY ConfigAssumption DEF QuietInv, TypeOK

\* A pending call keeps the limits: the one that starts a transfer runs when there
\* is a free slot, and serves somebody who has a share left.
LEMMA QuietCallStep == QuietInv /\ CallStep => QuietInv'
<1> SUFFICES ASSUME QuietInv, CallStep PROVE QuietInv'
  OBVIOUS
<1>0. TypeOK' /\ TypeOK
  BY CallStepType DEF QuietInv
<1>1. CASE SendFromQueue_Send
  <2> DEFINE i == First(SendChoice)
             e == mainqueue[i]
             next == <<Call("check_idle_queue", 0, NoNick)>>
  <2>1. /\ calls # <<>> /\ calls[1].fn = "send_from_queue" /\ SendChoice # {}
        /\ StartTransfer(e) /\ Return(next)
    BY <1>1 DEF SendFromQueue_Send, Running
  <2>2. Len(trans) < maxtrans /\ Arg = 0
    BY <2>1, QuietFrames DEF QuietInv, QuietCalls, Arg
  <2>3. e \in Entry
    BY <1>0, <2>1, ChoiceType, Elements
  <2>4. Sendable(e, LastNick)
    <3>1. SendChoice \subseteq DOMAIN mainqueue /\ \A j \in SendChoice : Sendable(mainqueue[j], LastNick)
      BY <2>2 DEF SendChoice
    <3>2. DOMAIN mainqueue \subseteq Nat
      BY <1>0 DEF TypeOK
    <3>3. i \in SendChoice
      BY <2>1, <3>1, <3>2, FirstType
    <3> QED BY <3>1, <3>3
  <2>5. e.host \in Host =>
          Count(trans, {t \in Transfer : t.host = e.host}) < maxtransfersperperson
    <3> SUFFICES ASSUME e.host \in Host
                 PROVE  Count(trans, {t \in Transfer : t.host = e.host}) < maxtransfersperperson
      OBVIOUS
    <3> HIDE DEF e
    <3> DEFINE H == {t \in Transfer : t.host = e.host}
               P == {t \in Transfer : t.nick = e.nick \/ (t.host # Man /\ t.host = e.host)}
    <3>1. H \subseteq P
      BY ConfigAssumption
    <3>2. Count(trans, P) < maxtransfersperperson
      BY <2>4 DEF Sendable, UserTrans
    <3> HIDE DEF H, P
    <3>3. Count(trans, H) <= Count(trans, P) /\ Count(trans, H) \in Nat /\ Count(trans, P) \in Nat
      BY <3>1, QuietFrames, CountSubset, CountType
    <3>4. Count(trans, H) < maxtransfersperperson
      BY <3>2, <3>3, ConfigAssumption
    <3> QED BY <3>4 DEF H
  <2>6. SlotLimit' /\ PersonLimit'
    <3> HIDE DEF e
    <3> QED BY <2>1, <2>2, <2>3, <2>5, OneMoreTransfer
  <2>7. QuietCalls'
    <3>1. next \in Seq(Frame) /\ DOMAIN next = {1} /\ next[1].fn = "check_idle_queue"
      BY CallType DEF Fn, Call
    <3> HIDE DEF next
    <3> QED BY <1>0, <2>1, <3>1, QuietReturn DEF QuietInv
  <2> QED BY <1>0, <2>6, <2>7 DEF QuietInv
<1>2. CASE SendFromQueue_Nobody
  <2>1. /\ calls # <<>> /\ UNCHANGED trans /\ calls[1].fn = "send_from_queue"
        /\ Return(<<Call("send_from_queue", Arg, NoNick)>>) \/ Return(<<>>)
    BY <1>2 DEF SendFromQueue_Nobody, Running
  <2>2. Len(trans) < maxtrans /\ Arg = 0
    BY <2>1, QuietFrames DEF QuietInv, QuietCalls, Arg
  <2> DEFINE next == <<Call("send_from_queue", Arg, NoNick)>>
  <2>3. next \in Seq(Frame) /\ DOMAIN next = {1} /\ next[1].fn = "send_from_queue" /\ next[1].n = 0
    BY <2>2, CallType DEF Fn, Call
  <2> HIDE DEF next
  <2>4. CASE Return(next)
    BY <1>0, <2>1, <2>2, <2>3, <2>4, QuietReturn, FewerTransfers DEF QuietInv
  <2>5. CASE Return(<<>>)
    BY <1>0, <2>1, <2>5, QuietReturnNothing, FewerTransfers DEF QuietInv
  <2> QED BY <2>1, <2>4, <2>5 DEF next
<1>3. CASE StartOneSend
  <2>1. /\ calls # <<>> /\ UNCHANGED trans
        /\ \/ Return(<<Call("send_from_queue", 0, NoNick)>>) /\ Len(trans) < slotsmax
           \/ Return(<<>>)
    BY <1>3 DEF StartOneSend, Running, FreeSlot
  <2> DEFINE next == <<Call("send_from_queue", 0, NoNick)>>
  <2>2. next \in Seq(Frame) /\ DOMAIN next = {1} /\ next[1].fn = "send_from_queue" /\ next[1].n = 0
    BY CallType DEF Fn, Call
  <2> HIDE DEF next
  <2>3. CASE Return(next) /\ Len(trans) < slotsmax
    <3>1. Len(trans) < maxtrans /\ UNCHANGED trans
      BY <2>1, <2>3, QuietFrames
    <3> QED BY <1>0, <2>1, <2>2, <2>3, <3>1, QuietReturn, FewerTransfers DEF QuietInv
  <2>4. CASE Return(<<>>)
    BY <1>0, <2>1, <2>4, QuietReturnNothing, FewerTransfers DEF QuietInv
  <2> QED BY <2>1, <2>3, <2>4 DEF next
<1>4. CASE CheckIdleQueue_Move
  <2> DEFINE next == <<Call("start_one_send", 0, NoNick)>>
  <2>1. calls # <<>> /\ UNCHANGED trans /\ Return(next)
    BY <1>4 DEF CheckIdleQueue_Move, Running
  <2>2. next \in Seq(Frame) /\ DOMAIN next = {1} /\ next[1].fn = "start_one_send"
    BY CallType DEF Fn, Call
  <2> HIDE DEF next
  <2> QED BY <1>0, <2>1, <2>2, QuietReturn, FewerTransfers DEF QuietInv
<1>5. CASE CheckIdleQueue_Nothing
  <2>1. calls # <<>> /\ UNCHANGED trans /\ Return(<<>>)
    BY <1>5 DEF CheckIdleQueue_Nothing, Running
  <2> QED BY <1>0, <2>1, QuietReturnNothing, FewerTransfers DEF QuietInv
<1>6. CASE MainReady
  <2>1. /\ calls # <<>> /\ UNCHANGED trans /\ calls[1].fn = "main_ready"
        /\ \/ Return(<<Call("send_from_queue", 0, calls[1].last)>>) /\ Len(trans) < Arg
           \/ Return(<<>>)
    BY <1>6 DEF MainReady, Running, FreeSlot
  <2> DEFINE next == <<Call("send_from_queue", 0, calls[1].last)>>
  <2>2. next \in Seq(Frame) /\ DOMAIN next = {1} /\ next[1].fn = "send_from_queue" /\ next[1].n = 0
    BY <1>0, <2>1, TopFrame, CallType DEF Fn, Call
  <2>3. Arg \in Nat /\ Arg <= maxtrans
    BY <1>0, <2>1, TopFrame, QuietFrames DEF QuietInv, QuietCalls, Arg
  <2> HIDE DEF next
  <2>4. CASE Return(next) /\ Len(trans) < Arg
    <3>1. Len(trans) < maxtrans /\ UNCHANGED trans
      BY <2>1, <2>3, <2>4, QuietFrames
    <3> QED BY <1>0, <2>1, <2>2, <2>4, <3>1, QuietReturn, FewerTransfers DEF QuietInv
  <2>5. CASE Return(<<>>)
    BY <1>0, <2>1, <2>5, QuietReturnNothing, FewerTransfers DEF QuietInv
  <2> QED BY <2>1, <2>4, <2>5 DEF next
<1>7. CASE Perform_Visit
  <2>1. CASE \E complete \in BOOLEAN : EndTransfer(Arg, complete) /\ UNCHANGED <<config, calls>>
    <3>1. \E S : trans' = Closed(S)
      BY <2>1 DEF EndTransfer
    <3>2. calls' = calls
      BY <2>1
    <3> QED BY <1>0, <3>1, <3>2, FewerTransfers, QuietSameCalls DEF QuietInv
  <2>2. CASE Return(IF Arg < Len(trans) THEN <<Call("t_perform", Arg + 1, NoNick)>> ELSE <<>>)
             /\ UNCHANGED <<queues, trans, config, status>>
    <3> DEFINE next == IF Arg < Len(trans) THEN <<Call("t_perform", Arg + 1, NoNick)>> ELSE <<>>
    <3>1. calls # <<>> /\ Arg \in Nat
      BY <1>0, <1>7, TopFrame DEF Perform_Visit, Running
    <3>2. next \in Seq(Frame) /\ \A i \in DOMAIN next : next[i].fn = "t_perform"
      <4>1. <<Call("t_perform", Arg + 1, NoNick)>> \in Seq(Frame)
        BY <3>1, CallType DEF Fn
      <4> QED BY <4>1, EmptySeq DEF Call
    <3> HIDE DEF next
    <3>3. Return(next) /\ UNCHANGED trans
      BY <2>2 DEF next
    <3> QED BY <1>0, <3>1, <3>2, <3>3, QuietReturn, FewerTransfers DEF QuietInv
  <2> QED BY <1>7, <2>1, <2>2 DEF Perform_Visit
<1>8. CASE Perform_Delete
  <2> DEFINE ready == IfMainQueueReady(slotsmax, trans[Arg].nick)
             rest == IF Arg < Len(trans) THEN <<Call("t_perform", Arg, NoNick)>> ELSE <<>>
  <2>1. /\ calls # <<>> /\ Arg \in DOMAIN trans /\ Arg \in Nat
        /\ trans' = Drop(trans, Arg) /\ Return(ready \o rest)
    BY <1>0, <1>8, TopFrame DEF Perform_Delete, Running
  <2>2. /\ ready \in Seq(Frame)
        /\ \A i \in DOMAIN ready : /\ ready[i].fn # "send_from_queue"
                                    /\ ready[i].n <= maxtrans
    <3>1. slotsmax \in Nat /\ slotsmax <= maxtrans /\ 0 <= maxtrans
      BY QuietFrames
    <3>2. trans[Arg].nick \in Nick
      BY <1>0, <2>1, Elements
    <3> QED BY <3>1, <3>2, IfMainQueueReadyType DEF IfMainQueueReady, Call
  <2>3. rest \in Seq(Frame) /\ \A i \in DOMAIN rest : rest[i].fn = "t_perform"
    <3>1. <<Call("t_perform", Arg, NoNick)>> \in Seq(Frame)
      BY <2>1, CallType DEF Fn
    <3> QED BY <3>1, EmptySeq DEF Call
  <2> HIDE DEF ready, rest
  <2>4. /\ ready \o rest \in Seq(Frame)
        /\ \A i \in DOMAIN (ready \o rest) :
             /\ (ready \o rest)[i].fn # "send_from_queue"
             /\ (ready \o rest)[i].fn = "main_ready" => (ready \o rest)[i].n <= maxtrans
    <3>1. /\ ready \o rest \in Seq(Frame) /\ Len(ready \o rest) = Len(ready) + Len(rest)
          /\ \A i \in 1..(Len(ready) + Len(rest)) : (ready \o rest)[i] =
               IF i <= Len(ready) THEN ready[i] ELSE rest[i - Len(ready)]
      BY <2>2, <2>3, ConcatProperties
    <3>2. /\ DOMAIN ready = 1..Len(ready) /\ DOMAIN rest = 1..Len(rest)
          /\ Len(ready) \in Nat /\ Len(rest) \in Nat
      BY <2>2, <2>3
    <3>3. DOMAIN (ready \o rest) = 1..(Len(ready) + Len(rest))
      BY <3>1
    <3>4. ASSUME NEW i \in 1..(Len(ready) + Len(rest))
          PROVE  \/ i \in DOMAIN ready /\ (ready \o rest)[i] = ready[i]
                 \/ i - Len(ready) \in DOMAIN rest /\ (ready \o rest)[i] = rest[i - Len(ready)]
      BY <3>1, <3>2
    <3>5. ASSUME NEW i \in 1..(Len(ready) + Len(rest))
          PROVE  /\ (ready \o rest)[i].fn # "send_from_queue"
                 /\ (ready \o rest)[i].fn = "main_ready" => (ready \o rest)[i].n <= maxtrans
      BY <2>2, <2>3, <3>4
    <3> QED BY <3>1, <3>3, <3>5
  <2> DEFINE next == ready \o rest
  <2>5. next \in Seq(Frame) /\ Return(next)
    BY <2>1, <2>4
  <2>6. \A i \in DOMAIN next : next[i].fn # "send_from_queue"
                                /\ (next[i].fn = "main_ready" => next[i].n <= maxtrans)
    BY <2>4
  <2> HIDE DEF next
  <2> QED BY <1>0, <2>1, <2>5, <2>6, QuietReturn, FewerTransfers DEF QuietInv
<1> QED BY <1>1, <1>2, <1>3, <1>4, <1>5, <1>6, <1>7, <1>8 DEF CallStep

\* The handlers run when no call is pending; those that push calls push none that
\* sends at once.
LEMMA QuietHandler ==
  ASSUME TypeOK', Len(trans') <= maxtrans,
         \/ calls' = <<>>
         \/ calls' = StartSends
         \/ \E fn \in Fn \ {"send_from_queue", "main_ready"}, n \in Nat :
              calls' = <<Call(fn, n, NoNick)>>
         \/ calls' = IfMainQueueReady(maxtrans, NoNick)
  PROVE  QuietCalls'
<1>1. maxtrans \in Nat
  BY ConfigAssumption
<1>2. CASE calls' = <<>>
  BY <1>2 DEF QuietCalls
<1>3. CASE calls' = StartSends
  BY <1>3 DEF QuietCalls, StartSends, Call
<1>4. CASE \E fn \in Fn \ {"send_from_queue", "main_ready"}, n \in Nat :
             calls' = <<Call(fn, n, NoNick)>>
  BY <1>4 DEF QuietCalls, Call
<1>5. CASE calls' = IfMainQueueReady(maxtrans, NoNick)
  BY <1>1, <1>5 DEF QuietCalls, IfMainQueueReady, Call
<1> QED BY <1>2, <1>3, <1>4, <1>5

\* A handler that closes transfers, or leaves them alone.
LEMMA QuietCloses ==
  ASSUME QuietInv, TypeOK',
         UNCHANGED trans \/ \E S : trans' = Closed(S),
         \/ calls' = <<>>
         \/ calls' = StartSends
         \/ \E fn \in Fn \ {"send_from_queue", "main_ready"}, n \in Nat :
              calls' = <<Call(fn, n, NoNick)>>
         \/ calls' = IfMainQueueReady(maxtrans, NoNick)
  PROVE  QuietInv'
<1>1. SlotLimit' /\ PersonLimit'
  BY FewerTransfers
<1>2. QuietCalls'
  BY <1>1, QuietHandler DEF SlotLimit
<1> QED BY <1>1, <1>2 DEF QuietInv

\* The users' requests keep the limits: XDCC SEND counts the host's transfers and
\* the slots before it starts one.
LEMMA QuietUserStep == QuietInv /\ UserStep => QuietInv'
<1> SUFFICES ASSUME QuietInv, UserStep PROVE QuietInv'
  OBVIOUS
<1>0. TypeOK /\ TypeOK'
  BY UserStepType DEF QuietInv
<1>1. ASSUME NEW v \in Visitors, NEW p \in Pack, Request(v, p) PROVE QuietInv'
  <2> DEFINE e == [nick |-> v.nick, host |-> v.host, net |-> v.net, pack |-> p]
  <2>1. e \in Entry /\ e.host = v.host
    BY ConfigAssumption DEF Entry
  <2>2. calls' = <<>>
    BY <1>1 DEF Request, Idle
  <2>3. CASE UNCHANGED trans
    BY <1>0, <2>2, <2>3, QuietCloses
  <2>4. CASE /\ StartTransfer(e) /\ FreeSlot(maxtrans)
             /\ ~(Cardinality({i \in DOMAIN trans : trans[i].host = v.host}) >= maxtransfersperperson)
    <3>1. Len(trans) < maxtrans
      BY <2>4 DEF FreeSlot
    <3>2. Count(trans, {t \in Transfer : t.host = e.host}) < maxtransfersperperson
      <4>1. \A i \in DOMAIN trans : trans[i] \in Transfer
        BY <1>0, Elements
      <4>2. {i \in DOMAIN trans : trans[i] \in {t \in Transfer : t.host = v.host}}
              = {i \in DOMAIN trans : trans[i].host = v.host}
        BY <4>1
      <4>3. Count(trans, {t \in Transfer : t.host = v.host})
              = Cardinality({i \in DOMAIN trans : trans[i].host = v.host})
        BY <4>2 DEF Count
      <4>4. trans \in Seq(Transfer)
        BY <1>0 DEF TypeOK
      <4>5. Count(trans, {t \in Transfer : t.host = v.host}) \in Nat
        BY <4>4, CountType
      <4>6. Count(trans, {t \in Transfer : t.host = v.host}) < maxtransfersperperson
        BY <2>4, <4>3, <4>5, ConfigAssumption
      <4> QED BY <2>1, <4>6
    <3>3. SlotLimit' /\ PersonLimit'
      <4> HIDE DEF e
      <4> QED BY <2>1, <2>4, <3>1, <3>2, OneMoreTransfer
    <3>4. QuietCalls'
      BY <1>0, <2>2, <3>3, QuietHandler DEF SlotLimit
    <3> QED BY <1>0, <3>3, <3>4 DEF QuietInv
  <2> QED BY <1>1, <2>3, <2>4 DEF Request
<1>2. ASSUME NEW v \in Visitors, NEW ps, Remove(v, ps) PROVE QuietInv'
  BY <1>0, <1>2, QuietCloses DEF Remove, Idle
<1>3. ASSUME NEW v \in Visitors, Cancel(v) PROVE QuietInv'
  BY <1>0, <1>3, QuietCloses DEF Cancel, Idle
<1>4. ASSUME NEW i \in 1..Len(trans), PunishSlow(i) PROVE QuietInv'
  BY <1>0, <1>4, QuietCloses DEF PunishSlow, Idle
<1>5. ASSUME NEW i \in 1..Len(trans), TransferEnds(i) PROVE QuietInv'
  <2>1. \E S : trans' = Closed(S)
    BY <1>5 DEF TransferEnds, EndTransfer
  <2>2. calls' = <<>>
    BY <1>5 DEF TransferEnds
  <2> QED BY <1>0, <2>1, <2>2, QuietCloses
<1>6. ASSUME NEW S, PunishDuplicateIp(S) PROVE QuietInv'
  BY <1>0, <1>6, QuietCloses DEF PunishDuplicateIp, Idle
<1> QED BY <1>1, <1>2, <1>3, <1>4, <1>5, <1>6 DEF UserStep

\* A nick change keeps the hosts.
LEMMA QuietNickStep == QuietInv /\ NickStep => QuietInv'
<1> SUFFICES ASSUME QuietInv, NEW old \in Nick, NEW new \in Nick, NickChange(old, new)
             PROVE  QuietInv'
  BY DEF NickStep
<1>0. TypeOK /\ TypeOK'
  BY NickStepType DEF QuietInv, NickStep
<1>1. /\ trans' = [i \in DOMAIN trans |->
                     [trans[i] EXCEPT !.nick = IF @ = old THEN new ELSE @]]
      /\ calls' = <<>>
  BY DEF NickChange, Idle
<1>2. \A t \in Transfer : [t EXCEPT !.nick = IF @ = old THEN new ELSE @].host = t.host
  BY DEF Transfer
<1>3. \A i \in DOMAIN trans : trans[i] \in Transfer
  BY <1>0, Elements
<1>4. DOMAIN trans' = DOMAIN trans /\ \A i \in DOMAIN trans : trans'[i].host = trans[i].host
  BY <1>1, <1>2, <1>3
<1>5. \A i \in DOMAIN trans' : trans'[i] \in Transfer
  BY <1>0 DEF TypeOK
<1>6. \A h : {i \in DOMAIN trans' : trans'[i] \in {t \in Transfer : t.host = h}}
             = {i \in DOMAIN trans : trans[i] \in {t \in Transfer : t.host = h}}
  BY <1>3, <1>4, <1>5
<1>7. PersonLimit'
  BY <1>6 DEF QuietInv, PersonLimit, Count
<1>8. Len(trans') = Len(trans)
  <2>1. trans \in Seq(Transfer) /\ trans' \in Seq(Transfer)
    BY <1>0 DEF TypeOK
  <2> QED BY <1>4, <2>1, SameDomain
<1>9. SlotLimit' /\ QuietCalls'
  BY <1>0, <1>1, <1>8, QuietHandler DEF QuietInv, SlotLimit
<1> QED BY <1>0, <1>7, <1>9 DEF QuietInv

\* The networks and the clock start no transfer themselves.
LEMMA QuietClockStep == QuietInv /\ ClockStep => QuietInv'
<1> SUFFICES ASSUME QuietInv, ClockStep PROVE QuietInv'
  OBVIOUS
<1>0. TypeOK'
  BY ClockStepType DEF QuietInv
<1>1. ASSUME NEW n \in Net, NetDown(n) \/ NetConnect(n) \/ NetJoined(n) \/ NetSilent(n)
      PROVE  QuietInv'
  BY <1>0, <1>1, QuietCloses DEF NetDown, NetConnect, NetJoined, NetSilent, Idle
<1>2. CASE Reverify
  BY <1>0, <1>2, QuietCloses DEF Reverify, DropGone, Idle
<1>3. CASE SecondTick
  BY <1>0, <1>3, QuietCloses DEF SecondTick, Fn
<1>4. CASE Minute
  BY <1>0, <1>4, QuietCloses DEF Minute, DropGone, Fn
<1>5. CASE ThreeMinutes
  BY <1>0, <1>5, QuietCloses DEF ThreeMinutes, Fn
<1>6. CASE TransferLimit
  BY <1>0, <1>6, QuietCloses DEF TransferLimit, Idle
<1>7. CASE NewPeriod
  BY <1>0, <1>7, QuietCloses DEF NewPeriod, Idle
<1> QED BY <1>1, <1>2, <1>3, <1>4, <1>5, <1>6, <1>7 DEF ClockStep

\* Every step of a bot whose admin forces nothing keeps the limits.
LEMMA QuietNext == QuietInv /\ [QuietStep]_vars => QuietInv'
<1> SUFFICES ASSUME QuietInv, [QuietStep]_vars PROVE QuietInv'
  OBVIOUS
<1>1. CASE Shutdown
  <2>1. TypeOK'
    BY <1>1, AdminStepType DEF QuietInv, AdminStep
  <2> QED BY <1>1, <2>1, QuietCloses DEF Shutdown, Idle
<1>2. ASSUME NEW val \in BOOLEAN, A_HoldQueue(val) PROVE QuietInv'
  <2>1. TypeOK'
    BY <1>2, AdminStepType DEF QuietInv, AdminStep
  <2> QED BY <1>2, <2>1, QuietCloses DEF A_HoldQueue
<1>3. CASE UNCHANGED vars
  <2>1. UNCHANGED trans /\ UNCHANGED calls
    BY <1>3 DEF vars
  <2>2. TypeOK'
    BY <1>3, NextTypeOK DEF QuietInv
  <2> QED BY <2>1, <2>2, FewerTransfers, QuietSameCalls DEF QuietInv
<1> QED BY <1>1, <1>2, <1>3, QuietCallStep, QuietUserStep, QuietNickStep, QuietClockStep
       DEF QuietStep

\* The initial states are within the limits.
LEMMA QuietInit == Init => QuietInv
<1> SUFFICES ASSUME Init PROVE QuietInv
  OBVIOUS
<1>1. TypeOK
  BY InitTypeOK
<1>2. trans = <<>> /\ calls = [i \in 1..queuesize |-> Call("check_idle_queue", 0, NoNick)]
  BY DEF Init
<1>3. QuietCalls
  BY <1>2 DEF QuietCalls, Call
<1>4. SlotLimit
  BY <1>2, ConfigAssumption DEF SlotLimit
<1>5. PersonLimit
  <2>1. \A h : {i \in DOMAIN trans : trans[i] \in {t \in Transfer : t.host = h}} = {}
    BY <1>2
  <2>2. \A h : Count(trans, {t \in Transfer : t.host = h}) = 0
    BY <2>1, FS_EmptySet DEF Count
  <2> QED BY <2>2, ConfigAssumption DEF PersonLimit
<1> QED BY <1>1, <1>3, <1>4, <1>5 DEF QuietInv

\* The limits and what they rest on hold in every state of a bot whose admin forces
\* nothing.
THEOREM QuietInvariant == QuietSpec => []QuietInv
<1> QED BY QuietInit, QuietNext, PTL DEF QuietSpec

\* The bot never runs more than maxtrans transfers.
THEOREM SlotLimitHolds == QuietSpec => []SlotLimit
<1> QED BY QuietInvariant, PTL DEF QuietInv

\* No host has more than maxtransfersperperson transfers.
THEOREM PersonLimitHolds == QuietSpec => []PersonLimit
<1> QED BY QuietInvariant, PTL DEF QuietInv

-----------------------------------------------------------------------------
(* What waits, and what runs, was allowed to: OverLimitDrained,               *)
(* RemovedPackUnused and LimitedPackNotQueued                                 *)

Waiting == Elems(mainqueue) \cup Elems(idlequeue)

\* A step that lets no new request in: what waits after it waited before it (for
\* the same host and pack), and what runs after it ran, or waited, before it.
KeepsWaiting == \A x \in Waiting' : \E e \in Waiting : x.host = e.host /\ x.pack = e.pack
KeepsTrans ==
  \A x \in Elems(trans') :
    \/ \E t \in Elems(trans) : x.host = t.host /\ x.pack = t.pack /\ (t.done => x.done)
    \/ \E e \in Waiting : x.host = e.host /\ x.pack = e.pack

ServedInv ==
  /\ TypeOK
  /\ OverLimitDrained /\ RemovedPackUnused /\ LimitedPackNotQueued

\* What waits are entries.
LEMMA WaitingType ==
  ASSUME TypeOK
  PROVE  Waiting \subseteq Entry /\ Elems(trans) \subseteq Transfer
BY Elements DEF Waiting, Elems

\* A removal leaves nothing of what it removes, and lets nobody in.
LEMMA PurgeWaiting ==
  ASSUME TypeOK, NEW Out, PurgeQueues(Out)
  PROVE  Waiting' \subseteq Waiting \ Out /\ KeepsWaiting
<1>1. mainqueue \in Seq(Entry) /\ idlequeue \in Seq(Entry)
  BY DEF TypeOK
<1>2. /\ Elems(mainqueue') \subseteq Elems(mainqueue) \ Out
      /\ Elems(idlequeue') \subseteq Elems(idlequeue) \ Out
  BY <1>1, PurgeType DEF PurgeQueues
<1>3. Waiting' \subseteq Waiting \ Out
  BY <1>2 DEF Waiting
<1> QED BY <1>3 DEF KeepsWaiting

\* A closed transfer keeps its host and pack, and a done one stays done.
LEMMA ClosedKeeps ==
  ASSUME TypeOK, NEW S
  PROVE  \A x \in Elems(Closed(S)) : \E t \in Elems(trans) :
           x.host = t.host /\ x.pack = t.pack /\ (t.done => x.done)
<1>1. trans \in Seq(Transfer) /\ DOMAIN trans = 1..Len(trans)
  BY DEF TypeOK
<1>2. DOMAIN Closed(S) = DOMAIN trans
  BY DEF Closed
<1>3. ASSUME NEW i \in DOMAIN trans
      PROVE  /\ Closed(S)[i].host = trans[i].host /\ Closed(S)[i].pack = trans[i].pack
             /\ trans[i].done => Closed(S)[i].done
  <2>1. trans[i] \in Transfer
    BY Elements
  <2>2. \A t \in Transfer : /\ [t EXCEPT !.done = TRUE].host = t.host
                            /\ [t EXCEPT !.done = TRUE].pack = t.pack
                            /\ [t EXCEPT !.done = TRUE].done
    BY DEF Transfer
  <2>3. Closed(S)[i] = IF i \in S THEN [trans[i] EXCEPT !.done = TRUE] ELSE trans[i]
    BY <1>1, ClosedType
  <2> QED BY <2>1, <2>2, <2>3
<1> QED BY <1>2, <1>3 DEF Elems

\* A step that leaves the queues, or the transfers, alone.
LEMMA SameKeeps ==
  /\ UNCHANGED queues => KeepsWaiting
  /\ UNCHANGED trans => KeepsTrans
BY DEF queues, KeepsWaiting, Waiting, KeepsTrans, Elems

\* A step that closes transfers.
LEMMA CloseKeeps ==
  ASSUME TypeOK, \E S : trans' = Closed(S)
  PROVE  KeepsTrans
BY ClosedKeeps DEF KeepsTrans

\* What StartTransfer adds to the transfers is e.
LEMMA StartAdds ==
  ASSUME TypeOK, NEW e \in Entry, StartTransfer(e)
  PROVE  \A x \in Elems(trans') :
           \/ \E t \in Elems(trans) : x.host = t.host /\ x.pack = t.pack /\ (t.done => x.done)
           \/ x.host = e.host /\ x.pack = e.pack
<1>1. PICK changed \in BOOLEAN, failed \in BOOLEAN :
        trans' = Append(IF changed THEN Closed(TransferOfPack(e.pack)) ELSE trans,
                        [nick |-> e.nick, host |-> e.host, net |-> e.net,
                         pack |-> e.pack, done |-> failed])
  BY DEF StartTransfer
<1> DEFINE y == [nick |-> e.nick, host |-> e.host, net |-> e.net,
                 pack |-> e.pack, done |-> failed]
           q == IF changed THEN Closed(TransferOfPack(e.pack)) ELSE trans
<1>2. y \in Transfer /\ y.host = e.host /\ y.pack = e.pack
  BY DEF Entry, Transfer
<1>3. q \in Seq(Transfer)
  <2>1. trans \in Seq(Transfer)
    BY DEF TypeOK
  <2>2. Closed(TransferOfPack(e.pack)) \in Seq(Transfer)
    BY <2>1, ClosedType
  <2> QED BY <2>1, <2>2
<1>4. \A x \in Elems(q) : \E t \in Elems(trans) :
        x.host = t.host /\ x.pack = t.pack /\ (t.done => x.done)
  BY ClosedKeeps
<1>5. trans' = Append(q, y)
  BY <1>1
<1> HIDE DEF y, q
<1>6. Elems(trans') = Elems(q) \cup {y}
  <2>1. DOMAIN trans' = 1..(Len(q) + 1) /\ DOMAIN q = 1..Len(q) /\ Len(q) \in Nat
    BY <1>2, <1>3, <1>5
  <2>2. \A i \in 1..Len(q) : trans'[i] = q[i]
    BY <1>2, <1>3, <1>5
  <2>3. trans'[Len(q) + 1] = y
    BY <1>2, <1>3, <1>5
  <2> QED BY <2>1, <2>2, <2>3 DEF Elems
<1> QED BY <1>2, <1>4, <1>6

\* A step that lets nobody in and changes no status keeps the three invariants.
LEMMA KeepsServed ==
  ASSUME ServedInv, TypeOK', KeepsWaiting, KeepsTrans,
         UNCHANGED <<packs, today, over, exiting>>
  PROVE  ServedInv'
<1>1. OverLimitDrained'
  BY DEF ServedInv, OverLimitDrained, KeepsWaiting, KeepsTrans, Waiting, Requeued
<1>2. RemovedPackUnused'
  BY DEF ServedInv, RemovedPackUnused, KeepsWaiting, KeepsTrans, Waiting, Requeued
<1>3. LimitedPackNotQueued'
  BY DEF ServedInv, LimitedPackNotQueued, KeepsWaiting, Waiting, Requeued
<1> QED BY <1>1, <1>2, <1>3 DEF ServedInv

\* The end of a transfer, which may bring its pack to the daily limit.
LEMMA EndServed ==
  ASSUME ServedInv, TypeOK', NEW i \in DOMAIN trans, NEW complete \in BOOLEAN,
         EndTransfer(i, complete)
  PROVE  ServedInv'
<1> DEFINE p == trans[i].pack
           n == IF complete /\ today[p] < Bound THEN today[p] + 1 ELSE today[p]
           Out == IF complete /\ LimitReached(p, n) THEN OfPack(p) ELSE {}
<1>0. TypeOK /\ p \in Pack /\ today \in [Pack -> Nat] /\ DLimit \in [Pack -> Nat]
  BY Elements, ConfigAssumption DEF ServedInv, TypeOK
<1>1. /\ PurgeQueues(Out) /\ trans' = Closed({i}) /\ today' = [today EXCEPT ![p] = n]
      /\ UNCHANGED <<packs, over, exiting>>
  BY DEF EndTransfer
<1>2. n \in Nat
  BY <1>0
<1>3. Waiting' \subseteq Waiting \ Out /\ KeepsWaiting
  <2> HIDE DEF Out
  <2> QED BY <1>0, <1>1, PurgeWaiting
<1>4. KeepsTrans
  BY <1>0, <1>1, CloseKeeps
<1>5. OverLimitDrained' /\ RemovedPackUnused'
  <2>1. KeepsWaiting /\ KeepsTrans /\ UNCHANGED <<packs, over, exiting>>
    BY <1>1, <1>3, <1>4
  <2>2. OverLimitDrained'
    BY <2>1 DEF ServedInv, OverLimitDrained, KeepsWaiting, KeepsTrans, Waiting, Requeued
  <2>3. RemovedPackUnused'
    BY <2>1 DEF ServedInv, RemovedPackUnused, KeepsWaiting, KeepsTrans, Waiting, Requeued
  <2> QED BY <2>2, <2>3
<1>6. ASSUME NEW x \in Waiting', ~Requeued
      PROVE  x.host = Man \/ DLimit[x.pack] = 0 \/ today'[x.pack] < DLimit[x.pack]
  <2>1. /\ x \in Waiting /\ x \notin Out /\ x \in Entry /\ x.pack \in Pack
        /\ x.host = Man \/ DLimit[x.pack] = 0 \/ today[x.pack] < DLimit[x.pack]
    BY <1>0, <1>3, <1>6, WaitingType DEF ServedInv, LimitedPackNotQueued, Waiting, Entry
  <2>2. CASE x.pack # p
    BY <1>0, <1>1, <2>1, <2>2
  <2>3. CASE x.pack = p
    <3>1. today'[x.pack] = n
      BY <1>0, <1>1, <2>3
    <3>2. CASE ~complete
      BY <2>1, <2>3, <3>1, <3>2
    <3>3. CASE complete
      <4>1. x \in OfPack(p)
        BY <2>1, <2>3 DEF OfPack
      <4>2. ~LimitReached(p, n)
        BY <2>1, <3>3, <4>1
      <4>3. DLimit[p] = 0 \/ ~(n >= DLimit[p])
        BY <4>2 DEF LimitReached
      <4> QED BY <1>0, <1>2, <2>3, <3>1, <4>3
    <3> QED BY <3>2, <3>3
  <2> QED BY <2>2, <2>3
<1>7. LimitedPackNotQueued'
  BY <1>1, <1>6 DEF LimitedPackNotQueued, Waiting, Requeued
<1> QED BY <1>5, <1>7 DEF ServedInv

\* The pending calls only move what waits: from queue to queue and into transfers.
LEMMA ServedCallStep == ServedInv /\ CallStep => ServedInv'
<1> SUFFICES ASSUME ServedInv, CallStep PROVE ServedInv'
  OBVIOUS
<1>0. TypeOK /\ TypeOK'
  BY CallStepType DEF ServedInv
<1>1. CASE SendFromQueue_Send
  <2> DEFINE i == First(SendChoice)
  <2>1. /\ i \in DOMAIN mainqueue /\ StartTransfer(mainqueue[i])
        /\ mainqueue' = Drop(mainqueue, i)
        /\ UNCHANGED <<idlequeue, packs, today, over, exiting>>
    BY <1>0, <1>1, ChoiceType DEF SendFromQueue_Send, status
  <2> HIDE DEF i
  <2>2. mainqueue[i] \in Entry /\ mainqueue[i] \in Waiting
    BY <1>0, <2>1, Elements DEF Waiting, Elems
  <2>3. KeepsTrans
    BY <1>0, <2>1, <2>2, StartAdds DEF KeepsTrans
  <2>4. mainqueue \in Seq(Entry)
    BY <1>0 DEF TypeOK
  <2>5. Elems(mainqueue') \subseteq Elems(mainqueue)
    BY <2>1, <2>4, DropType
  <2>6. KeepsWaiting
    BY <2>1, <2>5 DEF KeepsWaiting, Waiting
  <2> QED BY <1>0, <2>1, <2>3, <2>6, KeepsServed
<1>2. CASE SendFromQueue_Nobody \/ StartOneSend \/ CheckIdleQueue_Nothing \/ MainReady
  <2>1. UNCHANGED <<queues, trans, status>>
    BY <1>2 DEF SendFromQueue_Nobody, StartOneSend, CheckIdleQueue_Nothing, MainReady
  <2> QED BY <1>0, <2>1, SameKeeps, KeepsServed DEF status
<1>3. CASE CheckIdleQueue_Move
  <2> DEFINE i == First(IdleChoice)
  <2>1. /\ i \in DOMAIN idlequeue /\ mainqueue' = Append(mainqueue, idlequeue[i])
        /\ idlequeue' = Drop(idlequeue, i) /\ UNCHANGED <<trans, packs, today, over, exiting>>
    BY <1>0, <1>3, ChoiceType DEF CheckIdleQueue_Move, status
  <2> HIDE DEF i
  <2>2. /\ mainqueue \in Seq(Entry) /\ idlequeue \in Seq(Entry) /\ idlequeue[i] \in Entry
        /\ idlequeue[i] \in Elems(idlequeue)
    BY <1>0, <2>1, Elements DEF TypeOK, Elems
  <2>3. /\ Elems(mainqueue') = Elems(mainqueue) \cup {idlequeue[i]}
        /\ Elems(idlequeue') \subseteq Elems(idlequeue)
    BY <2>1, <2>2, AppendElems, DropType
  <2>4. KeepsWaiting
    BY <2>2, <2>3 DEF KeepsWaiting, Waiting
  <2> QED BY <1>0, <2>1, <2>4, SameKeeps, KeepsServed
<1>4. CASE Perform_Visit
  <2>1. CASE UNCHANGED <<queues, trans, config, status>>
    BY <1>0, <2>1, SameKeeps, KeepsServed DEF status
  <2>2. CASE \E complete \in BOOLEAN : EndTransfer(Arg, complete)
    BY <1>0, <1>4, <2>2, EndServed DEF Perform_Visit
  <2> QED BY <1>4, <2>1, <2>2 DEF Perform_Visit
<1>5. CASE Perform_Delete
  <2>1. /\ Arg \in DOMAIN trans /\ trans' = Drop(trans, Arg)
        /\ UNCHANGED <<queues, packs, today, over, exiting>>
    BY <1>5 DEF Perform_Delete, status
  <2>2. trans \in Seq(Transfer)
    BY <1>0 DEF TypeOK
  <2>3. Elems(trans') \subseteq Elems(trans)
    BY <2>1, <2>2, DropType
  <2>4. KeepsTrans
    BY <2>3 DEF KeepsTrans
  <2> QED BY <1>0, <2>1, <2>4, SameKeeps, KeepsServed
<1> QED BY <1>1, <1>2, <1>3, <1>4, <1>5 DEF CallStep

\* A step that lets e in, as an entry or as a transfer, when e may be served.
LEMMA AddsServed ==
  ASSUME ServedInv, TypeOK', NEW e \in Entry, e.pack \in packs,
         e.host = Man \/ (~over /\ ~LimitReached(e.pack, today[e.pack])),
         KeepsWaiting \/ Waiting' \subseteq Waiting \cup {e},
         KeepsTrans \/ StartTransfer(e),
         UNCHANGED <<packs, today, over, exiting>>
  PROVE  ServedInv'
<1>0. TypeOK /\ e.pack \in Pack
  BY DEF ServedInv, Entry
<1>1. \A x \in Waiting' : \/ \E f \in Waiting : x.host = f.host /\ x.pack = f.pack
                          \/ x.host = e.host /\ x.pack = e.pack
  BY DEF KeepsWaiting
<1>2. \A x \in Elems(trans') :
        \/ \E t \in Elems(trans) : x.host = t.host /\ x.pack = t.pack /\ (t.done => x.done)
        \/ \E f \in Waiting : x.host = f.host /\ x.pack = f.pack
        \/ x.host = e.host /\ x.pack = e.pack
  BY <1>0, StartAdds DEF KeepsTrans
<1>3. OverLimitDrained'
  BY <1>1, <1>2 DEF ServedInv, OverLimitDrained, Waiting, Requeued
<1>4. RemovedPackUnused'
  BY <1>1, <1>2 DEF ServedInv, RemovedPackUnused, Waiting, Requeued
<1>5. LimitedPackNotQueued'
  <2>1. e.host = Man \/ DLimit[e.pack] = 0 \/ today[e.pack] < DLimit[e.pack]
    <3>1. today[e.pack] \in Nat /\ DLimit[e.pack] \in Nat
      BY <1>0, ConfigAssumption DEF TypeOK
    <3> QED BY <3>1 DEF LimitReached
  <2> QED BY <1>1, <2>1 DEF ServedInv, LimitedPackNotQueued, Waiting, Requeued
<1> QED BY <1>3, <1>4, <1>5 DEF ServedInv

\* XDCC SEND looks at the transfer limits, the daily limit and the pack before it
\* lets a request in.
LEMMA ServedUserStep == ServedInv /\ UserStep => ServedInv'
<1> SUFFICES ASSUME ServedInv, UserStep PROVE ServedInv'
  OBVIOUS
<1>0. TypeOK /\ TypeOK'
  BY UserStepType DEF ServedInv
<1>1. ASSUME NEW v \in Visitors, NEW p \in Pack, Request(v, p) PROVE ServedInv'
  <2> DEFINE e == [nick |-> v.nick, host |-> v.host, net |-> v.net, pack |-> p]
  <2>1. e \in Entry /\ e.pack = p
    BY ConfigAssumption DEF Entry
  <2>2. /\ p \in packs /\ ~over /\ ~LimitReached(p, today[p])
        /\ UNCHANGED <<packs, today, over, exiting>>
        /\ \/ AddToMainQueue(e) /\ UNCHANGED trans
           \/ StartTransfer(e) /\ UNCHANGED queues
    BY <1>1 DEF Request, status
  <2> HIDE DEF e
  <2>3. CASE AddToMainQueue(e) /\ UNCHANGED trans
    <3>1. /\ mainqueue' = mainqueue \/ mainqueue' = Append(mainqueue, e)
          /\ idlequeue' = idlequeue \/ idlequeue' = Append(idlequeue, e)
      BY <2>3 DEF AddToMainQueue
    <3>2. mainqueue \in Seq(Entry) /\ idlequeue \in Seq(Entry)
      BY <1>0 DEF TypeOK
    <3>3. /\ Elems(mainqueue') \subseteq Elems(mainqueue) \cup {e}
          /\ Elems(idlequeue') \subseteq Elems(idlequeue) \cup {e}
      BY <2>1, <3>1, <3>2, AppendElems
    <3>4. Waiting' \subseteq Waiting \cup {e}
      BY <3>3 DEF Waiting
    <3>5. KeepsTrans
      BY <2>3, SameKeeps
    <3> QED BY <1>0, <2>1, <2>2, <3>4, <3>5, AddsServed
  <2>4. CASE StartTransfer(e) /\ UNCHANGED queues
    <3>1. KeepsWaiting
      BY <2>4, SameKeeps
    <3> QED BY <1>0, <2>1, <2>2, <2>4, <3>1, AddsServed
  <2> QED BY <2>2, <2>3, <2>4
<1>2. ASSUME NEW v \in Visitors, NEW ps, Remove(v, ps) PROVE ServedInv'
  <2>1. KeepsWaiting /\ KeepsTrans
    BY <1>0, <1>2, PurgeWaiting, SameKeeps DEF Remove
  <2> QED BY <1>0, <1>2, <2>1, KeepsServed DEF Remove, status
<1>3. ASSUME NEW v \in Visitors, Cancel(v) PROVE ServedInv'
  <2>1. KeepsWaiting /\ KeepsTrans
    BY <1>0, <1>3, CloseKeeps, SameKeeps DEF Cancel
  <2> QED BY <1>0, <1>3, <2>1, KeepsServed DEF Cancel, status
<1>4. ASSUME NEW i \in 1..Len(trans), PunishSlow(i) PROVE ServedInv'
  <2>1. KeepsWaiting /\ KeepsTrans
    BY <1>0, <1>4, PurgeWaiting, CloseKeeps DEF PunishSlow
  <2> QED BY <1>0, <1>4, <2>1, KeepsServed DEF PunishSlow, status
<1>5. ASSUME NEW i \in 1..Len(trans), TransferEnds(i) PROVE ServedInv'
  BY <1>0, <1>5, EndServed DEF TransferEnds
<1>6. ASSUME NEW S, PunishDuplicateIp(S) PROVE ServedInv'
  <2>1. KeepsWaiting /\ KeepsTrans
    BY <1>0, <1>6, PurgeWaiting, CloseKeeps DEF PunishDuplicateIp
  <2> QED BY <1>0, <1>6, <2>1, KeepsServed DEF PunishDuplicateIp, status
<1> QED BY <1>1, <1>2, <1>3, <1>4, <1>5, <1>6 DEF UserStep

Renamed(q, old, new) ==
  [i \in DOMAIN q |-> [q[i] EXCEPT !.nick = IF @ = old THEN new ELSE @]]

\* Renaming a user keeps the hosts, the packs and what is done.
LEMMA RenamedElems ==
  ASSUME TypeOK, NEW old, NEW new
  PROVE  /\ \A x \in Elems(Renamed(mainqueue, old, new)) : \E y \in Elems(mainqueue) :
              x.host = y.host /\ x.pack = y.pack
         /\ \A x \in Elems(Renamed(idlequeue, old, new)) : \E y \in Elems(idlequeue) :
              x.host = y.host /\ x.pack = y.pack
         /\ \A x \in Elems(Renamed(trans, old, new)) : \E y \in Elems(trans) :
              x.host = y.host /\ x.pack = y.pack /\ x.done = y.done
<1> DEFINE R(y) == [y EXCEPT !.nick = IF @ = old THEN new ELSE @]
<1>1. \A y \in Entry : R(y).host = y.host /\ R(y).pack = y.pack
  BY DEF Entry
<1>2. \A y \in Transfer : R(y).host = y.host /\ R(y).pack = y.pack /\ R(y).done = y.done
  BY DEF Transfer
<1>3. \A q : \A x \in Elems(Renamed(q, old, new)) : \E i \in DOMAIN q : x = R(q[i])
  BY DEF Elems, Renamed
<1>4. \A q : \A i \in DOMAIN q : q[i] \in Elems(q)
  BY DEF Elems
<1>5. /\ \A i \in DOMAIN mainqueue : mainqueue[i] \in Entry
      /\ \A i \in DOMAIN idlequeue : idlequeue[i] \in Entry
      /\ \A i \in DOMAIN trans : trans[i] \in Transfer
  BY Elements
<1> HIDE DEF R
<1> QED BY <1>1, <1>2, <1>3, <1>4, <1>5

\* A nick change lets nobody in.
LEMMA ServedNickStep == ServedInv /\ NickStep => ServedInv'
<1> SUFFICES ASSUME ServedInv, NEW old \in Nick, NEW new \in Nick, NickChange(old, new)
             PROVE  ServedInv'
  BY DEF NickStep
<1>0. TypeOK /\ TypeOK'
  BY NickStepType DEF ServedInv, NickStep
<1>1. /\ trans' = Renamed(trans, old, new) /\ idlequeue' = Renamed(idlequeue, old, new)
      /\ \E K : mainqueue' = Keep(Renamed(mainqueue, old, new), DOMAIN Renamed(mainqueue, old, new) \ K)
      /\ UNCHANGED <<packs, today, over, exiting>>
  BY DEF NickChange, status, Renamed
<1>2. Renamed(mainqueue, old, new) \in Seq(Entry)
  BY <1>0, RenamedType DEF TypeOK, Renamed
<1>3. /\ \A x \in Elems(Renamed(mainqueue, old, new)) : \E y \in Elems(mainqueue) :
           x.host = y.host /\ x.pack = y.pack
      /\ \A x \in Elems(Renamed(idlequeue, old, new)) : \E y \in Elems(idlequeue) :
           x.host = y.host /\ x.pack = y.pack
      /\ \A x \in Elems(Renamed(trans, old, new)) : \E y \in Elems(trans) :
           x.host = y.host /\ x.pack = y.pack /\ x.done = y.done
  BY <1>0, RenamedElems
<1>4. Elems(mainqueue') \subseteq Elems(Renamed(mainqueue, old, new))
  <2>1. PICK K : mainqueue' = Keep(Renamed(mainqueue, old, new), DOMAIN Renamed(mainqueue, old, new) \ K)
    BY <1>1
  <2> DEFINE L == DOMAIN Renamed(mainqueue, old, new) \ K
  <2>2. L \subseteq DOMAIN Renamed(mainqueue, old, new)
    OBVIOUS
  <2>3. \A i \in L : Renamed(mainqueue, old, new)[i] \in Elems(Renamed(mainqueue, old, new))
    BY DEF Elems
  <2>4. mainqueue' = Keep(Renamed(mainqueue, old, new), L)
    BY <2>1
  <2> HIDE DEF L
  <2>5. mainqueue' \in Seq({Renamed(mainqueue, old, new)[i] : i \in L})
    BY <1>2, <2>2, <2>4, KeepType
  <2> QED BY <2>3, <2>5 DEF Elems
<1>5. KeepsWaiting
  BY <1>1, <1>3, <1>4 DEF KeepsWaiting, Waiting
<1>6. KeepsTrans
  BY <1>1, <1>3 DEF KeepsTrans
<1> QED BY <1>0, <1>1, <1>5, <1>6, KeepsServed

\* reverify_restrictsend lets nobody in.
LEMMA DropGoneKeeps ==
  ASSUME TypeOK, NEW gone, DropGone(gone)
  PROVE  KeepsWaiting /\ KeepsTrans
<1>1. PICK S, Out : trans' = Closed(S) /\ PurgeQueues(Out)
  BY DEF DropGone
<1> QED BY <1>1, PurgeWaiting, CloseKeeps

\* A used up limit empties the queues and closes the transfers.
LEMMA ServedClockStep == ServedInv /\ ClockStep => ServedInv'
<1> SUFFICES ASSUME ServedInv, ClockStep PROVE ServedInv'
  OBVIOUS
<1>0. TypeOK /\ TypeOK'
  BY ClockStepType DEF ServedInv
<1>1. ASSUME NEW n \in Net, NetDown(n) \/ NetConnect(n) \/ NetJoined(n) \/ NetSilent(n)
      PROVE  ServedInv'
  <2>1. UNCHANGED <<queues, trans, packs, today, over, exiting>>
    BY <1>1 DEF NetDown, NetConnect, NetJoined, NetSilent
  <2> QED BY <1>0, <2>1, SameKeeps, KeepsServed
<1>2. CASE SecondTick \/ ThreeMinutes
  <2>1. UNCHANGED <<queues, trans, status>>
    BY <1>2 DEF SecondTick, ThreeMinutes
  <2> QED BY <1>0, <2>1, SameKeeps, KeepsServed DEF status
<1>3. CASE Reverify \/ Minute
  <2>1. KeepsWaiting /\ KeepsTrans /\ UNCHANGED status
    BY <1>0, <1>3, DropGoneKeeps DEF Reverify, Minute
  <2> QED BY <1>0, <2>1, KeepsServed DEF status
<1>4. CASE TransferLimit
  <2>1. /\ PurgeQueues(Entry) /\ trans' = Closed(DOMAIN trans)
        /\ UNCHANGED <<packs, today, exiting>>
    BY <1>4 DEF TransferLimit
  <2>2. Waiting' = {}
    BY <1>0, <2>1, PurgeWaiting, WaitingType
  <2>3. \A x \in Elems(trans') : x.done
    <3>1. trans \in Seq(Transfer) /\ DOMAIN trans = 1..Len(trans)
      BY <1>0 DEF TypeOK
    <3>2. DOMAIN trans' = DOMAIN trans
      BY <2>1 DEF Closed
    <3>3. ASSUME NEW i \in DOMAIN trans PROVE trans'[i].done
      <4>1. trans[i] \in Transfer /\ trans'[i] = [trans[i] EXCEPT !.done = TRUE]
        BY <1>0, <2>1, <3>1, Elements, ClosedType
      <4>2. \A t \in Transfer : [t EXCEPT !.done = TRUE].done
        BY DEF Transfer
      <4> QED BY <4>1, <4>2
    <3> QED BY <3>2, <3>3 DEF Elems
  <2>4. OverLimitDrained' /\ RemovedPackUnused' /\ LimitedPackNotQueued'
    BY <2>2, <2>3 DEF OverLimitDrained, RemovedPackUnused, LimitedPackNotQueued, Waiting
  <2> QED BY <1>0, <2>4 DEF ServedInv
<1>5. CASE NewPeriod
  <2>1. /\ UNCHANGED <<queues, trans, packs, exiting>>
        /\ over' = over \/ over' = FALSE
        /\ today' = today \/ today' = [p \in Pack |-> 0]
    BY <1>5 DEF NewPeriod
  <2>2. Waiting' = Waiting /\ Elems(trans') = Elems(trans) /\ Requeued' = Requeued
    BY <2>1 DEF Waiting, Elems, queues, Requeued
  <2>3. OverLimitDrained'
    BY <2>1, <2>2 DEF ServedInv, OverLimitDrained, Waiting
  <2>4. RemovedPackUnused'
    BY <2>1, <2>2 DEF ServedInv, RemovedPackUnused, Waiting
  <2>5. \A x \in Waiting : today'[x.pack] = today[x.pack] \/ today'[x.pack] = 0
    BY <1>0, <2>1, WaitingType DEF Entry
  <2>6. \A x \in Waiting : DLimit[x.pack] \in Nat
    BY <1>0, WaitingType, ConfigAssumption DEF Entry
  <2>7. LimitedPackNotQueued'
    BY <2>2, <2>5, <2>6 DEF ServedInv, LimitedPackNotQueued, Waiting
  <2> QED BY <1>0, <2>3, <2>4, <2>7 DEF ServedInv
<1> QED BY <1>1, <1>2, <1>3, <1>4, <1>5 DEF ClockStep

\* What the administrator lets in is his own, and REMOVE of a pack takes its
\* requests and transfers with it.
LEMMA ServedAdminStep == ServedInv /\ AdminStep => ServedInv'
<1> SUFFICES ASSUME ServedInv, AdminStep PROVE ServedInv'
  OBVIOUS
<1> DEFINE E == [nick : Nick, host : {Man}, net : Net, pack : Pack]
<1>0. TypeOK /\ TypeOK' /\ mainqueue \in Seq(Entry) /\ idlequeue \in Seq(Entry)
  BY AdminStepType DEF ServedInv, TypeOK
<1>a. \A e \in E : e \in Entry /\ e.host = Man
  BY DEF Entry
<1> HIDE DEF E
<1>1. CASE Shutdown
  <2>1. /\ exiting' = TRUE /\ trans' = Closed(DOMAIN trans) /\ idlequeue' = idlequeue
        /\ UNCHANGED <<packs, today, over>>
        /\ requeue_sends \/ mainqueue' = mainqueue
    BY <1>1 DEF Shutdown
  <2>2. CASE requeue_sends
    BY <1>0, <2>1, <2>2
       DEF ServedInv, OverLimitDrained, RemovedPackUnused, LimitedPackNotQueued, Requeued
  <2>3. CASE ~requeue_sends
    <3>1. ~Requeued
      BY <2>3 DEF Requeued
    <3>2. KeepsTrans /\ KeepsWaiting
      BY <1>0, <2>1, <2>3, CloseKeeps, SameKeeps DEF queues
    <3>3. OverLimitDrained'
      BY <2>1, <3>1, <3>2 DEF ServedInv, OverLimitDrained, KeepsWaiting, KeepsTrans, Waiting
    <3>4. RemovedPackUnused'
      BY <2>1, <3>1, <3>2 DEF ServedInv, RemovedPackUnused, KeepsWaiting, KeepsTrans, Waiting
    <3>5. LimitedPackNotQueued'
      BY <2>1, <3>1, <3>2 DEF ServedInv, LimitedPackNotQueued, KeepsWaiting, Waiting
    <3> QED BY <1>0, <3>3, <3>4, <3>5 DEF ServedInv
  <2> QED BY <2>2, <2>3
<1>2. ASSUME NEW e \in E, A_Send(e) PROVE ServedInv'
  <2>1. KeepsWaiting
    BY <1>2, SameKeeps DEF A_Send
  <2> QED BY <1>0, <1>a, <1>2, <2>1, AddsServed DEF A_Send, status
<1>3. ASSUME NEW e \in E, NEW at \in Net, A_Queue(e, at) \/ A_IQueue(e, at) PROVE ServedInv'
  <2>1. /\ mainqueue' = mainqueue \/ mainqueue' = Append(mainqueue, e)
        /\ idlequeue' = idlequeue \/ idlequeue' = Append(idlequeue, e)
        /\ e.pack \in packs /\ UNCHANGED trans /\ UNCHANGED <<packs, today, over, exiting>>
    BY <1>3 DEF A_Queue, A_IQueue, status
  <2>2. /\ Elems(mainqueue') \subseteq Elems(mainqueue) \cup {e}
        /\ Elems(idlequeue') \subseteq Elems(idlequeue) \cup {e}
    <3>1. /\ Elems(Append(mainqueue, e)) = Elems(mainqueue) \cup {e}
          /\ Elems(Append(idlequeue, e)) = Elems(idlequeue) \cup {e}
      <4>1. e \in Entry
        BY <1>a
      <4> QED BY <1>0, <4>1, AppendElems
    <3> QED BY <2>1, <3>1
  <2>3. Waiting' \subseteq Waiting \cup {e}
    BY <2>2 DEF Waiting
  <2> QED BY <1>0, <1>a, <2>1, <2>3, SameKeeps, AddsServed
<1>4. CASE (\E pos \in 0..Bound : A_QSend(pos) \/ A_IQSend(pos)) \/ A_Slots
           \/ (\E val \in BOOLEAN : A_HoldQueue(val))
  <2>1. UNCHANGED <<queues, trans, status>>
    BY <1>4 DEF A_QSend, A_IQSend, A_Slots, A_HoldQueue
  <2> QED BY <1>0, <2>1, SameKeeps, KeepsServed DEF status
<1>5. CASE A_Requeue
  <2>1. /\ Elems(mainqueue') \subseteq Elems(mainqueue)
        /\ Elems(idlequeue') \subseteq Elems(idlequeue)
        /\ UNCHANGED <<trans, status>>
    BY <1>0, <1>5, MovedType DEF A_Requeue
  <2>2. KeepsWaiting
    BY <2>1 DEF KeepsWaiting, Waiting
  <2> QED BY <1>0, <2>1, <2>2, SameKeeps, KeepsServed DEF status
<1>6. CASE A_Rmq
  <2>1. UNCHANGED <<trans, status>>
    BY <1>6 DEF A_Rmq
  <2>2. CASE PurgeQueues(Entry)
    BY <1>0, <2>1, <2>2, PurgeWaiting, SameKeeps, KeepsServed DEF status
  <2>3. CASE \/ \E i \in DOMAIN mainqueue : mainqueue' = Drop(mainqueue, i) /\ UNCHANGED idlequeue
             \/ \E i \in DOMAIN idlequeue : idlequeue' = Drop(idlequeue, i) /\ UNCHANGED mainqueue
    <3>1. /\ Elems(mainqueue') \subseteq Elems(mainqueue)
          /\ Elems(idlequeue') \subseteq Elems(idlequeue)
      BY <1>0, <2>3, DropType
    <3>2. KeepsWaiting
      BY <3>1 DEF KeepsWaiting, Waiting
    <3> QED BY <1>0, <2>1, <3>2, SameKeeps, KeepsServed DEF status
  <2> QED BY <1>6, <2>2, <2>3 DEF A_Rmq
<1>7. ASSUME NEW n \in Net, NEW k \in Nick, A_BannNick(n, k) PROVE ServedInv'
  <2>1. KeepsWaiting /\ KeepsTrans
    BY <1>0, <1>7, PurgeWaiting, CloseKeeps DEF A_BannNick
  <2> QED BY <1>0, <1>7, <2>1, KeepsServed DEF A_BannNick, status
<1>8. CASE A_Rehash
  <2>1. KeepsWaiting /\ KeepsTrans /\ UNCHANGED status
    BY <1>0, <1>8, DropGoneKeeps DEF A_Rehash
  <2> QED BY <1>0, <2>1, KeepsServed DEF status
<1>9. ASSUME NEW p \in Pack, A_RemovePack(p) PROVE ServedInv'
  <2>1. /\ PurgeQueues(OfPack(p)) /\ trans' = Closed(TransferOfPack(p))
        /\ packs' = packs \ {p} /\ UNCHANGED <<today, over, exiting>>
    BY <1>9 DEF A_RemovePack
  <2>2. Waiting' \subseteq Waiting \ OfPack(p) /\ KeepsWaiting /\ KeepsTrans
    BY <1>0, <2>1, PurgeWaiting, CloseKeeps
  <2>3. \A x \in Waiting' : x \in Waiting /\ x.pack # p
    BY <1>0, <2>2, WaitingType DEF OfPack
  <2>4. \A x \in Elems(trans') :
          \E t \in Elems(trans) : x.pack = t.pack /\ (t.done \/ t.pack = p => x.done)
    <3>1. trans \in Seq(Transfer) /\ DOMAIN trans = 1..Len(trans)
      BY <1>0 DEF TypeOK
    <3>2. DOMAIN trans' = DOMAIN trans
      BY <2>1 DEF Closed
    <3>3. ASSUME NEW i \in DOMAIN trans
          PROVE  trans'[i].pack = trans[i].pack
                 /\ (trans[i].done \/ trans[i].pack = p => trans'[i].done)
      <4>1. /\ trans[i] \in Transfer
            /\ trans'[i] = IF i \in TransferOfPack(p) THEN [trans[i] EXCEPT !.done = TRUE] ELSE trans[i]
        BY <1>0, <2>1, <3>1, Elements, ClosedType
      <4>2. \A t \in Transfer : [t EXCEPT !.done = TRUE].done /\ [t EXCEPT !.done = TRUE].pack = t.pack
        BY DEF Transfer
      <4> QED BY <4>1, <4>2 DEF TransferOfPack
    <3> QED BY <3>2, <3>3 DEF Elems
  <2>5. OverLimitDrained'
    BY <2>1, <2>2 DEF ServedInv, OverLimitDrained, KeepsWaiting, KeepsTrans, Waiting, Requeued
  <2>6. RemovedPackUnused'
    BY <2>1, <2>3, <2>4 DEF ServedInv, RemovedPackUnused, Waiting, Requeued
  <2>7. LimitedPackNotQueued'
    BY <2>1, <2>3 DEF ServedInv, LimitedPackNotQueued, Waiting, Requeued
  <2> QED BY <1>0, <2>5, <2>6, <2>7 DEF ServedInv
<1> QED BY <1>1, <1>2, <1>3, <1>4, <1>5, <1>6, <1>7, <1>8, <1>9 DEF AdminStep, E

\* At the start no limit is reached and every pack is offered.
LEMMA ServedInit == Init => ServedInv
<1> SUFFICES ASSUME Init PROVE ServedInv
  OBVIOUS
<1>1. TypeOK
  BY InitTypeOK
<1>2. trans = <<>> /\ packs = Pack /\ today = [p \in Pack |-> 0] /\ over = FALSE
  BY DEF Init
<1>3. Elems(trans) = {}
  BY <1>2 DEF Elems
<1>4. \A x \in Waiting : x.pack \in Pack /\ DLimit[x.pack] \in Nat
  BY <1>1, WaitingType, ConfigAssumption DEF Entry
<1>5. OverLimitDrained /\ RemovedPackUnused /\ LimitedPackNotQueued
  BY <1>2, <1>3, <1>4
     DEF OverLimitDrained, RemovedPackUnused, LimitedPackNotQueued, Waiting
<1> QED BY <1>1, <1>5 DEF ServedInv

\* The three invariants, with the types, hold in every state.
THEOREM ServedInvariant == Spec => []ServedInv
<1>1. ServedInv /\ [Next]_vars => ServedInv'
  <2>1. ASSUME ServedInv, UNCHANGED vars PROVE ServedInv'
    <3>1. TypeOK' /\ UNCHANGED <<queues, trans, packs, today, over, exiting>>
      BY <2>1, NextTypeOK DEF ServedInv, vars, status
    <3> QED BY <2>1, <3>1, SameKeeps, KeepsServed
  <2> QED BY <2>1, ServedCallStep, ServedUserStep, ServedNickStep, ServedClockStep,
             ServedAdminStep DEF Next
<1> QED BY <1>1, ServedInit, PTL DEF Spec

\* Over a transfer limit no user waits and no user is served.
THEOREM OverLimitDrainedHolds == Spec => []OverLimitDrained
<1> QED BY ServedInvariant, PTL DEF ServedInv

\* Nothing that is queued or running refers to a removed pack.
THEOREM RemovedPackUnusedHolds == Spec => []RemovedPackUnused
<1> QED BY ServedInvariant, PTL DEF ServedInv

\* Nobody waits for a pack that has reached its daily limit.
THEOREM LimitedPackNotQueuedHolds == Spec => []LimitedPackNotQueued
<1> QED BY ServedInvariant, PTL DEF ServedInv

-----------------------------------------------------------------------------
(* HoldFreezes *)

\* A removal does not lengthen the main queue.
LEMMA PurgeShrinks ==
  ASSUME TypeOK, NEW Out, PurgeQueues(Out)
  PROVE  Len(mainqueue') <= Len(mainqueue)
<1>1. mainqueue \in Seq(Entry) /\ mainqueue' = Purge(mainqueue, Out)
  BY DEF TypeOK, PurgeQueues
<1>2. Len(mainqueue') \in 0..Len(mainqueue)
  BY <1>1, PurgeType
<1> QED BY <1>1, <1>2

\* A step that adds no transfer, and takes nothing from the idle queue unless the
\* main queue shrinks as well, respects the hold.
Frozen ==
  /\ Len(trans') <= Len(trans)
  /\ Len(idlequeue') < Len(idlequeue) => Len(mainqueue') <= Len(mainqueue)

\* Lengths are numbers, and closing transfers keeps them.
LEMMA Lengths ==
  ASSUME TypeOK
  PROVE  /\ Len(mainqueue) \in Nat /\ Len(idlequeue) \in Nat /\ Len(trans) \in Nat
         /\ \A S : Len(Closed(S)) = Len(trans)
BY ClosedType DEF TypeOK

\* The shapes of the steps that respect the hold.
LEMMA FrozenFacts ==
  ASSUME TypeOK
  PROVE  /\ UNCHANGED <<queues, trans>> => Frozen
         /\ UNCHANGED queues /\ (\E S : trans' = Closed(S)) => Frozen
         /\ UNCHANGED trans /\ (\E Out : PurgeQueues(Out)) => Frozen
         /\ (\E S : trans' = Closed(S)) /\ (\E Out : PurgeQueues(Out)) => Frozen
BY Lengths, PurgeShrinks DEF Frozen, queues

\* Every step under HOLDQUEUE respects it: send_from_queue and check_idle_queue
\* return early, and XDCC SEND does not start a transfer.
LEMMA HoldStep == TypeOK /\ [QuietStep]_vars /\ holdqueue /\ holdqueue' => Frozen
<1> SUFFICES ASSUME TypeOK, [QuietStep]_vars, holdqueue, holdqueue' PROVE Frozen
  OBVIOUS
<1>1. CASE CallStep
  <2>1. SendChoice = {} /\ IdleChoice = {}
    BY DEF SendChoice, IdleChoice
  <2>2. CASE SendFromQueue_Nobody \/ StartOneSend \/ CheckIdleQueue_Nothing \/ MainReady
    <3>1. UNCHANGED <<queues, trans>>
      BY <2>2 DEF SendFromQueue_Nobody, StartOneSend, CheckIdleQueue_Nothing, MainReady
    <3> QED BY <3>1, FrozenFacts
  <2>3. CASE Perform_Visit
    <3>1. CASE \E complete \in BOOLEAN : EndTransfer(Arg, complete)
      BY <3>1, FrozenFacts DEF EndTransfer
    <3>2. CASE UNCHANGED <<queues, trans, config, status>>
      BY <3>2, FrozenFacts
    <3> QED BY <2>3, <3>1, <3>2 DEF Perform_Visit
  <2>4. CASE Perform_Delete
    <3>1. UNCHANGED queues /\ Arg \in DOMAIN trans /\ trans' = Drop(trans, Arg)
      BY <2>4 DEF Perform_Delete
    <3>2. trans \in Seq(Transfer)
      BY DEF TypeOK
    <3>3. Len(trans') = Len(trans) - 1
      BY <3>1, <3>2, DropType
    <3> QED BY <3>1, <3>3, Lengths DEF Frozen, queues
  <2> QED BY <1>1, <2>1, <2>2, <2>3, <2>4
         DEF CallStep, SendFromQueue_Send, CheckIdleQueue_Move
<1>2. CASE UserStep
  <2>1. ASSUME NEW v \in Visitors, NEW p \in Pack, Request(v, p) PROVE Frozen
    <3> DEFINE e == [nick |-> v.nick, host |-> v.host, net |-> v.net, pack |-> p]
    <3>1. e \in Entry
      BY ConfigAssumption DEF Entry
    <3>2. AddToMainQueue(e) /\ UNCHANGED trans
      BY <2>1 DEF Request
    <3> HIDE DEF e
    <3>3. idlequeue' = idlequeue \/ idlequeue' = Append(idlequeue, e)
      BY <3>2 DEF AddToMainQueue
    <3>4. idlequeue \in Seq(Entry)
      BY DEF TypeOK
    <3>5. ~(Len(idlequeue') < Len(idlequeue))
      BY <3>1, <3>3, <3>4
    <3> QED BY <3>2, <3>5, Lengths DEF Frozen
  <2>2. ASSUME NEW v \in Visitors, NEW ps, Remove(v, ps) PROVE Frozen
    BY <2>2, FrozenFacts DEF Remove
  <2>3. ASSUME NEW v \in Visitors, Cancel(v) PROVE Frozen
    BY <2>3, FrozenFacts DEF Cancel
  <2>4. ASSUME NEW i \in 1..Len(trans), PunishSlow(i) \/ TransferEnds(i) PROVE Frozen
    BY <2>4, FrozenFacts DEF PunishSlow, TransferEnds, EndTransfer
  <2>5. ASSUME NEW S, PunishDuplicateIp(S) PROVE Frozen
    BY <2>5, FrozenFacts DEF PunishDuplicateIp
  <2> QED BY <1>2, <2>1, <2>2, <2>3, <2>4, <2>5 DEF UserStep
<1>3. CASE NickStep
  <2>1. PICK old \in Nick, new \in Nick : NickChange(old, new)
    BY <1>3 DEF NickStep
  <2>2. /\ trans' = Renamed(trans, old, new) /\ idlequeue' = Renamed(idlequeue, old, new)
    BY <2>1 DEF NickChange, Renamed
  <2>3. /\ trans \in Seq(Transfer) /\ idlequeue \in Seq(Entry)
        /\ trans' \in Seq(Transfer) /\ idlequeue' \in Seq(Entry)
    BY <1>3, NickStepType DEF TypeOK
  <2>4. DOMAIN trans' = DOMAIN trans /\ DOMAIN idlequeue' = DOMAIN idlequeue
    BY <2>2 DEF Renamed
  <2>5. Len(trans') = Len(trans) /\ Len(idlequeue') = Len(idlequeue)
    BY <2>3, <2>4, SameDomain
  <2> QED BY <2>5, Lengths DEF Frozen
<1>4. CASE ClockStep
  <2>1. ASSUME NEW n \in Net, NetDown(n) \/ NetConnect(n) \/ NetJoined(n) \/ NetSilent(n)
        PROVE  Frozen
    <3>1. UNCHANGED <<queues, trans>>
      BY <2>1 DEF NetDown, NetConnect, NetJoined, NetSilent
    <3> QED BY <3>1, FrozenFacts
  <2>2. CASE SecondTick \/ ThreeMinutes \/ NewPeriod
    <3>1. UNCHANGED <<queues, trans>>
      BY <2>2 DEF SecondTick, ThreeMinutes, NewPeriod
    <3> QED BY <3>1, FrozenFacts
  <2>3. CASE Reverify \/ Minute
    BY <2>3, FrozenFacts DEF Reverify, Minute, DropGone
  <2>4. CASE TransferLimit
    BY <2>4, FrozenFacts DEF TransferLimit
  <2> QED BY <1>4, <2>1, <2>2, <2>3, <2>4 DEF ClockStep
<1>5. CASE Shutdown
  BY <1>5, Lengths DEF Shutdown, Frozen
<1>6. CASE (\E val \in BOOLEAN : A_HoldQueue(val)) \/ UNCHANGED vars
  <2>1. UNCHANGED <<queues, trans>>
    BY <1>6 DEF A_HoldQueue, vars
  <2> QED BY <2>1, FrozenFacts
<1> QED BY <1>1, <1>2, <1>3, <1>4, <1>5, <1>6 DEF QuietStep

\* While the queue is held no queued request is sent and none moves up.
THEOREM HoldFreezesHolds == QuietSpec => HoldFreezes
<1>1. QuietInv /\ [QuietStep]_vars =>
        [holdqueue /\ holdqueue' =>
           /\ Len(trans') <= Len(trans)
           /\ Len(idlequeue') < Len(idlequeue) => Len(mainqueue') <= Len(mainqueue)]_vars
  BY HoldStep DEF QuietInv, Frozen
<1> QED BY <1>1, QuietInvariant, PTL DEF QuietSpec, HoldFreezes

-----------------------------------------------------------------------------
(* Who waits, and how often.  Both theorems end with a SHUTDOWN that requeues  *)
(* the transfers (Requeued) and both need that the state file kept the promise: *)
(* start_main_queue takes over what the file holds and looks at no limit.       *)

Own(h, n) == {e \in Entry : e.host = h /\ e.net = n}
Asked(h, n, p) == {e \in Entry : e.host = h /\ e.net = n /\ e.pack = p}

\* The state file holds no pack twice for a user.
RestoredOnce ==
  \A q \in Restored, h \in Host, n \in Net, p \in Pack : Count(q, Asked(h, n, p)) <= 1

\* The state file holds no more than the queue it is restored into may hold.
RestoredFits ==
  \A q \in Restored :
    /\ idlequeuesize > 0 =>
         /\ Len(q) <= idlequeuesize
         /\ \A h \in Host, n \in Net : Count(q, Own(h, n)) <= maxidlequeuedperperson
    /\ idlequeuesize = 0 =>
         /\ \A size \in QueueSize : Len(q) <= size
         /\ \A h \in Host, n \in Net : Count(q, Own(h, n)) <= maxqueueditemsperperson

-----------------------------------------------------------------------------
(* What the steps do to the queues *)

\* A kind of entries that a nick change does not change.
Nickless(K) ==
  \A x, y \in Entry :
    x.host = y.host /\ x.net = y.net /\ x.pack = y.pack => (x \in K <=> y \in K)

\* No kind of entries gains one in either queue.
Fewer ==
  \A K : Nickless(K) =>
    /\ Count(mainqueue', K) <= Count(mainqueue, K)
    /\ Count(idlequeue', K) <= Count(idlequeue, K)
Shorter == Len(mainqueue') <= Len(mainqueue) /\ Len(idlequeue') <= Len(idlequeue)

\* check_idle_queue takes one entry from the idle queue to the main queue.
MovesUp(i) ==
  /\ i \in DOMAIN idlequeue
  /\ mainqueue' = Append(mainqueue, idlequeue[i]) /\ idlequeue' = Drop(idlequeue, i)

\* A request of a user is let in.
LetIn == \E e \in Entry : AddToMainQueue(e)

\* The queues are lists of entries, and what they count are numbers.
LEMMA QueueCounts ==
  ASSUME TypeOK
  PROVE  /\ mainqueue \in Seq(Entry) /\ idlequeue \in Seq(Entry)
         /\ Len(mainqueue) \in Nat /\ Len(idlequeue) \in Nat
         /\ \A K : Count(mainqueue, K) \in Nat /\ Count(idlequeue, K) \in Nat
<1>1. mainqueue \in Seq(Entry) /\ idlequeue \in Seq(Entry)
  BY DEF TypeOK
<1>2. ASSUME NEW K PROVE Count(mainqueue, K) \in Nat /\ Count(idlequeue, K) \in Nat
  BY <1>1, CountType
<1> QED BY <1>1, <1>2

\* The kinds the two promises are about do not depend on nicks.
LEMMA Kinds ==
  ASSUME NEW h, NEW n, NEW p
  PROVE  Nickless(Own(h, n)) /\ Nickless(Asked(h, n, p))
BY DEF Nickless, Own, Asked

\* Steps that leave the queues alone, delete entries, or purge them.
LEMMA FewerFacts ==
  ASSUME TypeOK
  PROVE  /\ UNCHANGED queues => Fewer /\ Shorter
         /\ (\E Out : PurgeQueues(Out)) => Fewer /\ Shorter
         /\ (\E i \in DOMAIN mainqueue : mainqueue' = Drop(mainqueue, i))
              /\ UNCHANGED idlequeue => Fewer /\ Shorter
         /\ (\E i \in DOMAIN idlequeue : idlequeue' = Drop(idlequeue, i))
              /\ UNCHANGED mainqueue => Fewer /\ Shorter
<1>1. UNCHANGED queues => Fewer /\ Shorter
  BY QueueCounts DEF queues, Fewer, Shorter
<1>2. ASSUME NEW Out, PurgeQueues(Out) PROVE Fewer /\ Shorter
  <2>1. mainqueue' = Purge(mainqueue, Out) /\ idlequeue' = Purge(idlequeue, Out)
    BY <1>2 DEF PurgeQueues
  <2>2. mainqueue \in Seq(Entry) /\ idlequeue \in Seq(Entry)
    BY QueueCounts
  <2>3. Fewer
    BY <2>1, <2>2, CountPurge DEF Fewer
  <2>4. Shorter
    BY <2>1, <2>2, PurgeType DEF Shorter
  <2> QED BY <2>3, <2>4
<1>3. ASSUME NEW i \in DOMAIN mainqueue, mainqueue' = Drop(mainqueue, i), UNCHANGED idlequeue
      PROVE  Fewer /\ Shorter
  <2>1. Fewer
    BY <1>3, QueueCounts, CountDrop DEF Fewer
  <2>2. Len(mainqueue') = Len(mainqueue) - 1
    BY <1>3, QueueCounts, DropType
  <2> QED BY <1>3, <2>1, <2>2, QueueCounts DEF Shorter
<1>4. ASSUME NEW i \in DOMAIN idlequeue, idlequeue' = Drop(idlequeue, i), UNCHANGED mainqueue
      PROVE  Fewer /\ Shorter
  <2>1. Fewer
    BY <1>4, QueueCounts, CountDrop DEF Fewer
  <2>2. Len(idlequeue') = Len(idlequeue) - 1
    BY <1>4, QueueCounts, DropType
  <2> QED BY <1>4, <2>1, <2>2, QueueCounts DEF Shorter
<1> QED BY <1>1, <1>2, <1>3, <1>4

\* A pending call deletes an entry, moves one up, or leaves the queues alone.
LEMMA CallEffect ==
  ASSUME TypeOK, CallStep
  PROVE  /\ UNCHANGED <<config, exiting>>
         /\ \/ Fewer /\ Shorter
            \/ MovesUp(First(IdleChoice)) /\ IdleChoice # {} /\ Running("check_idle_queue")
<1>1. CASE SendFromQueue_Send
  <2>1. /\ First(SendChoice) \in DOMAIN mainqueue
        /\ mainqueue' = Drop(mainqueue, First(SendChoice)) /\ UNCHANGED <<idlequeue, config, exiting>>
    BY <1>1, ChoiceType DEF SendFromQueue_Send, status
  <2> QED BY <2>1, FewerFacts
<1>2. CASE SendFromQueue_Nobody \/ StartOneSend \/ CheckIdleQueue_Nothing \/ MainReady
  <2>1. UNCHANGED <<queues, config, exiting>>
    BY <1>2 DEF SendFromQueue_Nobody, StartOneSend, CheckIdleQueue_Nothing, MainReady, status
  <2> QED BY <2>1, FewerFacts
<1>3. CASE CheckIdleQueue_Move
  BY <1>3, ChoiceType DEF CheckIdleQueue_Move, MovesUp, status
<1>4. CASE Perform_Visit
  <2>1. UNCHANGED <<config, exiting>>
    BY <1>4 DEF Perform_Visit, EndTransfer, status
  <2>2. UNCHANGED queues \/ \E Out : PurgeQueues(Out)
    BY <1>4 DEF Perform_Visit, EndTransfer
  <2> QED BY <2>1, <2>2, FewerFacts
<1>5. CASE Perform_Delete
  <2>1. UNCHANGED <<queues, config, exiting>>
    BY <1>5 DEF Perform_Delete, status
  <2> QED BY <2>1, FewerFacts
<1> QED BY <1>1, <1>2, <1>3, <1>4, <1>5 DEF CallStep

\* Only XDCC SEND lets anybody in; every other event caused by users removes
\* entries or none.
LEMMA UserEffect ==
  ASSUME TypeOK, UserStep
  PROVE  UNCHANGED <<config, exiting>> /\ ((Fewer /\ Shorter) \/ LetIn)
<1>1. ASSUME NEW v \in Visitors, NEW p \in Pack, Request(v, p)
      PROVE  UNCHANGED <<config, exiting>> /\ ((Fewer /\ Shorter) \/ LetIn)
  <2> DEFINE e == [nick |-> v.nick, host |-> v.host, net |-> v.net, pack |-> p]
  <2>1. e \in Entry
    BY ConfigAssumption DEF Entry
  <2>2. UNCHANGED <<config, exiting>> /\ (AddToMainQueue(e) \/ UNCHANGED queues)
    BY <1>1 DEF Request, status
  <2> HIDE DEF e
  <2> QED BY <2>1, <2>2, FewerFacts DEF LetIn
<1>2. ASSUME NEW v \in Visitors, NEW ps, Remove(v, ps) \/ Cancel(v)
      PROVE  UNCHANGED <<config, exiting>> /\ Fewer /\ Shorter
  BY <1>2, FewerFacts DEF Remove, Cancel, status
<1>3. ASSUME NEW i \in 1..Len(trans), PunishSlow(i) \/ TransferEnds(i)
      PROVE  UNCHANGED <<config, exiting>> /\ Fewer /\ Shorter
  <2>1. UNCHANGED <<config, exiting>>
    BY <1>3 DEF PunishSlow, TransferEnds, EndTransfer, status
  <2>2. \E Out : PurgeQueues(Out)
    BY <1>3 DEF PunishSlow, TransferEnds, EndTransfer
  <2> QED BY <2>1, <2>2, FewerFacts
<1>4. ASSUME NEW S, PunishDuplicateIp(S)
      PROVE  UNCHANGED <<config, exiting>> /\ Fewer /\ Shorter
  BY <1>4, FewerFacts DEF PunishDuplicateIp, status
<1> QED BY <1>1, <1>2, <1>3, <1>4 DEF UserStep

\* Renaming users changes no count that looks at hosts, networks and packs.
LEMMA RenamedCount ==
  ASSUME NEW q \in Seq(Entry), NEW old, NEW new \in Nick, NEW K, Nickless(K)
  PROVE  /\ Renamed(q, old, new) \in Seq(Entry) /\ Len(Renamed(q, old, new)) = Len(q)
         /\ Count(Renamed(q, old, new), K) = Count(q, K)
<1> DEFINE r == Renamed(q, old, new)
           R(y) == [y EXCEPT !.nick = IF @ = old THEN new ELSE @]
<1>1. \A y \in Entry : /\ R(y) \in Entry /\ R(y).host = y.host
                       /\ R(y).net = y.net /\ R(y).pack = y.pack
  BY DEF Entry
<1>2. DOMAIN r = DOMAIN q /\ \A i \in DOMAIN q : r[i] = R(q[i])
  BY DEF Renamed
<1>3. \A i \in DOMAIN q : q[i] \in Entry
  OBVIOUS
<1>4. r \in Seq(Entry)
  <2>1. DOMAIN q = 1..Len(q) /\ Len(q) \in Nat
    OBVIOUS
  <2>2. r = [i \in 1..Len(q) |-> r[i]]
    BY <2>1 DEF Renamed
  <2> HIDE DEF r, R
  <2>3. \A i \in 1..Len(q) : r[i] \in Entry
    BY <1>1, <1>2, <1>3, <2>1
  <2> QED BY <2>1, <2>2, <2>3
<1> HIDE DEF r, R
<1>5. Len(r) = Len(q)
  BY <1>2, <1>4, SameDomain
<1>6. {i \in DOMAIN r : r[i] \in K} = {i \in DOMAIN q : q[i] \in K}
  <2>1. \A i \in DOMAIN q : r[i] \in K <=> q[i] \in K
    BY <1>1, <1>2, <1>3 DEF Nickless
  <2> QED BY <1>2, <2>1
<1> QED BY <1>4, <1>5, <1>6 DEF Count, r

\* A nick change adds no entry for any host.
LEMMA NickEffect ==
  ASSUME TypeOK, NickStep
  PROVE  UNCHANGED <<config, exiting>> /\ Fewer /\ Shorter
<1>1. PICK old \in Nick, new \in Nick : NickChange(old, new)
  BY DEF NickStep
<1> DEFINE m == Renamed(mainqueue, old, new)
<1>2. /\ idlequeue' = Renamed(idlequeue, old, new) /\ UNCHANGED <<config, exiting>>
      /\ \E J : mainqueue' = Keep(m, DOMAIN m \ J)
  BY <1>1 DEF NickChange, status, Renamed
<1>3. PICK J : mainqueue' = Keep(m, DOMAIN m \ J)
  BY <1>2
<1>4. mainqueue \in Seq(Entry) /\ idlequeue \in Seq(Entry)
  BY QueueCounts
<1>5. Nickless({})
  BY DEF Nickless
<1>6. /\ m \in Seq(Entry) /\ Len(m) = Len(mainqueue) /\ Len(idlequeue') = Len(idlequeue)
  BY <1>2, <1>4, <1>5, RenamedCount
<1> DEFINE L == DOMAIN m \ J
<1>7. L \subseteq DOMAIN m /\ mainqueue' = Keep(m, L)
  BY <1>3
<1> HIDE DEF L
<1>8. ASSUME NEW K, Nickless(K)
      PROVE  /\ Count(mainqueue', K) <= Count(mainqueue, K)
             /\ Count(idlequeue', K) <= Count(idlequeue, K)
  <2>1. Count(m, K) = Count(mainqueue, K) /\ Count(idlequeue', K) = Count(idlequeue, K)
    BY <1>2, <1>4, <1>8, RenamedCount
  <2> HIDE DEF m
  <2>2. Count(mainqueue', K) <= Count(m, K)
    BY <1>6, <1>7, CountKeep
  <2> QED BY <2>1, <2>2, QueueCounts
<1>9. Len(mainqueue') <= Len(m)
  <2> HIDE DEF m
  <2>1. Len(Keep(m, L)) = Cardinality(L) /\ Cardinality(L) \in 0..Len(m)
    BY <1>6, <1>7, KeepType
  <2> QED BY <1>6, <1>7, <2>1
<1>10. Fewer
  BY <1>8 DEF Fewer
<1>11. Shorter
  <2> HIDE DEF m
  <2> QED BY <1>6, <1>9, QueueCounts DEF Shorter
<1> QED BY <1>2, <1>10, <1>11

\* Neither the networks nor the clock add an entry.
LEMMA ClockEffect ==
  ASSUME TypeOK, ClockStep
  PROVE  UNCHANGED <<config, exiting>> /\ Fewer /\ Shorter
<1>1. ASSUME NEW n \in Net, NetDown(n) \/ NetConnect(n) \/ NetJoined(n) \/ NetSilent(n)
      PROVE  UNCHANGED <<config, exiting>> /\ Fewer /\ Shorter
  <2>1. UNCHANGED <<queues, config, exiting>>
    BY <1>1 DEF NetDown, NetConnect, NetJoined, NetSilent
  <2> QED BY <2>1, FewerFacts
<1>2. CASE SecondTick \/ ThreeMinutes \/ NewPeriod
  <2>1. UNCHANGED <<queues, config, exiting>>
    BY <1>2 DEF SecondTick, ThreeMinutes, NewPeriod, status
  <2> QED BY <2>1, FewerFacts
<1>3. CASE Reverify \/ Minute \/ TransferLimit
  <2>1. UNCHANGED <<config, exiting>>
    BY <1>3 DEF Reverify, Minute, TransferLimit, status
  <2>2. \E Out : PurgeQueues(Out)
    BY <1>3 DEF Reverify, Minute, TransferLimit, DropGone
  <2> QED BY <2>1, <2>2, FewerFacts
<1> QED BY <1>1, <1>2, <1>3 DEF ClockStep

-----------------------------------------------------------------------------
(* QueuedOnce *)

AskedOnce ==
  \A h \in Host, n \in Net, p \in Pack :
    Count(mainqueue, Asked(h, n, p)) + Count(idlequeue, Asked(h, n, p)) <= 1

OnceInv == TypeOK /\ (Requeued \/ AskedOnce)

\* A step that adds no entry keeps it.
LEMMA FewerOnce ==
  ASSUME TypeOK, TypeOK', AskedOnce, Fewer
  PROVE  AskedOnce'
<1> SUFFICES ASSUME NEW h \in Host, NEW n \in Net, NEW p \in Pack
             PROVE  Count(mainqueue', Asked(h, n, p)) + Count(idlequeue', Asked(h, n, p)) <= 1
  BY DEF AskedOnce, Asked
<1> DEFINE K == Asked(h, n, p)
<1>1. Count(mainqueue, K) + Count(idlequeue, K) <= 1
  BY DEF AskedOnce
<1>2. Nickless(K)
  BY Kinds
<1> HIDE DEF K
<1>3. Count(mainqueue', K) <= Count(mainqueue, K) /\ Count(idlequeue', K) <= Count(idlequeue, K)
  BY <1>2 DEF Fewer
<1>4. /\ Count(mainqueue, K) \in Nat /\ Count(idlequeue, K) \in Nat
      /\ Count(mainqueue', K) \in Nat /\ Count(idlequeue', K) \in Nat
  <2>1. Count(mainqueue, K) \in Nat /\ Count(idlequeue, K) \in Nat
    BY QueueCounts
  <2>2. mainqueue' \in Seq(Entry) /\ idlequeue' \in Seq(Entry)
    BY DEF TypeOK
  <2> QED BY <2>1, <2>2, CountType
<1>5. Count(mainqueue', K) + Count(idlequeue', K) <= 1
  BY <1>1, <1>3, <1>4
<1> QED BY <1>5 DEF K

\* What the idle queue loses the main queue gains.
LEMMA MovesUpCount ==
  ASSUME TypeOK, NEW i, MovesUp(i), NEW K
  PROVE  /\ idlequeue[i] \in Entry
         /\ Count(mainqueue', K) = Count(mainqueue, K) + (IF idlequeue[i] \in K THEN 1 ELSE 0)
         /\ Count(idlequeue', K) = Count(idlequeue, K) - (IF idlequeue[i] \in K THEN 1 ELSE 0)
<1>1. i \in DOMAIN idlequeue /\ mainqueue \in Seq(Entry) /\ idlequeue \in Seq(Entry)
  BY QueueCounts DEF MovesUp
<1>2. idlequeue[i] \in Entry
  BY <1>1
<1>3. Count(Append(mainqueue, idlequeue[i]), K)
        = Count(mainqueue, K) + (IF idlequeue[i] \in K THEN 1 ELSE 0)
  BY <1>1, <1>2, CountAppend
<1>4. Count(Drop(idlequeue, i), K) = Count(idlequeue, K) - (IF idlequeue[i] \in K THEN 1 ELSE 0)
  BY <1>1, CountDropped
<1> QED BY <1>2, <1>3, <1>4 DEF MovesUp

\* So a request that moves up is still there once.
LEMMA MovesUpOnce ==
  ASSUME TypeOK, AskedOnce, NEW i, MovesUp(i)
  PROVE  AskedOnce'
<1> SUFFICES ASSUME NEW h \in Host, NEW n \in Net, NEW p \in Pack
             PROVE  Count(mainqueue', Asked(h, n, p)) + Count(idlequeue', Asked(h, n, p)) <= 1
  BY DEF AskedOnce, Asked
<1> DEFINE K == Asked(h, n, p)
<1>1. Count(mainqueue, K) + Count(idlequeue, K) <= 1
  BY DEF AskedOnce
<1> HIDE DEF K
<1>2. Count(mainqueue, K) \in Nat /\ Count(idlequeue, K) \in Nat
  BY QueueCounts
<1>3. /\ Count(mainqueue', K) = Count(mainqueue, K) + (IF idlequeue[i] \in K THEN 1 ELSE 0)
      /\ Count(idlequeue', K) = Count(idlequeue, K) - (IF idlequeue[i] \in K THEN 1 ELSE 0)
  BY MovesUpCount
<1>4. Count(mainqueue', K) + Count(idlequeue', K) <= 1
  BY <1>1, <1>2, <1>3
<1> QED BY <1>4 DEF K

\* A step that appends e to one of the queues: the other entries are as they were.
Appends(e) ==
  \/ mainqueue' = Append(mainqueue, e) /\ UNCHANGED idlequeue
  \/ idlequeue' = Append(idlequeue, e) /\ UNCHANGED mainqueue

\* It keeps it when e is of an administrator, or waits for what no entry waits for.
LEMMA AppendsOnce ==
  ASSUME TypeOK, AskedOnce, NEW e \in Entry, Appends(e),
         e.host = Man \/ ~AlreadyQueued(e)
  PROVE  AskedOnce'
<1> SUFFICES ASSUME NEW h \in Host, NEW n \in Net, NEW p \in Pack
             PROVE  Count(mainqueue', Asked(h, n, p)) + Count(idlequeue', Asked(h, n, p)) <= 1
  BY DEF AskedOnce, Asked
<1> DEFINE K == Asked(h, n, p)
<1>1. Count(mainqueue, K) + Count(idlequeue, K) <= 1
  BY DEF AskedOnce
<1>2. mainqueue \in Seq(Entry) /\ idlequeue \in Seq(Entry)
  BY QueueCounts
<1>3. /\ Count(mainqueue, K) \in Nat /\ Count(idlequeue, K) \in Nat
  <2> HIDE DEF K
  <2> QED BY QueueCounts
<1>4. /\ Count(Append(mainqueue, e), K) = Count(mainqueue, K) + (IF e \in K THEN 1 ELSE 0)
      /\ Count(Append(idlequeue, e), K) = Count(idlequeue, K) + (IF e \in K THEN 1 ELSE 0)
  <2> HIDE DEF K
  <2> QED BY <1>2, CountAppend
<1>5. ASSUME e \in K PROVE Count(mainqueue, K) = 0 /\ Count(idlequeue, K) = 0
  <2>1. e.host = h /\ e.net = n /\ e.pack = p /\ h # Man
    BY <1>5, ConfigAssumption DEF Asked
  <2>2. ~AlreadyQueued(e)
    BY <2>1
  <2>3. \A x \in Elems(mainqueue) \cup Elems(idlequeue) : x \notin K
    BY <2>1, <2>2 DEF AlreadyQueued, Asked
  <2>4. /\ \A i \in DOMAIN mainqueue : mainqueue[i] \notin K
        /\ \A i \in DOMAIN idlequeue : idlequeue[i] \notin K
    BY <2>3 DEF Elems
  <2> HIDE DEF K
  <2> QED BY <2>4, CountNone
<1> HIDE DEF K
<1>6. Count(mainqueue', K) + Count(idlequeue', K) <= 1
  <2>1. CASE mainqueue' = Append(mainqueue, e) /\ idlequeue' = idlequeue
    BY <1>1, <1>3, <1>4, <1>5, <2>1
  <2>2. CASE idlequeue' = Append(idlequeue, e) /\ mainqueue' = mainqueue
    BY <1>1, <1>3, <1>4, <1>5, <2>2
  <2> QED BY <2>1, <2>2 DEF Appends
<1> QED BY <1>6 DEF K

\* addtomainqueue refuses who waits for the pack already, in either queue.
LEMMA LetInOnce ==
  ASSUME TypeOK, AskedOnce, LetIn
  PROVE  AskedOnce'
<1>1. PICK e \in Entry : AddToMainQueue(e)
  BY DEF LetIn
<1>2. ~AlreadyQueued(e) /\ Appends(e)
  BY <1>1 DEF AddToMainQueue, Appends
<1> QED BY <1>1, <1>2, AppendsOnce

\* REQUEUE changes the order of a queue and nothing else.
LEMMA MovedCount ==
  ASSUME NEW q \in Seq(Entry), NEW o \in DOMAIN q, NEW n \in DOMAIN q, NEW K
  PROVE  Count(Moved(q, o, n), K) = Count(q, K)
<1> DEFINE d == Drop(q, o)
<1>1. d \in Seq(Entry) /\ Len(d) = Len(q) - 1 /\ q[o] \in Entry
  BY DropType
<1>2. Count(d, K) = Count(q, K) - (IF q[o] \in K THEN 1 ELSE 0)
  BY CountDropped
<1>3. Count(q, K) \in Nat /\ Count(d, K) \in Nat
  BY <1>1, CountType
<1>4. n \in 1..(Len(d) + 1)
  BY <1>1
<1> HIDE DEF d
<1>5. Count(InsertAt(d, n, q[o]), K) = Count(d, K) + (IF q[o] \in K THEN 1 ELSE 0)
  BY <1>1, <1>4, CountInserted
<1>6. Count(InsertAt(d, n, q[o]), K) = Count(q, K)
  BY <1>2, <1>3, <1>5
<1> QED BY <1>6 DEF Moved, d

\* Of the administrator's commands QUEUE and IQUEUE append an entry of his own, and
\* a SHUTDOWN that requeues ends the promise; the others add no entry.
LEMMA AdminEffect ==
  ASSUME TypeOK, AdminStep
  PROVE  /\ exiting => exiting'
         /\ Fewer \/ Requeued' \/ \E e \in Entry : e.host = Man /\ Appends(e)
<1> DEFINE E == [nick : Nick, host : {Man}, net : Net, pack : Pack]
<1>a. \A e \in E : e \in Entry /\ e.host = Man
  BY DEF Entry
<1> HIDE DEF E
<1>1. CASE Shutdown
  <2>1. /\ exiting' = TRUE /\ UNCHANGED idlequeue
        /\ requeue_sends \/ UNCHANGED mainqueue
    BY <1>1 DEF Shutdown
  <2> QED BY <2>1, FewerFacts DEF Requeued, queues
<1>2. ASSUME NEW e \in E, A_Send(e) PROVE UNCHANGED exiting /\ Fewer
  BY <1>2, FewerFacts DEF A_Send, status
<1>3. ASSUME NEW e \in E, NEW at \in Net, A_Queue(e, at) \/ A_IQueue(e, at)
      PROVE  UNCHANGED exiting /\ (Fewer \/ Appends(e))
  <2>1. UNCHANGED exiting /\ (UNCHANGED queues \/ Appends(e))
    BY <1>3 DEF A_Queue, A_IQueue, status, queues, Appends
  <2> QED BY <2>1, FewerFacts
<1>4. CASE (\E pos \in 0..Bound : A_QSend(pos) \/ A_IQSend(pos)) \/ A_Slots
           \/ (\E val \in BOOLEAN : A_HoldQueue(val))
  <2>1. UNCHANGED <<queues, exiting>>
    BY <1>4 DEF A_QSend, A_IQSend, A_Slots, A_HoldQueue, status
  <2> QED BY <2>1, FewerFacts
<1>5. CASE A_Requeue
  <2>1. mainqueue \in Seq(Entry) /\ idlequeue \in Seq(Entry)
    BY QueueCounts
  <2>2. CASE (\E o, n \in DOMAIN mainqueue : mainqueue' = Moved(mainqueue, o, n))
             /\ UNCHANGED idlequeue
    <3>1. \A K : Count(mainqueue', K) = Count(mainqueue, K)
      BY <2>1, <2>2, MovedCount
    <3> QED BY <1>5, <2>2, <3>1, QueueCounts DEF Fewer, A_Requeue, status
  <2>3. CASE (\E o, n \in DOMAIN idlequeue : idlequeue' = Moved(idlequeue, o, n))
             /\ UNCHANGED mainqueue
    <3>1. \A K : Count(idlequeue', K) = Count(idlequeue, K)
      BY <2>1, <2>3, MovedCount
    <3> QED BY <1>5, <2>3, <3>1, QueueCounts DEF Fewer, A_Requeue, status
  <2> QED BY <1>5, <2>2, <2>3 DEF A_Requeue
<1>6. CASE A_Rmq
  <2>1. UNCHANGED exiting
    BY <1>6 DEF A_Rmq, status
  <2> QED BY <1>6, <2>1, FewerFacts DEF A_Rmq
<1>7. ASSUME NEW n \in Net, NEW k \in Nick, A_BannNick(n, k) PROVE UNCHANGED exiting /\ Fewer
  BY <1>7, FewerFacts DEF A_BannNick, status
<1>8. CASE A_Rehash
  BY <1>8, FewerFacts DEF A_Rehash, DropGone, status
<1>9. ASSUME NEW p \in Pack, A_RemovePack(p) PROVE UNCHANGED exiting /\ Fewer
  BY <1>9, FewerFacts DEF A_RemovePack
<1> QED BY <1>a, <1>1, <1>2, <1>3, <1>4, <1>5, <1>6, <1>7, <1>8, <1>9 DEF AdminStep, E

\* Every step keeps the invariant.
LEMMA OnceNext == OnceInv /\ [Next]_vars => OnceInv'
<1> SUFFICES ASSUME OnceInv, [Next]_vars PROVE OnceInv'
  OBVIOUS
<1>0. TypeOK /\ TypeOK'
  BY NextTypeOK DEF OnceInv
<1>1. exiting => exiting'
  BY <1>0, CallEffect, UserEffect, NickEffect, ClockEffect, AdminEffect DEF Next, vars, status
<1>2. ASSUME AskedOnce PROVE AskedOnce' \/ Requeued'
  <2>1. CASE Fewer
    BY <1>0, <1>2, <2>1, FewerOnce
  <2>2. CASE \E i : MovesUp(i)
    BY <1>0, <1>2, <2>2, MovesUpOnce
  <2>3. CASE LetIn
    BY <1>0, <1>2, <2>3, LetInOnce
  <2>4. CASE \E e \in Entry : e.host = Man /\ Appends(e)
    BY <1>0, <1>2, <2>4, AppendsOnce
  <2>5. CASE UNCHANGED vars
    BY <1>0, <2>5, <2>1, FewerFacts DEF vars
  <2> QED BY <1>0, <2>1, <2>2, <2>3, <2>4, <2>5,
             CallEffect, UserEffect, NickEffect, ClockEffect, AdminEffect DEF Next
<1>3. Requeued => Requeued'
  BY <1>1 DEF Requeued
<1> QED BY <1>0, <1>2, <1>3 DEF OnceInv

\* The restored queue is one of the two, and the other is empty.
LEMMA OnceInit ==
  ASSUME RestoredOnce, Init
  PROVE  OnceInv
<1>1. TypeOK
  BY InitTypeOK
<1>2. PICK q \in Restored :
        (mainqueue = q /\ idlequeue = <<>>) \/ (mainqueue = <<>> /\ idlequeue = q)
  BY DEF Init
<1>3. ASSUME NEW h \in Host, NEW n \in Net, NEW p \in Pack
      PROVE  Count(mainqueue, Asked(h, n, p)) + Count(idlequeue, Asked(h, n, p)) <= 1
  <2> DEFINE K == Asked(h, n, p)
  <2>1. Count(q, K) <= 1
    BY DEF RestoredOnce
  <2> HIDE DEF K
  <2>2. Count(<<>>, K) = 0
    <3>1. \A i \in DOMAIN <<>> : <<>>[i] \notin K
      OBVIOUS
    <3> QED BY <3>1, CountNone
  <2>3. Count(q, K) \in Nat
    BY <1>1, <1>2, QueueCounts
  <2>4. Count(mainqueue, K) + Count(idlequeue, K) <= 1
    BY <1>2, <2>1, <2>2, <2>3
  <2> QED BY <2>4 DEF K
<1> QED BY <1>1, <1>3 DEF OnceInv, AskedOnce

\* Two places of the joined queues with the same request are two entries of a kind.
LEMMA AskedOnceQueued ==
  ASSUME TypeOK, AskedOnce
  PROVE  QueuedOnce
<1> DEFINE all == mainqueue \o idlequeue
           m == Len(mainqueue)
<1>1. /\ mainqueue \in Seq(Entry) /\ idlequeue \in Seq(Entry)
      /\ DOMAIN mainqueue = 1..m /\ m \in Nat
      /\ DOMAIN idlequeue = 1..Len(idlequeue) /\ Len(idlequeue) \in Nat
  BY DEF TypeOK
<1>2. /\ DOMAIN all = 1..(m + Len(idlequeue))
      /\ \A i \in DOMAIN all : all[i] = IF i <= m THEN mainqueue[i] ELSE idlequeue[i - m]
  <2>1. /\ all \in Seq(Entry) /\ Len(all) = m + Len(idlequeue)
        /\ \A i \in 1..(m + Len(idlequeue)) :
             all[i] = IF i <= m THEN mainqueue[i] ELSE idlequeue[i - m]
    BY <1>1, ConcatProperties
  <2>2. DOMAIN all = 1..Len(all)
    BY <2>1
  <2> QED BY <2>1, <2>2
<1> HIDE DEF all, m
<1>3. ASSUME NEW i \in DOMAIN all
      PROVE  /\ i <= m => i \in DOMAIN mainqueue /\ all[i] = mainqueue[i]
             /\ i > m => i - m \in DOMAIN idlequeue /\ all[i] = idlequeue[i - m]
             /\ all[i] \in Entry
             /\ i \in Nat
  BY <1>1, <1>2
<1>4. ASSUME NEW i \in DOMAIN all, NEW j \in DOMAIN all, i # j,
             all[i].host # Man, all[i].host = all[j].host,
             all[i].net = all[j].net, all[i].pack = all[j].pack
      PROVE  FALSE
  <2> DEFINE K == Asked(all[i].host, all[i].net, all[i].pack)
  <2>1. /\ all[i].host \in Host /\ all[i].net \in Net /\ all[i].pack \in Pack
        /\ all[i] \in K /\ all[j] \in K
    BY <1>3, <1>4 DEF Entry, Asked
  <2>2. Count(mainqueue, K) + Count(idlequeue, K) <= 1
    BY <2>1 DEF AskedOnce
  <2> HIDE DEF K
  <2>3. Count(mainqueue, K) \in Nat /\ Count(idlequeue, K) \in Nat
    BY QueueCounts
  <2>4. \A k \in DOMAIN mainqueue : mainqueue[k] \in K =>
          /\ Count(mainqueue, K) >= 1
          /\ \A l \in DOMAIN mainqueue : l # k /\ mainqueue[l] \in K => Count(mainqueue, K) >= 2
    BY <1>1, CountSeen
  <2>5. \A k \in DOMAIN idlequeue : idlequeue[k] \in K =>
          /\ Count(idlequeue, K) >= 1
          /\ \A l \in DOMAIN idlequeue : l # k /\ idlequeue[l] \in K => Count(idlequeue, K) >= 2
    BY <1>1, CountSeen
  <2>6. CASE i <= m /\ j <= m
    BY <1>3, <1>4, <2>1, <2>2, <2>3, <2>4, <2>6
  <2>7. CASE i > m /\ j > m
    <3>1. i - m # j - m
      BY <1>1, <1>3, <1>4
    <3> QED BY <1>3, <2>1, <2>2, <2>3, <2>5, <2>7, <3>1
  <2>8. CASE (i <= m /\ j > m) \/ (i > m /\ j <= m)
    BY <1>3, <2>1, <2>2, <2>3, <2>4, <2>5, <2>8
  <2> QED BY <1>1, <1>3, <2>6, <2>7, <2>8
<1> QED BY <1>4 DEF QueuedOnce, all

\* No user waits twice for a pack, whatever users, networks and administrators do,
\* until a SHUTDOWN puts the transfers back into the queue.
THEOREM QueuedOnceHolds ==
  ASSUME RestoredOnce
  PROVE  Spec => [](QueuedOnce \/ Requeued)
<1>1. Init => OnceInv
  BY OnceInit
<1>2. OnceInv => QueuedOnce \/ Requeued
  BY AskedOnceQueued DEF OnceInv
<1> QED BY <1>1, <1>2, OnceNext, PTL DEF Spec

-----------------------------------------------------------------------------
(* QueueBounds, for a bot whose admin forces nothing *)

\* The bounds are numbers.
LEMMA BoundTypes ==
  ASSUME TypeOK
  PROVE  /\ maxqueueditemsperperson \in Nat \ {0} /\ maxidlequeuedperperson \in Nat \ {0}
         /\ idlequeuesize \in Nat /\ queuesize \in Nat
BY ConfigAssumption DEF TypeOK

\* A step that adds no entry keeps both queues within their bounds.
LEMMA FewerBounds ==
  ASSUME TypeOK, TypeOK', QueueBounds, Fewer, Shorter, UNCHANGED queuesize,
         exiting => exiting', ~Requeued
  PROVE  QueueBounds'
<1>1. /\ mainqueue' \in Seq(Entry) /\ idlequeue' \in Seq(Entry)
      /\ Len(mainqueue') \in Nat /\ Len(idlequeue') \in Nat
  BY DEF TypeOK
<1>2. ASSUME NEW h \in Host, NEW n \in Net
      PROVE  /\ Count(mainqueue', Own(h, n)) <= maxqueueditemsperperson
             /\ Count(idlequeue', Own(h, n)) <= maxidlequeuedperperson
  <2> DEFINE K == Own(h, n)
  <2>1. Count(mainqueue, K) <= maxqueueditemsperperson /\ Count(idlequeue, K) <= maxidlequeuedperperson
    BY DEF QueueBounds, QueueShare, Own
  <2>2. Nickless(K)
    BY Kinds
  <2> HIDE DEF K
  <2>3. Count(mainqueue', K) <= Count(mainqueue, K) /\ Count(idlequeue', K) <= Count(idlequeue, K)
    BY <2>2 DEF Fewer
  <2>4. /\ Count(mainqueue, K) \in Nat /\ Count(idlequeue, K) \in Nat
        /\ Count(mainqueue', K) \in Nat /\ Count(idlequeue', K) \in Nat
    BY <1>1, QueueCounts, CountType
  <2>5. Count(mainqueue', K) <= maxqueueditemsperperson /\ Count(idlequeue', K) <= maxidlequeuedperperson
    BY <2>1, <2>3, <2>4, BoundTypes
  <2> QED BY <2>5 DEF K
<1>3. QueueShare'
  BY <1>2 DEF QueueShare, Own
<1>4. QueueRoom'
  <2>1. Len(mainqueue) <= queuesize /\ Len(idlequeue) <= idlequeuesize
    BY DEF QueueBounds, QueueRoom, Requeued
  <2> QED BY <1>1, <2>1, QueueCounts, BoundTypes DEF Shorter, QueueRoom
<1> QED BY <1>3, <1>4 DEF QueueBounds

\* An entry for which check_idle_queue finds room and a share left moves up.
LEMMA MovesUpBounds ==
  ASSUME TypeOK, TypeOK', QueueBounds, NEW i, MovesUp(i), Movable(idlequeue[i]),
         Len(mainqueue) < queuesize, UNCHANGED queuesize
  PROVE  QueueBounds'
<1> DEFINE e == idlequeue[i]
<1>1. /\ mainqueue \in Seq(Entry) /\ idlequeue \in Seq(Entry)
      /\ Len(mainqueue) \in Nat /\ Len(idlequeue) \in Nat /\ e \in Entry
  BY QueueCounts, MovesUpCount
<1>2. ASSUME NEW h \in Host, NEW n \in Net
      PROVE  /\ Count(mainqueue', Own(h, n)) <= maxqueueditemsperperson
             /\ Count(idlequeue', Own(h, n)) <= maxidlequeuedperperson
  <2> DEFINE K == Own(h, n)
             P == SamePerson(Entry, e)
  <2>1. Count(mainqueue, K) <= maxqueueditemsperperson /\ Count(idlequeue, K) <= maxidlequeuedperperson
    BY DEF QueueBounds, QueueShare, Own
  <2>2. Count(mainqueue, P) < maxqueueditemsperperson
    BY DEF Movable
  <2>3. e \in K => K \subseteq P
    BY DEF Own, SamePerson
  <2> HIDE DEF K, P, e
  <2>4. /\ Count(mainqueue, K) \in Nat /\ Count(idlequeue, K) \in Nat
        /\ Count(mainqueue, P) \in Nat
    BY QueueCounts
  <2>5. /\ Count(mainqueue', K) = Count(mainqueue, K) + (IF e \in K THEN 1 ELSE 0)
        /\ Count(idlequeue', K) = Count(idlequeue, K) - (IF e \in K THEN 1 ELSE 0)
    BY MovesUpCount DEF e
  <2>6. e \in K => Count(mainqueue, K) <= Count(mainqueue, P)
    BY <1>1, <2>3, CountSubset
  <2>7. Count(mainqueue', K) <= maxqueueditemsperperson /\ Count(idlequeue', K) <= maxidlequeuedperperson
    BY <2>1, <2>2, <2>4, <2>5, <2>6, BoundTypes
  <2> QED BY <2>7 DEF K
<1>3. QueueShare'
  BY <1>2 DEF QueueShare, Own
<1>4. QueueRoom'
  <2>1. Len(mainqueue') = Len(mainqueue) + 1
    BY <1>1 DEF MovesUp
  <2>2. Len(idlequeue') = Len(idlequeue) - 1
    BY <1>1, DropType DEF MovesUp
  <2>3. Len(idlequeue) <= idlequeuesize
    BY DEF QueueBounds, QueueRoom
  <2> QED BY <1>1, <2>1, <2>2, <2>3, BoundTypes DEF QueueRoom
<1> QED BY <1>3, <1>4 DEF QueueBounds

\* addtomainqueue counts what the user has in both queues before it appends.
LEMMA LetInBounds ==
  ASSUME TypeOK, TypeOK', QueueBounds, ~Requeued, LetIn, UNCHANGED <<queuesize, exiting>>
  PROVE  QueueBounds'
<1>1. PICK e \in Entry : AddToMainQueue(e)
  BY DEF LetIn
<1> DEFINE O == Own(e.host, e.net)
<1>2. \/ /\ mainqueue' = Append(mainqueue, e) /\ idlequeue' = idlequeue
         /\ ~(Count(mainqueue, O) >= maxqueueditemsperperson) /\ ~(Len(mainqueue) >= queuesize)
      \/ /\ idlequeue' = Append(idlequeue, e) /\ mainqueue' = mainqueue
         /\ Count(idlequeue, O) < maxidlequeuedperperson /\ Len(idlequeue) < idlequeuesize
  BY <1>1 DEF AddToMainQueue, Own
<1>3. /\ mainqueue \in Seq(Entry) /\ idlequeue \in Seq(Entry)
      /\ Len(mainqueue) \in Nat /\ Len(idlequeue) \in Nat
  BY QueueCounts
<1>4. ASSUME NEW h \in Host, NEW n \in Net
      PROVE  /\ Count(mainqueue', Own(h, n)) <= maxqueueditemsperperson
             /\ Count(idlequeue', Own(h, n)) <= maxidlequeuedperperson
  <2> DEFINE K == Own(h, n)
  <2>1. Count(mainqueue, K) <= maxqueueditemsperperson /\ Count(idlequeue, K) <= maxidlequeuedperperson
    BY DEF QueueBounds, QueueShare, Own
  <2>2. e \in K => K = O
    BY DEF Own
  <2> HIDE DEF K, O
  <2>3. /\ Count(mainqueue, K) \in Nat /\ Count(idlequeue, K) \in Nat
        /\ Count(mainqueue, O) \in Nat
    BY QueueCounts
  <2>4. /\ Count(Append(mainqueue, e), K) = Count(mainqueue, K) + (IF e \in K THEN 1 ELSE 0)
        /\ Count(Append(idlequeue, e), K) = Count(idlequeue, K) + (IF e \in K THEN 1 ELSE 0)
    BY <1>3, CountAppend
  <2>5. Count(mainqueue', K) <= maxqueueditemsperperson /\ Count(idlequeue', K) <= maxidlequeuedperperson
    <3>1. CASE mainqueue' = Append(mainqueue, e) /\ idlequeue' = idlequeue
               /\ ~(Count(mainqueue, O) >= maxqueueditemsperperson)
      <4>1. e \in K => Count(mainqueue, K) < maxqueueditemsperperson
        BY <2>2, <2>3, <3>1, BoundTypes
      <4>2. /\ Count(mainqueue', K) = Count(mainqueue, K) + (IF e \in K THEN 1 ELSE 0)
            /\ Count(idlequeue', K) = Count(idlequeue, K)
        BY <2>4, <3>1
      <4> QED BY <2>1, <2>3, <4>1, <4>2, BoundTypes
    <3>2. CASE idlequeue' = Append(idlequeue, e) /\ mainqueue' = mainqueue
               /\ Count(idlequeue, O) < maxidlequeuedperperson
      <4>1. e \in K => Count(idlequeue, K) < maxidlequeuedperperson
        BY <2>2, <3>2
      <4>2. /\ Count(idlequeue', K) = Count(idlequeue, K) + (IF e \in K THEN 1 ELSE 0)
            /\ Count(mainqueue', K) = Count(mainqueue, K)
        BY <2>4, <3>2
      <4> QED BY <2>1, <2>3, <4>1, <4>2, BoundTypes
    <3> QED BY <1>2, <3>1, <3>2
  <2> QED BY <2>5 DEF K
<1>5. QueueShare'
  BY <1>4 DEF QueueShare, Own
<1>6. QueueRoom'
  <2>1. Len(Append(mainqueue, e)) = Len(mainqueue) + 1 /\ Len(Append(idlequeue, e)) = Len(idlequeue) + 1
    BY <1>3
  <2>2. Len(mainqueue) <= queuesize /\ Len(idlequeue) <= idlequeuesize
    BY DEF QueueBounds, QueueRoom, Requeued
  <2>3. Len(mainqueue') <= queuesize /\ Len(idlequeue') <= idlequeuesize
    BY <1>2, <1>3, <2>1, <2>2, BoundTypes
  <2> QED BY <2>3 DEF QueueRoom
<1> QED BY <1>5, <1>6 DEF QueueBounds

\* check_idle_queue is only called to look for the first entry that may move; only
\* IQSEND names a position.
Searches(cs) == \A i \in DOMAIN cs : cs[i].fn = "check_idle_queue" => cs[i].n = 0

BoundsInv == QuietInv /\ Searches(calls) /\ (Requeued \/ QueueBounds)

\* Neither of two lists of frames that are joined names one, nor does the joined one.
LEMMA ConcatSearches ==
  ASSUME NEW x \in Seq(Frame), NEW y \in Seq(Frame), Searches(x), Searches(y)
  PROVE  x \o y \in Seq(Frame) /\ Searches(x \o y)
<1>1. /\ x \o y \in Seq(Frame) /\ Len(x \o y) = Len(x) + Len(y)
      /\ \A i \in 1..(Len(x) + Len(y)) : (x \o y)[i] = IF i <= Len(x) THEN x[i] ELSE y[i - Len(x)]
  BY ConcatProperties
<1>2. /\ DOMAIN x = 1..Len(x) /\ Len(x) \in Nat /\ DOMAIN y = 1..Len(y) /\ Len(y) \in Nat
      /\ DOMAIN (x \o y) = 1..(Len(x) + Len(y))
  BY <1>1
<1>3. ASSUME NEW i \in DOMAIN (x \o y)
      PROVE  \/ \E j \in DOMAIN x : (x \o y)[i] = x[j]
             \/ \E j \in DOMAIN y : (x \o y)[i] = y[j]
  <2>1. CASE i <= Len(x)
    BY <1>1, <1>2, <2>1
  <2>2. CASE i > Len(x)
    <3> DEFINE k == i - Len(x)
    <3>1. k \in DOMAIN y /\ (x \o y)[i] = y[k]
      BY <1>1, <1>2, <2>2
    <3> QED BY <3>1
  <2> QED BY <1>2, <2>1, <2>2
<1> QED BY <1>1, <1>3 DEF Searches

\* A returning call leaves the frames below it.
LEMMA ReturnSearches ==
  ASSUME TypeOK, Searches(calls), calls # <<>>, NEW next \in Seq(Frame), Return(next), Searches(next)
  PROVE  Searches(calls')
<1> DEFINE rest == Tail(calls)
<1>1. /\ rest \in Seq(Frame) /\ Len(rest) = Len(calls) - 1
      /\ \A i \in 1..Len(rest) : rest[i] = calls[i + 1]
  BY HeadTailProperties DEF TypeOK
<1>2. DOMAIN calls = 1..Len(calls) /\ Len(calls) \in Nat
  BY DEF TypeOK
<1> HIDE DEF rest
<1>3. ASSUME NEW i \in DOMAIN rest PROVE i + 1 \in DOMAIN calls /\ rest[i] = calls[i + 1]
  BY <1>1, <1>2
<1>4. Searches(rest)
  BY <1>3 DEF Searches
<1>5. calls' = next \o rest
  BY DEF Return, rest
<1> QED BY <1>1, <1>4, <1>5, ConcatSearches

\* No pending call names a position of the idle queue.
LEMMA CallSearches ==
  ASSUME TypeOK, Searches(calls), CallStep
  PROVE  Searches(calls')
<1> DEFINE first == <<Call("check_idle_queue", 0, NoNick)>>
<1>0. calls # <<>> => calls[1].n \in Nat /\ calls[1].last \in Nick \cup {NoNick}
  BY TopFrame DEF Arg
<1>1. first \in Seq(Frame) /\ Searches(first)
  <2>1. first \in Seq(Frame)
    BY CallType DEF Fn
  <2> QED BY <2>1 DEF Searches, Call
<1>2. ASSUME NEW fn \in Fn, fn # "check_idle_queue", NEW n \in Nat, NEW last \in Nick \cup {NoNick}
      PROVE  <<Call(fn, n, last)>> \in Seq(Frame) /\ Searches(<<Call(fn, n, last)>>)
  BY <1>2, CallType DEF Searches, Call
<1>3. <<>> \in Seq(Frame) /\ Searches(<<>>)
  BY DEF Searches
<1>4. CASE SendFromQueue_Send
  BY <1>1, <1>4, ReturnSearches DEF SendFromQueue_Send, Running
<1>5. CASE SendFromQueue_Nobody \/ StartOneSend \/ MainReady \/ CheckIdleQueue_Move
           \/ CheckIdleQueue_Nothing
  <2>1. /\ calls # <<>>
        /\ \/ Return(<<>>)
           \/ \E n \in Nat, last \in Nick \cup {NoNick} :
                \/ Return(<<Call("send_from_queue", n, last)>>)
                \/ Return(<<Call("start_one_send", n, last)>>)
    BY <1>0, <1>5 DEF SendFromQueue_Nobody, StartOneSend, MainReady, CheckIdleQueue_Move,
                      CheckIdleQueue_Nothing, Running, Arg
  <2>2. "send_from_queue" \in Fn /\ "start_one_send" \in Fn
    BY DEF Fn
  <2> QED BY <1>2, <1>3, <2>1, <2>2, ReturnSearches
<1>6. CASE Perform_Visit
  <2>1. CASE calls' = calls
    BY <2>1
  <2>2. CASE calls' # calls
    <3>1. /\ calls # <<>> /\ Arg + 1 \in Nat /\ "t_perform" \in Fn
          /\ \/ Return(<<>>)
             \/ Return(<<Call("t_perform", Arg + 1, NoNick)>>)
      BY <1>0, <1>6, <2>2 DEF Perform_Visit, Running, Arg, Fn
    <3> QED BY <1>2, <1>3, <3>1, ReturnSearches
  <2> QED BY <2>1, <2>2
<1>7. CASE Perform_Delete
  <2> DEFINE ready == IfMainQueueReady(slotsmax, trans[Arg].nick)
             more == IF Arg < Len(trans) THEN <<Call("t_perform", Arg, NoNick)>> ELSE <<>>
  <2>1. calls # <<>> /\ Return(ready \o more) /\ Arg \in DOMAIN trans
    BY <1>7 DEF Perform_Delete, Running
  <2>2. trans[Arg].nick \in Nick /\ slotsmax \in Nat /\ Arg \in Nat
    BY <2>1, Elements, ConfigAssumption DEF TypeOK
  <2>3. /\ ready \o more \in Seq(Frame)
        /\ Searches(ready \o more)
    <3>1. more \in Seq(Frame) /\ Searches(more)
      <4>1. "t_perform" \in Fn
        BY DEF Fn
      <4> QED BY <1>2, <1>3, <2>2, <4>1
    <3>2. ready \in Seq(Frame) /\ Searches(ready)
      <4> DEFINE a == Call("check_idle_queue", 0, NoNick)
                 b == Call("main_ready", slotsmax, trans[Arg].nick)
      <4>1. a \in Frame /\ b \in Frame /\ a.n = 0 /\ b.fn # "check_idle_queue"
        BY <2>2, CallType DEF Fn, Call
      <4>2. ready = <<>> \/ ready = <<a, b>>
        BY DEF IfMainQueueReady
      <4> HIDE DEF a, b
      <4>3. <<a, b>> \in Seq(Frame) /\ Searches(<<a, b>>)
        BY <4>1 DEF Searches
      <4> QED BY <1>3, <4>2, <4>3
    <3> HIDE DEF ready, more
    <3> QED BY <3>1, <3>2, ConcatSearches
  <2> QED BY <2>1, <2>3, ReturnSearches
<1> QED BY <1>4, <1>5, <1>6, <1>7 DEF CallStep

\* Nor does an event of the main loop, which finds no call pending.
LEMMA EventSearches ==
  ASSUME TypeOK, Searches(calls),
         \/ UserStep \/ NickStep \/ ClockStep \/ Shutdown
         \/ \E val \in BOOLEAN : A_HoldQueue(val)
  PROVE  Searches(calls')
<1>1. CASE UserStep \/ NickStep \/ Shutdown
  <2>1. UNCHANGED calls
    BY <1>1 DEF UserStep, Request, Remove, Cancel, PunishSlow, TransferEnds,
                PunishDuplicateIp, NickStep, NickChange, Shutdown
  <2> QED BY <2>1
<1>2. Searches(StartSends)
  BY DEF Searches, StartSends, Call
<1>3. \A max \in Nat : Searches(IfMainQueueReady(max, NoNick))
  BY DEF Searches, IfMainQueueReady, Call
<1>4. /\ Searches(<<>>) /\ Searches(<<Call("check_idle_queue", 0, NoNick)>>)
      /\ Searches(<<Call("start_one_send", 0, NoNick)>>)
      /\ Searches(<<Call("t_perform", 1, NoNick)>>)
  BY DEF Searches, Call
<1>5. CASE ClockStep
  <2>1. \/ calls' = calls \/ calls' = StartSends
        \/ calls' = IfMainQueueReady(maxtrans, NoNick)
        \/ calls' = <<Call("check_idle_queue", 0, NoNick)>>
        \/ calls' = <<Call("start_one_send", 0, NoNick)>>
        \/ calls' = <<Call("t_perform", 1, NoNick)>>
    BY <1>5 DEF ClockStep, NetDown, NetConnect, NetJoined, NetSilent, Reverify, SecondTick,
                Minute, ThreeMinutes, TransferLimit, NewPeriod
  <2> QED BY <1>2, <1>3, <1>4, <2>1, ConfigAssumption
<1>6. CASE \E val \in BOOLEAN : A_HoldQueue(val)
  <2>1. calls' = <<>> \/ calls' = StartSends
    BY <1>6 DEF A_HoldQueue
  <2> QED BY <1>2, <1>4, <2>1
<1> QED BY <1>1, <1>5, <1>6

\* What check_idle_queue chooses, when no position is named, it found movable.
LEMMA IdleChoiceMovable ==
  ASSUME TypeOK, Searches(calls), Running("check_idle_queue"), IdleChoice # {}
  PROVE  Movable(idlequeue[First(IdleChoice)]) /\ Len(mainqueue) < queuesize
<1>1. Arg = 0
  BY TopFrame DEF Running, Searches, Arg, TypeOK
<1>2. /\ IdleChoice = {i \in DOMAIN idlequeue : Movable(idlequeue[i])}
      /\ ~(Len(mainqueue) >= queuesize)
  BY <1>1 DEF IdleChoice
<1>3. First(IdleChoice) \in IdleChoice
  <2>1. DOMAIN idlequeue \subseteq Nat
    BY DEF TypeOK
  <2> QED BY <1>2, <2>1, FirstType
<1> QED BY <1>2, <1>3, QueueCounts, BoundTypes

\* Every step of a bot whose admin forces nothing keeps the bounds.
LEMMA BoundsNext == BoundsInv /\ [QuietStep]_vars => BoundsInv'
<1> SUFFICES ASSUME BoundsInv, [QuietStep]_vars PROVE BoundsInv'
  OBVIOUS
<1>0. TypeOK /\ TypeOK' /\ QuietInv' /\ Searches(calls)
  BY QuietNext DEF BoundsInv, QuietInv
<1>1. Searches(calls')
  <2>1. UNCHANGED vars => UNCHANGED calls
    BY DEF vars
  <2> QED BY <1>0, <2>1, CallSearches, EventSearches DEF QuietStep
<1>2. ASSUME Shutdown
      PROVE  /\ exiting' /\ UNCHANGED config
             /\ Requeued' \/ (Fewer /\ Shorter)
  <2>1. /\ exiting' = TRUE /\ UNCHANGED idlequeue /\ UNCHANGED config
        /\ requeue_sends \/ UNCHANGED mainqueue
    BY <1>2 DEF Shutdown
  <2> QED BY <1>0, <2>1, FewerFacts DEF Requeued, queues
<1>3. ASSUME (\E val \in BOOLEAN : A_HoldQueue(val)) \/ UNCHANGED vars
      PROVE  UNCHANGED <<queuesize, exiting>> /\ Fewer /\ Shorter
  <2>1. UNCHANGED <<queues, queuesize, exiting>>
    BY <1>3 DEF A_HoldQueue, vars, config, status
  <2> QED BY <1>0, <2>1, FewerFacts
<1>4. UNCHANGED queuesize /\ (exiting => exiting')
  BY <1>0, <1>2, <1>3, CallEffect, UserEffect, NickEffect, ClockEffect DEF QuietStep, config
<1>5. Requeued => Requeued'
  BY <1>4 DEF Requeued
<1>6. ASSUME QueueBounds, ~Requeued PROVE QueueBounds' \/ Requeued'
  <2>1. CASE Fewer /\ Shorter
    BY <1>0, <1>4, <1>6, <2>1, FewerBounds
  <2>2. CASE CallStep
    <3>1. CASE MovesUp(First(IdleChoice)) /\ IdleChoice # {} /\ Running("check_idle_queue")
      BY <1>0, <1>4, <1>6, <3>1, IdleChoiceMovable, MovesUpBounds
    <3> QED BY <1>0, <2>1, <2>2, <3>1, CallEffect
  <2>3. CASE UserStep
    <3>1. UNCHANGED <<queuesize, exiting>> /\ ((Fewer /\ Shorter) \/ LetIn)
      BY <1>0, <2>3, UserEffect DEF config
    <3> QED BY <1>0, <1>6, <2>1, <3>1, LetInBounds
  <2>4. CASE NickStep \/ ClockStep
    BY <1>0, <2>1, <2>4, NickEffect, ClockEffect
  <2> QED BY <1>2, <1>3, <2>1, <2>2, <2>3, <2>4 DEF QuietStep
<1> QED BY <1>0, <1>1, <1>5, <1>6 DEF BoundsInv

\* What the state file held fits into the queue it is restored into.
LEMMA BoundsInit ==
  ASSUME RestoredFits, Init
  PROVE  BoundsInv
<1>1. QuietInv /\ TypeOK
  BY QuietInit DEF QuietInv
<1>2. Searches(calls)
  BY DEF Init, Searches, Call
<1>3. PICK q \in Restored :
        \/ idlequeuesize > 0 /\ idlequeue = q /\ mainqueue = <<>>
        \/ idlequeuesize = 0 /\ mainqueue = q /\ idlequeue = <<>>
  BY BoundTypes, <1>1 DEF Init
<1>4. \A K : Count(<<>>, K) = 0
  <2>1. \A K : \A i \in DOMAIN <<>> : <<>>[i] \notin K
    OBVIOUS
  <2> QED BY <2>1, CountNone
<1>5. QueueShare
  <2> SUFFICES ASSUME NEW h \in Host, NEW n \in Net
               PROVE  /\ Count(mainqueue, Own(h, n)) <= maxqueueditemsperperson
                      /\ Count(idlequeue, Own(h, n)) <= maxidlequeuedperperson
    BY DEF QueueShare, Own
  <2>1. /\ idlequeuesize > 0 => Count(q, Own(h, n)) <= maxidlequeuedperperson
        /\ idlequeuesize = 0 => Count(q, Own(h, n)) <= maxqueueditemsperperson
    BY DEF RestoredFits
  <2>2. Count(<<>>, Own(h, n)) = 0
    BY <1>4
  <2> QED BY <1>1, <1>3, <2>1, <2>2, BoundTypes
<1>6. QueueRoom
  <2>1. queuesize \in QueueSize
    BY DEF Init
  <2>2. /\ idlequeuesize > 0 => Len(q) <= idlequeuesize
        /\ idlequeuesize = 0 => Len(q) <= queuesize
    BY <2>1 DEF RestoredFits
  <2>3. Len(<<>>) = 0
    OBVIOUS
  <2> QED BY <1>1, <1>3, <2>2, <2>3, BoundTypes DEF QueueRoom
<1> QED BY <1>1, <1>2, <1>5, <1>6 DEF BoundsInv, QueueBounds

\* Users keep to their shares in both queues and the queues to their sizes,
\* although the idle queue refills the main queue on its own, until a SHUTDOWN puts
\* the transfers back into the queue.
THEOREM QueueBoundsHold ==
  ASSUME RestoredFits
  PROVE  QuietSpec => [](QueueBounds \/ Requeued)
<1>1. Init => BoundsInv
  BY BoundsInit
<1>2. BoundsInv => QueueBounds \/ Requeued
  BY DEF BoundsInv
<1> QED BY <1>1, <1>2, BoundsNext, PTL DEF QuietSpec
=============================================================================
