# iroffer-dinoex: specification and proofs

iroffer-dinoex is an IRC file server. Users on IRC channels ask the bot for
numbered files ("packs"); the bot sends them over direct TCP connections (DCC),
makes users wait in queues when its slots are taken, and lets administrators
manage it over IRC, DCC chat, telnet and HTTP. It is one C process with one
`select` loop (`src/src/iroffer_main.c:102`, `mainloop`): a handler always runs
to its end before the next one starts. What is hard in it is therefore not a data race but
the long sequences: handlers that call each other, walk lists that the callee
changes, and rely on a check that some other handler made many events ago; and
whatever is outside: servers, users, files, a process that is killed.

The files here:

| file | what it is |
|---|---|
| `Queues.tla` | the ordered lists (`irlist_t`) as sequences |
| `XdccQueue.tla` | requests, queues and slots: `dinoex_queue.c` and its callers |
| `MCXdccQueue.tla`, `q_*.cfg` | small instances of it |
| `Transfer.tla` | a download from creation to deletion: `iroffer_transfer.c`, `dinoex_transfer.c` |
| `MCTransfer.tla`, `t_*.cfg` | small instances of it |
| `ServerQueue.tla` | the messages that wait for an IRC server, and the bucket |
| `Network.tla` | one IRC network: connection, registration, channel, owner's commands; it composes `ServerQueue` |
| `MCNetwork.tla`, `n_*.cfg` | small instances of it |
| `Packs.tla` | the list of packs and what refers to it: groups, triggers, checksums, jobs, files |
| `StateItems.tla` | what the state file keeps of packs and queues, under changing configurations |
| `StateFile.tla`, `DurableStore.tla` | how the state file is written, and what that promises (refinement) |
| `Ignores.tla`, `ig_late.cfg` | the ignore list |
| `Incoming.tla` | uploads, GET and FETCH |
| `Access.tla` | chats, telnet, HTTP passwords, bad addresses |
| `Http.tla` | an answer of the HTTP server |
| `Acks.tla` | acknowledgements of 32 and 64 bits |
| `LinkedList.tla`, `Lists.tla` | `irlist_t` with its links, and the sequences it implements (refinement) |
| `BufferedOutput.tla`, `Fifo.tla` | `ir_boutput_t`, and the queue of bytes it implements (refinement) |
| `MCBot.tla`, `bot.cfg` | small instances of the last eleven rows |
| `QueuesTheorems.tla` | lemmas about lists, counts and repetitions, proved with TLAPS |
| `XdccQueueProofs.tla`, `TransferProofs.tla`, `NetworkProofs.tla`, `PacksProofs.tla`, `ServicesProofs.tla`, `RestartProofs.tla`, `RefinementProofs.tla` | theorems about the modules they are named after; `RestartProofs` is about `Ignores` and `StateItems`, `ServicesProofs` is about `Incoming`, `Access`, `Http` and `Acks`, `RefinementProofs` about `StateFile`, `BufferedOutput` and `LinkedList` |
| `PROJECT.json` | components, runs, seeded defects, source lines of every definition, findings, hazards, theorems |

## 1. Inventory

Paths are relative to `src/src/`. "Needs" is what has to hold for the component
to be correct; what is *checked* is in sections 5 and 6.

| component | state | operations | needs | module |
|---|---|---|---|---|
| XDCC queues, `dinoex_queue.c` | `mainqueue`, `idlequeue` | enter, move idle → main, send, remove for nick, pack, punishment, limit | limits per user and in total; nobody waits twice or for ever; nothing refers to a freed pack | `XdccQueue` |
| XDCC commands, `dinoex_user.c` | per-user counters | SEND, BATCH, REMOVE, CANCEL, RESUME, ACCEPT, LIST, SEARCH | what is refused changes nothing; the checks agree with those of the queue | `XdccQueue`, `Transfer`, `Ignores` |
| Transfers, `dinoex_transfer.c`, `iroffer_transfer.c` | `trans`: status, `lastack`, sockets, port | listen, passive connect, resume, send, acknowledge, flush, time out, close | sockets, ports and descriptors are given back; the file is complete when counted | `Transfer`, `Acks` |
| Packs, `dinoex_admin.c`, `dinoex_jobs.c` | `xdccs`, group descriptions, triggers, `packs_delayed`, `md5build` | about 60 commands, autoadd, delayed jobs, MD5, lost files | references survive renumbering; one description per group, on its first pack; a checksum is the file's | `Packs`, `StateItems` |
| State file, `iroffer_statefile.c`, `dinoex_statefile.c` | file, temporary file, backups | write, rename, set aside, read | after a crash a whole state is read; it means the same under another configuration | `StateFile`, `StateItems` |
| Network, `dinoex_irc.c`, `iroffer_misc.c` | `serverstatus`, resolver, nick, channel, members, back-off | resolve, connect, TLS, register, join, kick, nick, jump, REHASH | comes back; knows its nick, channel and members; nothing stale is sent | `Network` |
| Server queues, `iroffer_misc.c:343-583` | fast, normal, slow queue, announcements, bucket | `vwriteserver`, `sendserver` | no starvation, bounded rate | `ServerQueue` |
| Ignores, `dinoex_irc.c:862` | `ignorelist`: bucket, flags | message, leak, IGNORE, UNIGNORE, save, read | ignored as long as said, and not longer | `Ignores` |
| Uploads, fetches, `dinoex_upload.c`, `iroffer_upload.c`, `dinoex_curl.c` | `uploads`, `quploadhost`, fetches | offer, resume, end, GET, FETCH | `max_uploads` holds; places come free again | `Incoming` |
| Chats, telnet, bad addresses, `dinoex_chat.c`, `dinoex_telnet.c`, `dinoex_badip.c` | chat status, counters per address | accept, connect, TLS, password, count, expire | no more guesses than allowed | `Access` |
| HTTP, `dinoex_http.c` | status, range, buffers | request, send, time out, close | the bytes announced are sent | `Http` |
| Lists, `iroffer_utilities.c:1735-2020` | head, tail, next, size | insert, remove, clean, sort, move | one chain of `size` items | `LinkedList` |
| Buffered output, `iroffer_utilities.c:2199-2329` | segments, counters | write, flush | in order, each byte once, only ends dropped | `BufferedOutput` |
| Main loop, `iroffer_main.c` | clock, limits | jobs by the second, minute ... | each job in the module of its component | all |
| Configuration, command line, misc helpers | tables of options | parse, print | ranges become ASSUMEs | – |
| Digests, Blowfish, UPnP, Ruby, GeoIP, screen | handles of libraries | adapters | outside | – |

How they interact. A user's private message goes from `dinoex_irc.c` past the
ignore list to `dinoex_user.c`, which starts a transfer or calls
`addtomainqueue`. The main loop runs `t_perform`, which drives each transfer
and, where it deletes one, calls `check_main_queue` and `send_from_queue`.
Everything that makes a slot or a connection available (JOIN, the end of
registration, HOLDQUEUE 0, REHASH, the minute, the three minutes) calls
`start_sends`, `check_idle_queue` or `check_main_queue`. Everything that takes
away a right (nick change, missing from the channel, ban, slow transfer, daily
limit, transfer limit, REMOVE) sweeps the transfers and both queues. Packs are
pointed at by queues, transfers, the checksum job and triggers, and numbered
in the state file and by users. All share the lists in `gdata`.

Where modules meet, one has the other's events as free choices: `XdccQueue` lets networks
come and go as they like (`Net*`), `Network` does not look at the queues; `Transfer` may
be closed for any reason at any time; `Packs` has requests that are
served in any order. Each is thus checked in an environment with more behaviours than
the real one. `Network` and `ServerQueue` are composed, as are `XdccQueue` and
`Queues`; `StateItems` ends where `start_main_queue` of `XdccQueue` begins.

What makes it hard, with the lines where it bites, is the list `hazards` of
`PROJECT.json`.

## 2. `XdccQueue`: how it corresponds to the code

State. `mainqueue`, `idlequeue`, `trans` are the `irlist_t`s of the same name;
an entry is `ir_pqueue` cut to nick, host, network and pack, a transfer adds
`done` (`TRANSFER_STATUS_DONE`). `packs` are the packs offered, `today` is
`xdcc.gets` counted from the last reset of the daily limit, `net` combines
`serverstatus`, `botstatus` and `lastservercontact` of a network. `slotsmax`,
`queuesize`, `holdqueue`, `exiting` have their names; `over` is
`transferlimits_over`. The other limits are CONSTANTS named like the options.

Calls. `send_from_queue`, `check_idle_queue`, `start_one_send` and
`check_main_queue` call each other in tail position until nothing is left to
do, from inside the loop of `t_perform` among others. Each of their steps is an action, and
the pending calls are the variable `calls`, the running one first. A handler
needs `calls = <<>>` (`Idle`), does its own assignments and pushes the calls it
ends in; `CallStep` runs them. This keeps each definition as short as the
function, and it lets an invariant be looked at between two calls,
where the code's own checks are made. No handler can run in between, as in the code.
`t_perform` is a call with the position of the transfer it is at, since the calls it
makes append to the list it walks.

| actions | code |
|---|---|
| `SendFromQueue_*`, `StartOneSend`, `CheckIdleQueue_*`, `MainReady` | `dinoex_queue.c:395-626` |
| `SecondTick`, `Perform_Visit`, `Perform_Delete`, `TransferEnds` | `t_perform`, `t_istimeout`, `t_flushed`, `t_closeconn` |
| `Request`, `AddToMainQueue`, `Remove`, `Cancel` | XDCC SEND and BATCH, REMOVE (and `lost_nick`), CANCEL |
| `NickChange` | `user_changed_nick` |
| `PunishSlow`, `PunishDuplicateIp` | `t_checkminspeed`, `t_check_duplicateip` |
| `Net*` | connect, JOIN, silence, loss of a server |
| `Reverify`, `Minute`, `ThreeMinutes`, `TransferLimit`, `NewPeriod` | main loop |
| `Shutdown`, `A_*` | SHUTDOWN and the administrator's commands on queues, slots and packs |

Abstracted, and why it is sound for the properties:

* Access checks of SEND (host, group, password, NOSEND, ignore) refuse without
  changing a queue; the model's user passes them, which allows more behaviours.
* Whether a transfer's set-up fails, whether its file has changed, whether it completes
  or breaks off, and when a limit is used up, is a free choice.
* The clock: a network silent for 150 s is `stale`. A timer may fire whenever no
  call is pending.
* `t_check_duplicateip` picks *some* set of more than `maxtransfersperperson`
  running transfers: addresses of connections are not in the state, and the code that walks
  the transfers while it closes them is in `Transfer`.
* Configuration files do not change (REHASH rereads the same values) and
  `send_statefile` is unset.
* `lowbdwth` is not compared: `ThreeMinutes` takes either branch.

Three specifications share the actions. `Spec` has all of them. `QuietSpec`
leaves out the commands with which an administrator overrides the limits by
hand (SEND, QUEUE, IQUEUE, QSEND, SLOTSMAX ...): per-user limits are meant for
users only, and an admin's SEND breaks them on purpose. `LiveSpec` also leaves out
nick changes and shutdown.

## 3. `Transfer`: how it corresponds to the code

State. `trans` maps an id to the fields of `transfer` that steps read: `status`
is `tr_status` (the brief `UNUSED` before `t_setup_dcc` is no state of its own), `start`,
`sent`, `ack` are `startresume`, `bytessent`, `lastack`, `age` counts the seconds
since `lastcontact`, `lsock` and `csock` say whether a socket is open, `remote` is
the peer and `remoteip` the number `t_setup_send` keeps of an IPv4 peer.
`file` has per pack `file_fd_count`, whether `file_fd` is open,
`file_fd_location` (`loc`), where the kernel will read next (`pos`) and
the `ref_count` of each segment of `mmaps`. `listen_ports` and `transfermethod` have
their names. `intact` records whether every unit sent was the unit of the file
at that place; `flushed` whether `t_flushed` counted the download.

Handlers call each other in the middle (`t_establishcon` calls `t_setup_send`,
which may call `t_closeconn`, and then `t_check_duplicateip` closes others), so
the functions are operators from a state to a state and an action is a handler
with all its calls.

| action | code |
|---|---|
| `Create` | `look_for_file_changes`, `create_transfer`, `t_setup_dcc`, `t_setuplisten` |
| `FindResume`, `Passive`, `Connected` | DCC RESUME, DCC SEND of a passive user, `t_connected` |
| `NewConnection` | `t_check_new_connection` |
| `SendFile`, `MapWrite`, `ReadWrite`, `SendFails` | `t_transfersome`, by method |
| `ReadJunk` | `t_readjunk` and the `t_flushed` that follows in `t_perform`; also a read that acknowledges nothing new |
| `Second` | `t_istimeout` and the deletion in `t_perform` |
| `Close`, `FileChanged` | CANCEL, CLOSE, BANN, REMOVE, minspeed, restrictsend, limits, SHUTDOWN; a changed file |
| `PortExpires` | `ir_listen_port_is_in_list` |

Abstracted: the file is a row of units; how much a socket takes, whether a system
call fails, and who holds other ports are free choices; one round of the loop in `t_transfersome`
is a step, so that other handlers may come between rounds, which the code
does not allow (more behaviours, so safe for what is checked); the peer acknowledges
what it received. He may also send what acknowledges nothing new, which refreshes `lastcontact` all the same
(`t_readjunk` does on any byte, `iroffer_transfer.c:528`), so a user who goes on with it holds his transfer for ever;
`t_checkminspeed` ends only one that is still sending, and only where a minimum speed is set.
Ports are numbers below `PortMod`, which stands for 65536. `Close` may hit any
transfer at any time, so the reasons to close need no state here.

## 4. The other modules

### `ServerQueue` and `Network`

State. `conn` is `serverstatus` with `EXIT` of `botstatus`, the address tried
(`serv_resolv.next`), back-off, seconds since `lastservercontact` and
`lastnotify`; `lookup` the resolver child and its pipe; `chan` a `channel_t`
(flags, members, `nextann`) with `kicked` for CHAN_KICKED and the ghost `lost` (the channel
was taken out and in again while an answer was on its way); `me` is the nick the
bot believes in and `nick_number`; `sendq` the record of `ServerQueue`. The
server is external: its link, the nick it gave us, who is in the
channel, and the lines on their way to the bot. It handles what the bot sends
when it is sent; delaying that direction as well would give the bot nothing
else to see.

| action | code |
|---|---|
| `ConnectIrc` (operator), `ChildAnswers`, `ChildEnds`, `Reap`, `ReadAnswer`, `ReadAnswerFails` | `connectirc`, `child_resolver`, `irc_resolved`, `irc_perform` |
| `ConnectDone`, `ConnectFails`, `HandshakeStep` | end of the connection, TLS |
| `Read`, `ReadEnd` with `Handle` | a line of the server, `ir_parseline`: 001, 433, 353, JOIN, PART, KICK, NICK, QUIT, KILL, ERROR, PING |
| `Second`, `FiveSeconds`, `TwentySeconds` | the jobs of `mainloop` for networks: `sendserver`, time-outs, pings, regaining the nick, joining |
| `Say`, `Announce`, `Hop`, `Jump`, `Switch`, `Offline`, `Online`, `Part`, `Join`, `Rehash`, `Shutdown`, `Exit` | commands and the messages they queue |
| `PersonJoins` ..., `KickUs`, `KillUs`, `ServerDies`, `GoesSilent`, `TakeNick` | the server and the net |

`ServerQueue` is a set of functions from a queue record to the next one:
`Enqueue` and `Charge` (`vwriteserver`), `SendQueue` (`sendserver`), `Cleaned`, `Announced`.

### `Packs`

State. `known` is what the process knows: `xdccs`, the requests that wait (by pointer),
`packs_delayed`, the triggers, `md5build`; `saved` is the state file; `disk` the
files, each an inode in one of two versions. A pack has a number (its position)
and an identity (the pointer); the description of a group is a flag on a pack, a
checksum is the content it was computed from. Every command of
`dinoex_admin.c` that changes the list, a group, a trigger or files is an action, with the
saving it ends in (`Stored` writes the file, `Unsaved` does not); `StartMd5`,
`complete_md5_hash`, `AutoAdd`, `RunDelayed`, `Look` are the jobs, `write_files` the save that comes
round. What a command does to a range or to the whole list is a function on `0..n`, one turn of
the code's loop after another (`Renumbered`, `SortedBy`, `SetGroups`, `GroupFiles`, `RemoveAll`, `LookAll`, `Visited`).
`blind` and `left` are ghosts that name known gaps (section 8). `freed` holds the packs whose name a MOVEFILE that cannot open the
file has freed (`a_movefile_sub`, `dinoex_admin.c:3832`): until it gets another one (CHFILE, a MOVEFILE that succeeds, a file found elsewhere)
such a name may turn into any other (`Garbled`). MD5 over a range is a function of turns like the others, in which a pack whose
file is gone is removed and shifts the numbers that follow (`Md5Turn`); where a number is then of no pack, `a_md5` reads through the
null pointer (3562-3573), so the program may end there. A file that appears has a
content (an inode with its time and size) that neither the packs nor the state file have seen.

### `StateItems`, `StateFile`, `DurableStore`

`StateItems` translates `write_statefile_xdccs` and `read_statefile` item by
item: which fields are written under which configuration, and what stands in for the
others. Its actions are the commands that set such a field (each saves),
requests, downloads, the hourly save, REHASH, stop, crash and start with another
configuration. `KeptOverStart` compares what a start finds with what was saved.

`StateFile` has every system call of `write_statefile` as a step: open, the
items, unlink of the old backup, link, rename; each may fail, the process may be killed between any two,
and the file may be unreadable for a while. `DurableStore` is the promise: a
start finds the last save; what is set aside is never lost. The refinement maps
`stored` to the file under its name, or to `Nothing`; `Durable` is the
abstract specification under that mapping.

### `Ignores`, `Incoming`, `Access`, `Http`, `Acks`

* `Ignores`: an entry is a mask, a bucket and the flag; each message adds to the bucket,
  the main loop takes a drop every `autoignore_threshold` seconds. Masks are single
  users and one that covers all. `promised` is a ghost with the time an administrator said.
* `Incoming`: `uploads` with their status, `gets` is `quploadhost`, `fetches` run and `later` is
  `fetch_queue`, `files` what is in the upload directory. What a place that comes free starts is
  part of the event that frees it, as in the code.
* `Access`: `bad` counts wrong passwords per address, `chats` and `https` are
  connections by status. `SeenAs` is the key by which a door counts an address: a CHATME listener
  counts one that is IPv6 by its first half (`net`), as `chat_accept` does, the other doors by all of it.
* `Http`: one connection: status, range, buffer, seconds without progress. The file may change size. What the header announces
  (`due`) is a word of 64 bits (`Word64`), as it is printed.
* `Acks`: a number is sent as digits that arrive in any pieces; `decoder` has the
  fields of the transfer. A word of 32 bits has two digits.

### `LinkedList` → `Lists`, `BufferedOutput` → `Fifo`

`LinkedList` has the items with `next`, and head, tail and size per list;
each function maps a heap to a heap, pointer by pointer. `Lists` is what the
bot means: disjoint sequences; the mapping (`Chains`) follows the links from the head.
`BufferedOutput` has the segments with `begin` and `end`; `Fifo` a queue of numbered bytes.

## 5. Properties

| property | says | hazard |
|---|---|---|
| `PersonLimit` | no host has more than `maxtransfersperperson` transfers, whatever mixture of direct sends, main and idle queue started them | check and act far apart |
| `QueueBounds` | each user's share of both queues, although the idle queue refills the main queue on its own; the queues stay within their sizes | stale check, refill without a request |
| `QueuedOnce` | no user waits twice for a pack, in one queue or across both | moves between queues |
| `SlotLimit` | at most `maxtrans` transfers, with slots refilled inside the loop that deletes transfers | list changed while walked |
| `LimitedPackNotQueued` | nobody waits for a pack at its daily limit | sweep and guard must agree |
| `OverLimitDrained` | over a transfer limit no user waits or is served | sweep of three lists |
| `RemovedPackUnused` | no queue entry or running transfer refers to a removed pack | dangling reference |
| `HoldFreezes` | while HOLDQUEUE is on no step sends or moves a request | seven paths to a send |
| `MainServed`, `IdleServed` | a waiting request does not wait for ever | skipped in the search, nobody calls |
| `FileShared` | the descriptor is counted once for each live transfer and closed with the last; `ref_count` of a segment is the number of its readers | eight ways to end, takeover, switch of method |
| `FileReceived` | nobody gets bytes of another's place; a download is counted only when complete and acknowledged | cached file position; time-out against last acknowledgement |
| `SocketsKnown`, `PortReturned` | exactly the sockets the state needs are open; ports are given back, and nobody else's | partial failure; a port outlives its transfer |
| `DuplicatesEnded`, `Ends` | after a connection no host has too many transfers; every transfer leaves the list, unless its peer for ever sends what acknowledges nothing new | count and close in one handler; a state without a time-out |
| `AckExact` | however acknowledgements are cut, `lastack` is what the user said last, in 64 bits, and never more | format guessed from the first one |
| `NickBelief`, `ChannelBelief`, `MembersKnown` | when nothing is on its way the bot knows its nick, whether it is in its channel, and misses nobody there | requests and answers cross |
| `NoStaleMessage` | nothing is sent on another connection than it was written for | queues outlive connections |
| `ShutdownEnds`, `Reconnects`, `QueueDrains` | a shutdown ends; the bot comes back; what waits goes or is dropped | each phase needs a time-out |
| `GroupDescFirst`, `DescKept` | a group has its description on its first pack, and no step loses it | a dozen commands reorder the list |
| `PacksKnown` | triggers and requests lead to the packs they were made for | numbers, pointers and names |
| `Md5True` | the checksum shown is that of the file as it was last seen | computed over many turns |
| `KeptOverStart` | a start finds packs, requests and limits as saved, under any configuration | fields left out when they equal a default |
| `Durable` | `StateFile` implements `DurableStore` | crash between two system calls |
| `IgnoreKept` | who is to be ignored for a time is ignored that long, through a crash too | flag and bucket, saved and read |
| `Accounted` | `max_uploads` holds; a GET does not count as running without an upload | five ways to end, two lists that wait |
| `Blocked` | an address with too many wrong passwords, as a door counts it, gets no further chance there nor at any door that counts it the same | connections that are already open |
| `HttpWhole` | the body is the bytes from the place asked for; one that ends as complete has as many as were announced, unless the range starts behind its end | seek, range, short writes, file changes |
| `Sequences` | `LinkedList` implements `Lists` | links, ends and size changed apart |
| `InOrder` | `BufferedOutput` implements `Fifo` | short writes behind full segments |

`OverLimitDrained`, `LimitedPackNotQueued` and `RemovedPackUnused` exclude
`Requeued`, the state after SHUTDOWN with `requeue_sends`: `requeue`
puts every transfer of the list back, also finished ones, those of removed packs and those
over the limit. That is what `iroffer_misc.c:1105-1113` does.

`SlotLimit` holds of `Spec` only as far as no administrator starts transfers beyond it: SEND looks at no limit, and
the bound on the list (`Bound`), which guards it in the model, equals `maxtrans` in `queue_admin`. What the run looks at
are QSEND, SLOTSMAX and the automatic starts next to such a SEND; the theorem is about `QuietSpec`.

`TypeOK` of each module is checked once (`AllTypesOK` in `MCBot`), together with what the
functions assert: that the tail has no next item (`LinkedList!Asserted`), that the counters of
`ir_boutput_t` account for every byte (`BufferedOutput!Counted`), that the checksum job is about a pack of the list.

## 6. Runs

| run | instance | shows |
|---|---|---|
| `queue_users` | `QuietSpec`, 2 users, 2 packs (one small, one limited to one get a day), 2 slots of which 1 regular, main queue 1 or 2, idle queue 1 | shares, no double wait, room, daily limit, hold |
| `queue_admin` | `Spec`, every administrator's command, one user who returns from a second address, `restrictsend`, `ignore_duplicate_ip` | slots, nothing left behind |
| `queue_live` | `LiveSpec`, 2 users, 1 slot, main and idle queue of 1 | progress |
| `transfer_share` | 2 transfers of a pack of 3 units in segments of 2, active or passive, 2 ports, any time-out at any time | descriptor, segments, sockets, ports, bytes |
| `transfer_live` | 2 transfers of a pack of 1 unit, users and an owner, 2 hosts of which one is denied, ports chosen by the system | ends, duplicates |
| `irc` | TLS, two addresses of which one refuses, two other users, up to 2 faults of any kind, every command of the owner | beliefs, stale messages |
| `irc_live` | three addresses (refusing, silent, accepting), no TLS, with and without `noautorejoin`, up to 2 faults | shutdown, return, queues |
| `bot` | one subject per behaviour, see below | the other modules |
| `queue_balanced`, `transfer_dcc64`, `transfer_samehost`, `ignore_late` | violated: findings 1 to 4 | |

Why the bounds are enough. A limit of one with two users and two packs already
has every relation the code distinguishes: same nick or same host, same or
other pack, own or foreign entry in front, full or free main queue, full or
free slots. `queue_users` takes a main queue larger than a user's
share, so that the share and the size are told apart. `Bound` caps only what
an administrator can repeat for ever (SEND, QUEUE) and the count of gets, which
saturates above every daily limit. `SwapUsers`
(users change places, nick and host together) is sound as an automorphism:
no constant names one of the users, and no liveness property is checked with it.
Entries of two networks are left to the proofs: each run has one network, the theorems have any number.

For the transfers, two of one pack have every sharing there is: first and last
user of the descriptor, a segment taken over or mapped anew, a port used again.
Three units in segments of two make a whole and a partial segment, and leave
places for two transfers to be at different ones. `Patience` is 0 in
`transfer_share` (a time-out may come at any second, which includes all longer ones) and
1 where the time-out itself is the question. `Ids` is sound: ids are never compared.

For a network, `MaxFaults` counts what the server, the net and the owner do; two are
enough for one event during the answer to another (a kick during a nick
change, a dying server during REHASH). `MaxLines` 1 and `MaxWaiting` 1 or 2
make every handler run with full and empty queues; `MaxBackoff` and `MaxNick`
saturate. Time-outs of 0 in `irc` let them come at any time, those of 1 in `irc_live` are waited for.

`bot` (`MCBot.tla`). The parts share no state in the models, so each behaviour
keeps to one subject, chosen at the start, and the others stand still; that
makes one run of sums instead of a product. Each property is looked at in the behaviours of its subject.

| subject | bounds |
|---|---|
| `groups`, `numbers` | three start lists of up to three packs in two groups, 4 commands (in `groups` the last is about a group) |
| `sums`, `jobs` | 3 commands or changes of the disk (in `sums` the last is a command or a stop), in `jobs` requests and triggers too, 3 files, 2 jobs that wait |
| `items` | 2 packs, 3 configurations (speeds, idle queue, networks, `old_statefile`), 2 commands between starts and stops, any number of those |
| `statefile` | 2 changes, 2 kills or failures in all, 2 versions of the program |
| `ignores` | 2 users (one whose mask has brackets), the wide mask, 3 events in 7 steps of time |
| `incoming` | 2 nicks, 2 names, `max_uploads` 2, 4 events from an empty state and from a state in which a GET runs and others wait |
| `access` | 2 addresses, `MaxBad` 1, 2 connections, 9 events |
| `http` | files and pages up to 5 units, reads of 2, buckets of 3, lengths modulo 16 |
| `acks` | files below, at and above 2^32 (4 units), 3 numbers |
| `lists` | 2 lists, 4 items of which three are equal in the order; no bound on the calls |
| `output` | 10 bytes, 2 segments of 2 |

Four commands reach every combination of two commands that disturb a list
made by two others. While a name is freed the last command is left out: the name takes every value meanwhile. In `incoming` the full start state is one the program reaches in five events, so its runs are nine long.

Fairness of `Transfer`: the main loop visits each transfer every second
(`WF(Second(i))`); nothing is assumed of users or files. A transfer that makes
progress cannot be timed out, but there is only a file's worth of it. `Ends` excuses a
user who sends what acknowledges nothing new infinitely often (`Chatter`), for the code does.

Fairness of `Network`: the jobs of the main loop and reading from a socket with something
to read come round (weakly fair), the resolver child answers or ends, the
server answers on an open link that is not silent. Faults are bounded, so they stop; nothing is
assumed of the owner or other users. `Reconnects` excuses a network that is
offline, and a channel that the bot may not join again (`noautorejoin` after
a kick), was taken out of the configuration, or was lost as described in section 8.

Fairness (`LiveSpec` of `XdccQueue`). The main loop comes round, so a pending call runs
(`WF(CallStep)`), and each second, minute and third minute is noticed: strongly
fair, as these steps are disabled while a call is pending. No transfer lasts
for ever: its peer is silent and `t_istimeout` closes it after 180 s, or it gets
data and ends. Nothing is assumed of users, requests, networks, the limits or
the administrator. `MainServed` and `IdleServed` assume `<>[]Calm`: the networks
stay joined and the queue is not held from some time on, since the code
refuses to send otherwise. Nick changes are excluded: `user_changed_nick`
does not know whether the nick taken is the one a waiting entry is filed
under, so one user who takes over another's nick again and again, with
transfers of his own, keeps the other's requests from being eligible. `IdleServed`
assumes `queuesize > 0`: with `queuesize` 0 an idle queue
is never emptied (`check_idle_queue` returns at once).

Seeded defects. For each property there is a definition such as
`FreeSlot_OffByOne` beside the one it replaces; TLC finds the property
violated when the defect takes its place. They are used nowhere else.

### Findings

1. `balanced_queue` (`queue_balanced`). When a transfer ends, `t_perform` calls
   `check_main_queue(slotsmax)` before `send_from_queue(0, 0, trnick)`.
   `check_main_queue` first calls `check_idle_queue(0)`; if that moves an entry it ends in
   `start_one_send`, which calls `send_from_queue(0, 0, NULL)`. The
   slot is filled without the nick of the user who just had it, and that user
   may get it again while another one waits. `sample.config:677` says the next
   file would NOT be one queued by the same user.
2. `mirc_dcc64` (`transfer_dcc64`). `t_setup_send` decides on 64-bit acknowledgements only
   where it opens the file. A transfer that joins one of the same pack finds
   the file open and stays a 32-bit one, although `sample.config:583` says all transfers
   greater 4GB are 64-bit.
3. `ignore_duplicate_ip` (`transfer_samehost`). `t_check_duplicateip` looks for
   transfers with the `remoteip` of the new one. `remoteip` is set for IPv4 peers
   only, and only after `t_check_ip_access` let them pass; the check also runs
   when `accept` failed or the peer was denied. The new transfer's 0 then equals the 0 of each
   IPv6 transfer; when there are more than `maxtransfersperperson` of those, all of
   them are aborted and their users ignored, to whatever hosts they were sent.
   `README.modDinoex:767` speaks of multiple transfers to the same host. Conversely,
   passive transfers (`t_connected`) are never checked.
4. Ignored for ever (`ignore_late`). An entry goes when its bucket is exactly 0 after a
   drop has left (`iroffer_main.c:506`). IGNORE for less time than
   `autoignore_threshold` sets the bucket to 0 (the division at
   `dinoex_admin.c:4259` rounds down), so the first drop makes it -1 and the
   user stays ignored, although the answer was that it will last so many minutes.

## 7. Proofs

Each theorem below holds for every value of the constants that satisfies the `ASSUME`s of
its module (which TLC evaluates in the runs) and, for some of them, the hypothesis in the last
column. The `ASSUME`s say that limits and bounds are numbers, of segments and slots that there are some, and what
holds of options (`slotsmax` within `maxtrans`; the state file holds well-formed entries). `StartedAssumption`
of `Packs` is about the lists a first start finds: an earlier process saved them, so each pointer is there once, of a group
only the first pack has a description, and a sum is that of the content that was seen.

| theorem | statement | hypothesis |
|---|---|---|
| `XdccQueueProofs!TypeCorrect` | `Spec => []TypeOK` | |
| `SlotLimitHolds` | `QuietSpec => []SlotLimit` | |
| `PersonLimitHolds` | `QuietSpec => []PersonLimit` | |
| `OverLimitDrainedHolds` | `Spec => []OverLimitDrained` | |
| `RemovedPackUnusedHolds` | `Spec => []RemovedPackUnused` | |
| `LimitedPackNotQueuedHolds` | `Spec => []LimitedPackNotQueued` | |
| `HoldFreezesHolds` | `QuietSpec => HoldFreezes` | |
| `QueuedOnceHolds` | `Spec => [](QueuedOnce \/ Requeued)` | `RestoredOnce`: no double entry in the state file |
| `QueueBoundsHold` | `QuietSpec => [](QueueBounds \/ Requeued)` | `RestoredFits`: the queues of the state file keep to the limits |
| `TransferProofs!TransferTypes` | `Spec => []TypeOK` | |
| `FileSharedHolds` | `Spec => []FileShared` | |
| `FileReceivedHolds` | `Spec => []FileReceived` | |
| `SocketsKnownHolds` | `Spec => []SocketsKnown` | |
| `PortReturnedHolds` | `Spec => PortReturned` | |
| `DuplicatesEndedHolds` | `Spec => DuplicatesEnded` | |
| `NetworkProofs!NetworkTypes` | `Spec => []TypeOK` | |
| `NoStaleHolds` | `Spec => []NoStaleMessage` | |
| `NickBeliefHolds` | `Spec => []NickBelief` | |
| `MembersKnownHolds` | `Spec => []MembersKnown` | |
| `ChannelBeliefHolds` | `Spec => []ChannelBelief` | `MaxWaiting < MAXSENDQ`: the queue has room for a PART and the JOIN after it |
| `PacksProofs!PacksInvariant` | `PacksSpec => []PInv`, types | |
| `GroupDescFirstHolds` | `PacksSpec => []GroupDescFirst` | |
| `PacksKnownHolds` | `PacksSpec => []PacksKnown` | |
| `Md5TrueHolds` | `PacksSpec => []Md5True` | |
| `DescKeptHolds` | `PacksSpec => DescKept` | |
| `ServicesProofs!AccountedHolds` | `IncomingSpec => []Accounted` | |
| `BlockedHolds` | `AccessSpec => Blocked` | |
| `HttpWholeHolds`, `HttpTypes` | `HttpSpec => []HttpWhole`, types | |
| `AckExactHolds` | `AcksSpec => []AckExact` | |
| `RestartProofs!IgnoreKeptHolds` | `IgnoresSpec /\ []Small => [](IgnoreKept /\ IgnoresTypeOK)` | `Admin \cap Excluded = {}`: no administrator is in `autoignore_exclude`; `Small`: no bucket outgrows the 32 bits it has in the file |
| `ItemsInvariant` | `ItemsSpec => []ItemsInv`, types | |
| `KeptOverStartHolds` | `ItemsSpec => KeptOverStart` | |
| `RefinementProofs!StateFileDurable` | `StateFileSpec => Durable` | |
| `OutputInOrder` | `BoutSpec => InOrder` | |
| `OutputCounted`, `OutputTypes` | the assertion of `ir_boutput_t` on its counters, types | |
| `LinkedListIsLists` | `HeapSpec => Sequences` | |
| `ListsImplemented` | `HeapSpec => Abstract!ListsSpec` | |
| `HeapAsserted` | `HeapSpec => [](HeapTypeOK /\ Asserted)` | |

After a SHUTDOWN with `requeue_sends` (`Requeued`) every transfer stands in front of the
main queue, so a user may wait twice and the queue be longer than it may; without
that option the two theorems are about every state. The run `queue_users` starts from restored
queues that satisfy `RestoredOnce` and `RestoredFits`.

### Arguments

**Requests.**

* `SlotLimit` and `PersonLimit` are not inductive: a pending
  `send_from_queue` starts a transfer without looking at the slots again. What makes it
  safe is that whoever pushed the call has looked, and that everything above the
  call in the stack leaves the number of transfers alone. `QuietInv`
  therefore adds `QuietCalls`: a running `send_from_queue` has
  a free slot and no position given by an admin; no such call waits deeper in the stack,
  where it could have become stale (there is only `main_ready`, which looks
  again); and an argument of `main_ready` does not exceed `maxtrans`. For
  `PersonLimit` the guard `Sendable` counts every transfer of the host, a count that
  closing, dropping or renaming transfers cannot raise (`CountKeep`, `CountDrop`).
* `OverLimitDrained`, `RemovedPackUnused` and `LimitedPackNotQueued` are the
  conjunction `ServedInv`, one shape: every entry and every running transfer is
  *allowed* now. Steps of three kinds are shown to keep it: those
  that only remove, reorder, rename or close (`KeepsWaiting`, transitive); those
  that make an allowed request into an entry or a transfer (their guards);
  those that withdraw a permission (limit, REMOVE), which sweep. They have to
  be proved together, for a transfer started from a queue is allowed only because the entry was.
* `HoldFreezes` is an action property: `Frozen` states the two inequalities,
  and each step either cannot start or move with `holdqueue` (the guards of the
  call chain) or only shortens the lists.
* `QueuedOnce` is about pairs of entries, which may stand in different queues. What is inductive is a
  count: of each user, network and pack both queues together hold at most one (`AskedOnce`). A move takes
  one away and adds one, a sweep only takes away. The user is his host, so that a nick change leaves the count alone.
* `QueueBounds`: a refill looks at the share of the user whose entry it moves and at the size of the queue, unless a
  position was given with IQSEND, so what has to be known of the pending calls is that none of
  QuietSpec names one (`Searches`).

**Transfers** (`TransferInv`). The functions map a state to a state, and some of them leave a transfer
half done for their caller (`t_closeconn` in the middle of `t_setup_send`, of `t_check_duplicateip`).
`Good(s, X)` is the invariant of a state in which the transfers of the set `X` do not have the sockets their state
needs yet; each function is shown to take a good state to a good one, with what it adds to `X` or takes out.
`FileShared` is then a statement about cardinalities: `file_fd_count` is the number of live transfers of a pack,
and each `ref_count` that of the readers of a segment, so closing, taking over and mapping anew
are lemmas about adding an element to a finite set or removing one. `PortReturned` needs that no two transfers
listen on one port, for the port that is given back must not be another's. `DuplicatesEnded`: `t_check_duplicateip` goes by
`remoteip`, the property by the peer. What is kept of the peer of a connected transfer is his address (`Peers`), so the
transfers to him are among those the walk counts, and what it does not count any more it has closed. Every other function is
`Calm`: it connects nobody anew.

**Network** (`NetworkInv`). A state is good if the link to the server is there only while the bot is connected
or shakes hands (`Linked`), if nothing old waits while there is a server (`Fresh`), and if the nick the
bot believes in when it has read all that is on its way is the one the server knows (`Agrees`, of the
lines, the belief and the nick). `NickBelief` is the case without lines. `Aware` is the same for the
list of members, but what is on the way is now folded over: each line makes another list of the one before
(`Effect`), and the last of any sequence of lists that obeys it has everybody who is in the channel
(`Covers`). A sequence may start anew at the line of a join of the bot, with any list
at all, for the names that follow it are everybody; so the list the bot has may be forgotten, cleared by a
kick or a REHASH, or out of date, as long as it does not count. Handlers take a line away (`Follows`), the server adds one
(`CoversAppend`, `CoversJoin`), everything else leaves list and lines alone or makes the list count less (`Calm`).
`ChannelBelief` is about three things that cross: what the bot believes of its channel, the lines on the way, and
the JOINs and PARTs that wait in the normal queue. `Sure` compares what the bot *will believe* when all lines are
handled (`WillBelieve`: the last JOIN of its own or KICK decides) with what the server knows and what waits
(`Fits`: a JOIN waits only if the bot will not believe to be in, or a PART goes first; without one the belief is
right unless a PART waits). It needs that only the normal queue asks for something (`Quiet`), that
nothing waits there while a connection is made, and that before `waitjoin` and after EXIT nothing asks to join
(`Early`). There is one lemma for each handler of a line, for sending a message, for the server and for the owner, as for `Good`. Handlers of
many lines and the sending of many messages are functions on `0..n`; that their values exist and keep a
predicate that every turn keeps is proved once (`Iterated`, `Climb` of `QueuesTheorems`).

**Packs** (`PInv`). A list is `Regular` if no pointer is there twice and of the packs of a group only the first may have a
description. Most commands only rearrange packs or change groups, so there are two kinds of lemmas: what a function
does to groups and descriptions, and what it leaves of the rest, the `Cores` (pointer, file, content, trigger, sum), as a set.
`GroupDescFirst` alone is inductive for neither: a list that is taken apart in the middle (a pack between two
places, a group set for sorting only) has it for all groups but one (`DescFirst(l, G)`), and `reorder_groupdesc` is shown to bring that
group back. For `DescKept` each function is shown to make no group *bare*, one with packs and without a description
(`Bare`), that was not so before; the loops keep that turn by turn. What the program keeps is `Good` and its triggers
are `Live`: a request points at a pack of the list, and that pack is the one it was made for; a trigger's pack has one or was left behind. The state
file is a `GoodFile`: its packs are as good, and a number in it means the pack that was asked for. Both are needed together, for a
restart makes the one of the other. For `Md5True` the sum of a pack is that of the content seen, also while the job
is under way (`Building`), or the pack is `blind`, or the content is `Gone`: a first version that no file has any more. A version
never comes back once it was overwritten, so a sum that is left of it is shown for no file; that a content which only moved may come back
is why the state file and the packs in memory have to be about the same disk. A name that was freed may turn into any other
at any time (`GarbledKeeps`): nothing that is proved rests on the name, only on the content last seen, which stays. The loop of MD5 is
followed turn by turn (`Turned`), each turn a removal, a start or a mark.

**Uploads.** `GetsEnd` closes the first GET of a nick, whatever that GET has come to. It is the
right one because the GETs that run stand before the one that is tried, and that one before those
that wait (`Ordered`); the visits of the list are shown to keep this by looking at the first place
where it could fail.

**Passwords.** `Blocked` compares an address' wrong passwords with the chances it has left at doors that are open.
A wrong password is paid for with the chance to try it; what is needed besides is
that a chat which can try knows whose it is (`Known`). The proof is by key; that each address has a key at each door makes it
the property.

**HTTP.** The end of what was sent is the place where the answer goes on (`Fits`), a place that only moves
together with the body; the bucket may be overdrawn by less than a read. What is announced is the difference modulo
`Word64`, and it is the difference itself just where the range does not start behind its end, as files are smaller than that.

**Acknowledgements.** All numbers that were sent are one stream of digits, and those on the way are its end (`Arriving`).
While a number is read its first digits are the new one's and the others still those of the number before (`Joins`). So a user
who counts in 32 bits is understood: the new lower half under the old upper half is the new number, or seems less
than the old one, and then 2^32 is missing (`Carry`, which needs that he leaves out less than 2^32). How he counts
is decided after two digits and never again, so a wrong decision is a case of its own (`Untold`; `NarrowKnown` for the
other way), the one `Recognised` excludes. A read of many digits is one more function on `0..n`. The digit
arithmetic (`NumDigits`, `PutDigit`) rests on products and divisions that are cut into steps of one product each.

**Ignores.** An entry goes when a drop leaves its bucket with 0, so one with b drops left stays for b of them, and one
with none or a negative number for one at least (`Lasts`). What has been announced for a mask is *covered*, by an entry
of that mask which lasts until then: in the list, counted from the last drop, and in the file, counted from when it was written
(`Covered`). A drop moves both ends by a threshold, a restart moves the start by the time that has passed and takes
the drops of that time away, and an entry written half way through a pass has lost a drop or
is about to. Both hypotheses are needed: TLC finds `IgnoreKept` violated without them.

**State file.** What the file holds is always `write_statefile_dinoex` of the ghost `wasSaved`, so the theorem is that reading undoes
writing, up to the configuration. A pack is a list of up to twelve items, each written on a condition; `ReadNext` says what
one condition and one item do to each field, `PackRead` puts the twelve together, and that reading goes item by item is
a function on `0..n` (`ReadTurns`). A request is a number in the file. It finds its pack because each request in memory leads
to a pack (`Consistent`), which also a start keeps that has left packs out.

**Refinements.** `StateFile`: while the new file is put in its place the temporary file holds all of the state
(`TmpWhole`), and a program that does not run knows nothing. Each step is then a step of `DurableStore` or a stutter.
`BufferedOutput`: a function of the code does many steps of `Fifo` in one, so `Moved(s, t, x, d)` says what it does as a whole: `x` came in,
what waits in `t` and what went out since `s` are what waited in `s` followed by `x`, but for `d`
bytes dropped at the end. `Moved` composes, which is what the loop of `write` needs; that this loop
ends at all (each turn writes, flushes or makes room) is shown by a `Measure` that each
turn lowers, from at most `2 * MaxBytes`.
`LinkedList`: `Holds(h, S)` says that the heap `h` has the sequences `S` in its lists: ends, length, the next of each item, no item
in two places, and no next for an item that is in none. Then the chain of a list, which stops for lack of items, is its sequence
(`ChainIs`: a list is not longer than there are items). Each function takes a heap that holds `S` to one that holds
what the sequence operation makes of `S` (`Inserted`, `Removed`, `MovedItems`). Cleaning
and sorting are functions on `0..n`, followed turn by turn: after n items the heap holds the list without those that
were to go among the first n (`CleanedItems`); after n turns of the sort the first n items are
in irlist_sort2's list in the order `Before` gives them, the others still in the old one (`SortingNext`). The sorted
list is stated by an order of the places that `Before` agrees with, so stability is part of it. Only finitely many items and integer ranks
are assumed (`ListsAssumption`).

The lemmas on sequences say what `Keep`, `Purge`, `Drop`,
`InsertAt` and `Count` return, preserve and bound. `Keep` picks the j-th kept
position with `CHOOSE`; that there is exactly one (`NthExists`) is proved by
taking the least number with a certain cardinality, through the library's facts on
finite sets.

### Only model-checked

* All liveness (`MainServed`, `IdleServed`, `Ends`, `ShutdownEnds`, `Reconnects`,
  `QueueDrains`), which needs ENABLED, outside the prover's reach.
* Of `AllTypesOK`, the part of `Acks`: its bound on `curack` is of the run. Of a user who is mistaken for one who
  counts in 32 bits each number can seem to have passed 2^32 once more, so after about 2^32 of them the code's 64 bits would
  wrap. `AckInv` has the types of all that `AckExact` needs.
* That the models stay within the bounds of the runs (`MaxEntries`, `MaxClock`, `MaxWork`).


## 8. What modelling showed besides

Met while translating the code, excluded from a property by a condition or a ghost
that its comment names, or not contradicted by any text of the repository.

* State. `CHDESC n ""` leaves an empty description, which is read back as
  none: the next start drops the pack, and numbers and requests behind it shift
  (`dinoex_admin.c:2835`, `iroffer_statefile.c:688`). `CHMINS n 0` against a default above 0 is not written
  and comes back as the default (`dinoex_statefile.c:613`). A request of a network
  that is gone becomes one of network 0, and one of network `networks_online` is let pass.
  Both queues come back into the idle queue when there is one. CHGETS leaves the
  daily limit's count where it was. A state file that cannot be read is
  overwritten by an empty one (the old one stays as the backup).
* Packs. FILEREMOVE removes packs without rebuilding triggers or saving
  (`dinoex_admin.c:3967`, ghost `left`); a range stops at a foreign group without
  the final part. REGROUP to MAIN leaves the description of the group
  (3513); a checksum begun before a change was seen can outlive it (ghost `blind`).
* Network. REHASH forgets CHAN_KICKED but keeps CHAN_ONCHAN: with `noautorejoin` the bot then
  believes to be in the channel. A channel that is taken out and in again (PART and JOIN,
  REHASH) while an answer is on its way leaves a wrong belief (`chan.lost`). When the queue is full the JOIN of
  a HOP is dropped although its PART went in (`iroffer_misc.c:433`): the hypothesis of `ChannelBeliefHolds`.
  EXIT of a network is
  overwritten when ERROR follows in the same read (`dinoex_irc.c:1584`). SHUTDOWN lets closed networks connect
  once more. Text longer than `server_send_max` never goes out (`iroffer_misc.c:514`), but is cut before.
* Ignores. A user whose nick has brackets is never found in the list, which
  grows. IGNORE of a wide mask does not reach users that have an entry already; IGNORE of a
  user covered by a wide entry changes that entry. An administrator in `autoignore_exclude` who sends ADMIN
  empties the bucket of the entry that covers him, ignoring or not (`dinoex_user.c:1080`): the others it covers are let in
  too early. `autoignore_threshold` 0 is accepted (`dinoex_config.c:456`) and IGNORE divides by
  it (`dinoex_admin.c:4259`); the models take it at least 1.
* Uploads. When an upload that no GET asked for ends, nothing that waits is started
  (`dinoex_jobs.c:1820`); when several fetches end in one pass only one is
  started; a GET that is refused blocks those behind it until GET CANCEL. `Accounted` therefore
  speaks of places taken, and no liveness is claimed.
* Chats. Wrong passwords of an address are not forgotten by a right one; a page below
  /admin that is asked for without a password counts as a wrong one. A chat has no time-out while connecting
  or asking for the password, so `Blocked` counts open connections as chances.
* HTTP. A read goes up to the bucket beyond the end of the range, so a body may be longer than
  announced; `bytes=0-0` means the whole file. A range that starts behind its end or that of the file is neither refused nor cut
  (`dinoex_http.c:801`), nor is one of a page from memory that starts behind 0: the length is printed as an unsigned
  number (849), almost 2^64, few bytes or none follow, and the answer is logged as complete. `HttpWhole` leaves these
  answers out of what it says of lengths. Numbers of 2^63 and more in a range are not in the model.
* IPv6 at the chat listener. `chat_accept` asks `accept` for as many bytes as an IPv4 address has
  (`dinoex_chat.c:317`), so an address that is IPv6 is counted there by its first half, and one that is blocked at telnet or
  HTTP has chances of its own at CHATME, which it shares with its half of the net. `Blocked` is about each key.
* MOVEFILE. Where the file cannot be opened, `a_access_file` frees the string that is still `xd->file`
  (`dinoex_admin.c:3832`), and the pack goes on with it. Renaming that fails for a name relative to `filedir`, and MOVEGROUPDIR, which calls the
  same function, can do it too. The model lets the name be any from then on (`freed`). What it leaves out
  is that REMOVE, CHFILE or MOVEFILE of such a pack frees the string again, which may end the program.
* MD5 over a range with a lost file, under `removelostfiles`: the pack goes inside the loop, the next number
  means the next pack but one, and past the end of the list `irlist_get_nth` gives none, which `a_md5` reads through (3563). An administrator
  restricted to groups is told instead that it is not his (`group_restricted`).
* Acknowledgements. A user who counts in 32 bits and resumes above 4 GB, or whose first
  number is his start, is taken for one who counts in 64 (`Recognised`).
* Lists. Sizes of segments are compared as a 64-bit difference cut to an `int`
  (`iroffer_utilities.c:2005`). Output. A flush that fails after it has written something drops what came after.

## 9. Plan

Done: the modules above, their runs, and the proofs of section 7. Left, in this order:

1. `RequestBook`: what users are promised (asked, waiting, served or told no,
   at most once each), implemented by `XdccQueue` under a refinement mapping.
2. A run for the wrap of the port range (`PortTry` has it) and one with two networks.

## 10. Not modelled

Wire formats, texts, colours, XML and HTML; Blowfish, UPnP, Ruby, GeoIP
and libcurl (adapters to external code); digests (vendored); natural sorting (vendored); the terminal;
the configuration parser (its ranges are the ASSUMEs) and the command line;
bandwidth shares and statistics. Commands that only write text. NOCHANNEL, channel modes, 005, NickServ, messages in
pieces; `fileremove_max_packs`, `disk_quota`, `adddir_min_size`, `auto_default_group`.
Memory exhaustion ends the program and is not an event of the models. The code calls no fsync:
what survives a power failure depends on the file system.
