# NetPlay in KARphin: specifications and proofs

KARphin is a fork of the Dolphin emulator made to play one game over the
network. Most of the repository emulates hardware. The part that is KARphin's
purpose, that is concurrent and distributed, and that tests hardly reach, is
NetPlay: several emulators, each with several threads, run the same game in
lockstep by exchanging controller inputs through a server in one of them. This
directory models NetPlay in TLA+, from the traversal server that finds a host to
the lock-free queue that carries its packets, checks small instances with TLC
and proves the safety invariants for every instance with TLAPS.

Paths below are relative to `src/Source/Core/`.

## 1. Inventory

### NetPlay game life
`Core/NetPlayClient.cpp`, `Core/NetPlayServer.cpp`,
`DolphinQt/NetPlay/NetPlayDialog.cpp`, `DolphinQt/MainWindow.cpp`,
`Core/Core.cpp`, `Core/HW/CPU.cpp`, `Core/HW/SI/SI.cpp`, `Common/Event.h`

*State.* In each client: `m_is_running`, `m_current_game`, the pad buffers, the
target buffer size, the pad map, the event `m_gc_pad_event`, the global pointer
`netplay_client` behind `crit_netplay_client`, the dialog's
`m_got_stop_request`, the main window's pending boot. In the server:
`m_is_running`, `m_current_game`, every player's `current_game`, the async
queue.

*Operations.* Start (server), announce and boot (client GUI thread), poll and
wait for inputs (`GetNetPads`, CPU thread), relay of inputs (server), change of
the buffer size, stop by a player, stop by the server, loss of a connection.

*Interactions.* CPU, NETPLAY and GUI threads of one client share the pad
buffers, two flags, an event and two mutexes. The GUI thread waits for the CPU
thread in `Core::Stop`, the CPU thread waits for other players, and the NETPLAY
thread waits for the CPU thread in `NetPlay_Disable`. Clients talk to the
server over reliable ordered channels.

*Hard.* Wake-ups between a check and a wait; a GUI thread that must not wait
for the network; starts and stops that overtake each other because a start
takes a detour through the GUI queue; inputs of an old game in a new one.

*Correct when.* No wake-up is lost; the inputs a game consumes are those its
owner produced for that game, in order and without gaps; input delay is
bounded by the buffer; a stop or a dropout releases everyone who waits.

### NetPlay start protocol
`Core/NetPlayServer.cpp`, `Core/NetPlayClient.cpp`,
`DolphinQt/NetPlay/NetPlayDialog.cpp`, `ChunkedProgressDialog.cpp`

*State.* `m_start_pending`, `m_saves_synced`, `m_codes_synced` and two answer
counters; the chunked data queue with its two events, the abort flag and the
complete counts; in each guest the chunks being received and a count of saves.

*Operations.* `RequestStartGame` (GUI) in three stages; the Chunked Data
thread; `OnData` for the answers (NETPLAY); aborts by the host, by a failed
guest and by a guest that leaves; joins.

*Interactions and what is hard.* Three server threads share all of this with
little locking. Answers carry no number of the start they answer. Saves and
codes use different channels, so they overtake each other.

*Correct when.* A game starts only when everybody has what this start sent; a
start that nobody disturbs ends; the Chunked Data thread never sleeps on work.

### NetPlay session
`OnConnect`, `OnDisconnect`, `KickPlayer`, `GiveFirstAvailableIDTo`, pad,
Wiimote and GBA maps, roster messages, chat and ping. State: `m_players`, the
maps, the ids kept in ENet peers; in the clients a copy of the roster.
Correct when every handled event belongs to a known player, the rosters agree
once messages have been delivered, and a map never names a player who is gone.

### Golf mode (host input authority)
The server keeps a current golfer and hands over in several messages
(`GolfSwitch`, `GolfPrepare`, `GolfAcquire`, `GolfRelease`); the CPU threads
stall in `GetNetPads` during a hand-over. Correct when at most one golfer's
inputs are used and every stall ends.

### Desync detection
`TimeBase` messages are collected per frame until there are as many as players.
Correct when different time bases of one frame are reported, and equal ones
never are, whoever leaves.

### Traversal client and server
`Common/TraversalClient.cpp`, `Common/TraversalServer.cpp`,
`Common/TraversalProto.h`. UDP packets with acknowledgements, retries and
timeouts; host ids; a connect request that goes from one client through the
server to another. The server gives up on a packet after five tries, evicts a
host it has not heard of for 30 s, and a duplicated hello gets another host id.
A refusal (`ack.ok` false) is acted on whatever request it answers. Correct when
at most one connection comes of one request, and every request is answered.

### Primitives
`Common/SPSCQueue.h` (single producer, single consumer queue),
`Common/Event.h`, `Common/Flag.h`, `Common/BlockingLoop.h`. Correct when the
queue is a FIFO queue and no wake-up is lost.

### The rest
The dialogs beyond what they do to the protocols, the game digest, the lobby
index, the emulated hardware, CPU cores, video, audio, input, disc images, IOS,
the Android and command line front ends. None of these is modelled; the reason
for each is in `PROJECT.json`.

## 2. Plan

| step | module | what | state |
|---|---|---|---|
| 1 | `NetPlayGame`, `MCNetPlayGame` | start, input exchange, stop, dropouts, in delay mode | done |
| 2 | `NetPlayGameProofs` | types, no lost wake-up, the bound on the delay | done; `InputsInOrder` open |
| 3 | `NetPlaySync` | the start protocol with the chunked transfer | done |
| 4 | `NetPlaySyncProofs` | types, the Chunked Data thread is awake, the saves come before the game | done |
| 5 | `SPSCQueue`, `Fifo` | the queue implements a FIFO queue | done |
| 6 | `SPSCQueueProofs` | types, memory safety, size, the refinement | done |
| 7 | `Traversal` | client and server, lost and late packets, retries, eviction | done |
| 8 | `NetPlaySession`, `MCNetPlaySession` | join, leave, kick, ids, roster, pad map | done |
| 9 | `NetPlayGolf` | hand-over of the golfer | done |
| 10 | `NetPlayDesync` | time base records and leaving players | done |
| 11 | `NetPlaySessionProofs`, `NetPlayDesyncProofs` | every invariant of the two modules | done |
| 12 | `NetPlayStart` | abstract start protocol (idle, pending, running; everybody ready) that `NetPlaySync` implements while nothing fails | open |
| 13 | `TraversalProofs`, `NetPlayGolfProofs`, `NetPlayGolfInputProofs` | every invariant of the two modules | done |

The modules meet at single steps. `Traversal` ends where a joiner's ENet
connection begins, `NetPlaySession` is what that connection leads to, the
`RequestStartGame` of the session is the subject of `NetPlaySync`, whose
`ServerStartGame` is the `StartGame` of `NetPlayGame` (and, in golf mode, the
initial state of `NetPlayGolf`); `NetPlayDesync` watches the games. The FIFO
queues in all of them are `Common::SPSCQueue`, which `SPSCQueue` shows to be
one. They are kept apart because products of them are out of TLC's reach and
they share only those steps and the set of players.

## 3. `NetPlayGame`

One variable per field that matters, named after it (the table is in the
module). A thread is a program counter: `cpu`, `net` and `gui`. The Qt event
queue of each GUI thread is `guiq`. Each step between two points where another
thread can see or change something is one action:

| code | actions |
|---|---|
| `NetPlayServer::StartGame`, `AdjustPadBufferSize` | `ServerStartGame`, `AdjustPadBufferSize` |
| `NetPlayServer::ThreadFunc` | `ServerDrainAsync`, `ServerOnData`, `ServerOnDisconnect` |
| `NetPlayClient::ThreadFunc`, `OnData` | `ClientOnData` with one handler per message, `ClientOnDisconnect` |
| `StopGame` on a client: `InvokeStop`, `NetPlay_Disable`, `NetPlayDialog::StopGame` | `OnStopGame`, `InvokeStopSet`, `NetPlayDisable`, `DialogStopGame` |
| `NetPlayClient::StartGame` on the GUI thread | `GuiStartGame`, `GuiEnable`, `GuiBootGame` |
| `MainWindow::ForceStop`, `RequestStop`, `OnStopComplete` | `GuiForceStop`, `UserStop`, `GuiCoreStopped` |
| `EmulationStateChanged` | `GuiStateChanged` |
| `GetNetPads` | `CpuPoll`, then `CpuPop`, or `CpuEmpty`, `CpuCheck`, `CpuWait` |
| `CPUManager::Stop` | `CpuPowerDown` |

Mutexes are guards: `crit_netplay_client` is held while `InGetNetPads`,
`m_crit.game` while `InStartGame`. An input is the label of the emulation that
made it, the game that emulation announced and its number; that is all the
properties tell apart.

Abstractions. A client's async queue and the channel behind it are one queue,
since nothing else writes to that channel. The several `PadMapping` messages a
dropout causes are sent in one handler and are one message. An emulated frame
is one poll of every mapped pad; between frames the CPU thread looks at
`PowerDown`. Left out: Wiimote data, GBA pads, movie recording, and a change of
the pad map by the host in the middle of a game.

### Runs

Two players in each. `MaxGame`, `MaxFrame`, `MaxAdjust`, `MaxStop` and
`MaxDrop` bound games, frames, buffer changes, user stops and lost connections.

* **game_exchange**: both players have a pad, three frames, the buffer size
  goes from 0 to 1 or back once, batched polling. `NoLostWakeup`,
  `InputDelayBounded`, `InputsInOrder` and the types. Three frames with a
  target of at most one fill and empty every buffer, and both threads of a
  client are seen at every point of the wait.
* **game_restart**: two games, one user stop, unbatched polling. The inputs of
  the first game are still under way when the second starts; the players'
  `current_game` has to keep them out.
* **game_stop**: both players have a pad, one frame, and either two user stops,
  by either player and at any moment, or one guest that loses the connection
  (`StopOrDrop` keeps the two apart; a stop after a dropout, or the reverse, is not
  searched).
  `CoreStopReturns` and `WaitEnds`, under fairness. One frame is enough for a
  CPU thread to be at every point of `GetNetPads` when the stop comes.
* **game_stop_race** (violated): `StopEndsWaiting`, see Findings.

`missed` records that a stop reached a client whose GUI thread was not done
with the start. That case is the first finding; after it a client may run a
game the others have left, and none of the properties is promised. The
properties say so (`missed = {}`), and the runs cut the search there
(`NoMissedStop`): past the cut every one of these properties holds trivially,
so the cut hides nothing, and no state before it is left out.
`WithinBounds` adds that no client has used up its frames: a client that stands
still because of `MaxFrame` is an effect of the bound, not of the code. Deadlock
is not checked: with the bounds used up the system stops.

*Fairness.* Weak fairness for the server's draining of its async queue, for its
handling of each peer, and for each client's three threads. `ThreadFunc` loops
over both queues for as long as the server lives, ENet serves all peers, Qt
handles its queued events in order, and the operating system runs the threads.
Nothing is assumed about players, buffer changes or lost connections.

### Proofs (`NetPlayGameProofs`)

For every set of players, every pad map of one to four pads, both polling modes
and all bounds:

* `TypeCorrect`: `Spec => []TypeOK`. One lemma per action, `TypeStep` combines
  them. Lemmas on messages (`DownMessages`, `UpMessages`) give the type of a
  message's fields from its tag.
* `NoLostWakeupCorrect`: `Spec => []NoLostWakeup`. `NoLostWakeup` together with
  `TypeOK` is inductive. The argument: a buffer becomes non-empty only by
  `OnPadData`, which sets the event in the same step, or by the CPU thread
  itself, which is not waiting then; the event is reset only by `CpuWait`,
  which goes back to look at the buffer; and `m_is_running` is cleared only by
  the two handlers after which the NETPLAY thread is at `set`, from where its
  next step sets the event. That `CpuCheck` reads `m_is_running` after the
  buffer, and not before, is what the second conjunct needs.
* `DelayIsBounded`: `Spec => []InputDelayBounded`. The bound speaks of one
  buffer, the owner's own, but everything that can write to it has to be known.
  `DelayInv` has three parts besides the types. `Orderly` orders a client's
  start and stop: a client whose emulation runs a game it has been told to stop is
  on its way to stop it, and no start comes first, so `ClearBuffers` cannot empty
  the buffer of a running emulation. `Upward`, `Downward`, `Announced` and `AtClients` say of
  every input, wherever it is, that the owner of its pad has really made it, and
  that it is never on its way back to its owner; and of every buffer size under
  way that the host may choose it. `Delayed` then says how the owner's buffer
  looks (`Ahead`, `InRow`): it ends with the inputs of the emulation that runs,
  in a row up to the last one made, and is never longer than a target and one
  more. Where a stop has been missed, nothing is claimed.

## 4. `NetPlaySync`

| code | actions |
|---|---|
| `NetPlayDialog::OnStart`, `RequestStartGame` | `PressStart`, `RequestSaves`, `RequestSavesFails`, `RequestCodes`, `RequestNow` |
| `AbortGameStart`, the queued `SetOptionsEnabled` | `AbortGameStart`, `GuiEnableOptions` |
| `ThreadFunc`, `OnConnect`, `OnDisconnect` | `DrainAsync`, `OnConnect`, `OnConnectAdd`, `OnDisconnect` |
| `OnData`: `SyncSaveData`, `SyncCodes`, `ChunkedDataComplete` | `OnAnswer`, `FailureClearsPending`, `OnChunkedDataComplete` |
| `ChunkedDataThreadFunc` | `ChunkedDataWake`, `ChunkedDataClear`, `ChunkedDataStart`, `ChunkedDataSend`, `ChunkedDataEnd`, `ChunkedDataCheck`, `ChunkedDataWait` |
| guests' `OnSyncSaveData`, `OnChunkedData*`, `OnSyncCodes` | `GuestOnChunk` with one handler per message, `GuestOnCodes` |
| end of the game on the host | `EndGame` |

A save is the number of the start it was sent for, so that the properties can
tell an old save from a new one. `attempt`, `starters`, `game`, `aborts`,
`fails`, `aborted` and `gone` are history or bounds and no field of the code.

What is one step. `ChunkedDataAbort` stores a flag and sets two events; the
flag comes first, and an event set late only wakes the thread to look again, so
one step shows the same outcomes. The start and the payload of a chunk are one
message, and so are the five messages of a code sync, since only the last of
them is acted on. Popping the whole queue and resetting the abort flag is one
step: an entry pushed between the two is treated like one pushed after them.
`OnConnect` takes two steps, because `RequestStartGame` reads the players
without the lock; the failure of a guest takes two, because it enables the
Start button before it clears `m_start_pending`.

What cannot happen and is not there. No code calls `SyncCodeResponse(false)`.
`CollectSaveSyncInfo` and `SyncCodes` fail only when the game is not in the
list, which `OnStart` has checked. The host's own client ignores save data.
The destructor of the server is not modelled: `m_do_loop` stays true.

### Runs

* **sync_start**: up to two guests, who may join at any time, one save, two
  starts with any choice of what to sync, no failures, under fairness. Types,
  `SavesBeforeStart` and `PendingEnds`. Two starts let one follow on every
  combination of what the other has synced, and two guests let the answers of
  one overtake those of the other.
* **sync_abort**: one guest, two starts, one cancel, one save that cannot be
  read or written, one guest that leaves. `ChunkThreadAwake`. Two starts are
  enough for the entries of one to meet the abort of the other.

`SavesBeforeStart` and `PendingEnds` speak of the time before the first abort.
That is as far as the code keeps the promise: after an abort an answer to the
aborted sync counts for the next one, and `m_saves_synced` may stay false for
good, so that a start that syncs codes alone never begins. `SavesBeforeStart`
asks nothing of guests who came after the host pressed Start or have left since
(nobody leaves in this run; the theorem below covers those who leave), and
nothing about codes: `RequestStartGame` sends the saves before `SyncCodes` resets
`m_codes_synced`, so if every guest answers in between, the game starts without
the codes of this start. These limits of the two properties are listed under
the hazards, at the lines where they bite.

*Fairness.* Weak fairness for each thread of the server and for each guest's
handling of what it has received; nothing about what people do. Deadlock is not
checked, as the bounds let the system stop.

### Proofs (`NetPlaySyncProofs`)

`ChunkThreadAwakeCorrect`: `Spec => []ChunkThreadAwake`, for every finite set
of players, every number of saves and all bounds. `ChunkThreadAwake` is not
inductive alone: the thread leaves its loop when it sees the abort flag and
goes to sleep on `m_chunked_data_event`, so that event has to be set whenever
the flag is. `ChunkInv` adds this (`AbortSignalled`, with the exception of the
moment in which the thread is handling an abort it has already been woken for)
and the types it needs, and is inductive.

`Typed`: `Spec => []TypeOK`. The types of the chunked transfer come from
`ChunkInv`: that the thread finds an entry at the head of its queue when it
sends is no matter of types alone. The rest is shown variable group by variable
group, with the wire last: what a queue holds after a push, a pop or a drain.

`SavesComeFirst`: `Spec => SavesBeforeStart`. The server counts answers, and an
answer names neither the guest nor the start, so the proof has to say where
every message of a sync can be. `SaveInv` does, for the time before the first
abort and at least one save (with none there is nothing to hold):

* The announcement and the saves have a rank, 1 and the number of the save
  plus 1. A queue is a `Stream` from `a` to `b` when it holds the ranks after
  `a` up to `b`, each once and in order; other messages do not matter.
* `Flow`: while a sync is under way, the Chunked Data thread still has the
  saves from `u` on (`Unsent`, `Rest`), the asynchronous queue is a stream from
  `m` to `u`, and each guest's channel one from `k` to `m`, where the guest has
  handled the first `k` (`Handled`: it has counted at most `k - 1` saves, and if
  it has counted them all it holds them all). `m` is 0 as long as somebody is
  between the two steps of `OnConnect`: it gets the whole sync or none of it.
* `Tally`: there is a set of guests with at least `m_save_data_synced_players`
  members, none with an answer under way and each with all its saves; of the
  others each has at most one answer under way, and only with all its saves. So
  when the count reaches the number of guests, the set is all of them. That is
  an argument about cardinalities and the reason why the players are assumed
  to be finitely many.
* `Quiet`: between two syncs no announcement, save or success is left anywhere,
  so nothing of one start can be counted for another.
* `Waiting`, `Absent`, `Kept`: a start is pending while its saves are, nothing
  goes to or comes from somebody who is not a player, and what has been synced
  stays in place until the next start.

Most steps move nothing of a sync (`Passive`) and are dealt with together; the
steps that do have a lemma each (`SyncBegins`, `SaveIsSent`, `SaveIsDelivered`,
`JoinedInTime`, `AnswerCounts`, `GuestHandles`). TLC checked `SaveInv` on small
instances with joins and leaves before it was proved.

## 5. `SPSCQueue` and `Fifo`

`Common/SPSCQueue.h`, the queue between the CPU, GUI and NETPLAY threads. Every
load and store the other thread can see is a step:

| code | actions |
|---|---|
| `Push` | `PushCurrent`, `PushLink`, `PushAdvance`, `PushSize` |
| `Size` or `Empty`, before a pop | `Ask` |
| `Front`, `void Pop()` | `FrontPop`, then as below |
| `Pop(T&)` | `PopRef`, `PopSize`, `PopAdvance`, `PopTake`, `PopDelete` |
| `Clear` | `Clear` |

Elements are cells of a heap: an address may be given out again after a
`delete`, and a `delete` frees all that can be reached through `next`
(`Reach`), as the destructor of `ElementPtr` does. `m_size` has `SizeMod`
values. `guard` is what the consumer of this queue asks before it pops: the
users of the queue in NetPlay ask either `Size()` or `Empty()`. `chain` is the
only history variable, the elements from `m_read_ptr` on.

`Fifo` is what everybody takes the queue for: a sequence, put at one end and
taken at the other. The mapping: `items` is `Items`, the values of all elements
of the chain but the last, `out` is `Taken`, which is already the value of the
element that is being popped. So the put happens at `PushLink`, not when the
size is raised, and the take at `PopAdvance`.

* **spsc**: four addresses, two values, a size of eight values, every
  interleaving. `MemorySafe`, `SizeCounts`, `IsFifo`, the types, and no
  deadlock. With four addresses the queue holds up to three values, is empty,
  and every address is freed and used again, also while the producer still
  holds it as the last element.

The atomics are sequentially consistent in the model; the acquire and release
orders the code asks for are not told apart. `Clear` is documented as not
thread-safe and happens only while both threads are out of the queue.

### Proofs (`SPSCQueueProofs`)

For every set of values and addresses and every width of the size:
`TypeCorrect`, `MemorySafeCorrect`, `SizeCountsCorrect` (`Spec => []...`) and
`FifoCorrect`: `Spec => IsFifo`. None of the properties is inductive. `Inv` is
`TypeOK` with

* `Shape`: the chain has no address twice, `next` leads from each element to
  the next one and from the last to null, and begins at `m_read_ptr`;
* `Places`: where `m_write_ptr`, `new_ptr` and `tmpptr` point to, for each
  place the two threads are at;
* `Counted`: the size is the length of the chain, less what a push has yet to
  count and plus what a pop has discounted too early;
* `Front`: the value `Front()` has returned is still the oldest one when
  `void Pop()` removes it.

`Shape` is what makes `Reach` computable: the destructor of an element that has
been cut off reaches itself only. For the refinement every action is shown to
be a put, a take, a clear or a stutter under the mapping.

## 6. `Traversal`

`Common/TraversalClient.cpp`, `Common/TraversalServer.cpp` and the callbacks of
`NetPlayClient`. The network is a set of datagrams, so they overtake each other;
`Lose` removes one. A timer runs out when nothing of the exchange is on its way
any more, or, as a fault, earlier: that is the timeout that races a late answer,
and makes a duplicate. `lost`, `late` and `evicted` count the faults.

| code | actions |
|---|---|
| `ReconnectToServer` | `HostStart`, `HostRetry` (the Retry button), `Join` |
| `HandleResends`, `HandlePing` | `ResendPacket`, `ResendTimeout`, `HandlePing` |
| `HandleServerPacket` | `OnAck`, `OnHelloFromServer`, `OnPleaseSendPacket`, `OnConnectAnswer` |
| the loop of the constructor of `NetPlayClient` | `JoinEnds` |
| server: `HandlePacket` | `ServerOnAck`, `ServerOnPing`, `ServerOnHello`, `ServerOnConnectPlease` |
| server: `ResendPackets`, `EvictFind` | `ServerResend`, `ServerGivesUp`, `Evict` |

Codes are numbers in the order they are given out: they are 32 random bits, and
the code tries again when one is taken. `punched`, `answers`, `readyAddr` and
`given` are history.

* **traversal**: a host, one joiner, two tries, one fault of any kind, one ping
  and one retry, under fairness. `ReadyMeansPunched`, `AnsweredOnce`,
  `ForgottenIsTrue`, `RetriesSuffice`, `HelloAnswered` and the types. One fault
  with two tries is the edge of `RetriesSuffice`; every packet of the exchange
  can be the one that is lost, or doubled by a late answer.

*Fairness.* The threads of both programs run and the network delivers what it
does not lose. The server's timers are not in it. `select` returns after 0.3 s
at the latest, but on that path `ResendPackets` compares with the `currentTime`
of the last `recvfrom`: a packet that was sent once is due again only in the
round of a later datagram. Only what was just allocated, a `ConnectFailed` with
no try yet, is due by whatever clock (`ServerSendsFirst`). The invariants are
checked with resends at any time, as other clients of the server, which are not
modelled, may send something at any time. `HelloAnswered` has this as a named
premise: `Busy` says that other clients keep the server's clock going. Under it
the host is answered when there are fewer losses than tries. Without it the
property is false of the code: the hello is acknowledged, the one
`HelloFromServer` is lost, the client no longer repeats its hello and has no
timer for the reply, and an idle server never resends it. The premise is part
of the property, not of the specification, so nothing else rests on it.

Left out: the refusal of a `PleaseSendPacket` by the host (`ack.ok` false, for
an address that is not IPv4; ENet's are), the test for a minimal TTL, IPv6
addresses (which the client refuses), errors of the local socket, and a host
that cannot be resolved.

### Proofs (`TraversalProofs`)

For any number of joiners and tries and any bounds: `Typed`, `ReadyIsPunched`,
`OneAnswer`, `ForgottenOnlyWhenDropped` and `EnoughRetries`, which are
`Spec => []TypeOK`, `[]ReadyMeansPunched`, `[]AnsweredOnce`, `[]ForgottenIsTrue`
and `[]RetriesSuffice`. All follow from one inductive invariant, `TInv`, which
says of every packet where it can have come from:

* `Codes`: a code in a request, a reply or a table was given out, and to whom;
* `Refusals`: a refusal is under way only to a client one of whose codes the
  server has dropped;
* `Ids`: replies are numbered in order, and a number stands for one reply;
* `Punched`: an acknowledgement of a `PleaseSendPacket`, and the `ConnectReady`
  the server makes of it, exist only once the host's NAT is open for the joiner;
* `Answered`: a client that waits for an answer has had none;
* `Owners`: the id of a request names its client, and a client that is gone
  keeps no packets;
* `Tried`: a packet that is kept was tried once for every loss, and once more
  when it or its acknowledgement is on its way.

Every action against every conjunct would be hard to read, so the proof has two
layers. `Effects` is what a step may do to the network, to the packets each
side keeps, and to codes and attempts (every new packet is a request, a reply or
an acknowledgement made for a reason that is named); each action is shown to
have only such effects, and each conjunct of `TInv` is then shown to survive
them.

## 7. `NetPlaySession`

Who is in the session. `players` is the server's map, `data` the id kept in the
ENet peer, `roster` and `cmap` what each client has been told, `up` and `down`
the two directions of each connection.

| code | actions |
|---|---|
| constructor and destructor of `NetPlayClient`, `Connect` | `Connect`, `ClientOnNews`, `ClientOnEnd`, `Disconnect`, `ComeBack` |
| server's `ThreadFunc`: receive and disconnect events, `OnConnect`, `OnDisconnect` | `ServerOnInit`, `ServerOnBadPacket`, `ServerOnDisconnectEvent` |
| ENet gives a peer up | `LoseConnection` |
| GUI: `KickPlayer`, start and end of a game | `KickPlayer`, `RequestStartGame`, `StartGame`, `StopGame` |
| GUI: `PadMappingDialog`, `SetPadMapping`, `UpdatePadMapping` | `OpenDialog`, `ChangeMapping`, `AssignMapping`, `BuildMapping`, `SendMapping` |

What one handler sends to one peer is one message, since the channel keeps them
together and in order. A packet that `OnData` refuses, whatever the reason, is
`Bad`. The dialog keeps pointers to the client's players; a row whose player
has been removed since may show any id, and the current index of a box is set
from an id, as `PadMappingDialog` does, although rows and ids differ once
somebody has left.

`raced` records that the host's dialog overlapped with a join or a leave: it
works on a copy of the map, without a lock, and writes it back whole. `raced`
is where `PadMapAgrees` and `NoGhostPad` end.

* **session**: two guests, up to three players, two pads, two of the bounded
  events (kicks, bad packets, lost connections, returns, starts, uses of the
  dialog), guests symmetric. `PeerOwnsPlayer`, `RosterAgrees`, `PadMapAgrees`,
  `NoGhostPad`, `GoneIsRemoved` and the types. Joins and leaves by the guests
  are not bounded events, so ids are used again by the other guest; two events
  are enough for a kick of a player who is leaving, or for a dialog during a
  leave. That the server is full cannot happen with two guests; refusals for
  the other reasons do.

No fairness: the properties speak of what is so once the messages have arrived.
Left out: the Wiimote and GBA maps, which are handled like the pad map, chat,
pings and the choice of the game.

### Proofs (`NetPlaySessionProofs`)

`PeerOwnsPlayerCorrect`: `Spec => []PeerOwnsPlayer`, for any number of guests,
players, pads and events. `PeerOwnsPlayer` is inductive with the types of its
two variables (`OwnerInv`): it says both that an id in a peer leads to that
peer's player and that a player's peer holds its id, and each half needs the
other. A join takes an id that nobody has (`FreeID`: there is one because
`OnConnect` has counted the players, and the smallest free number is at most
that) and goes to a peer without one; a leave clears the id in the peer it
belonged to, in the same step as the player.

`Typed`, `RostersAgree`, `PadMapsAgree`, `NoGhosts` and `GoneAreRemoved` state
`TypeOK`, `RosterAgrees`, `PadMapAgrees`, `NoGhostPad` and `GoneIsRemoved`. They
rest on `SessionInv`, whose parts are

* `HostStays`: the host's own client is in, with id 1, and its connection is not
  closed;
* `Seats`: what each phase of a client means for the two queues and for the id
  in its peer (the first packet of a connection is handled once, before anything
  is sent; a client that gave up is nobody or has its disconnect event ahead; one
  without an id waits for its answer or is being thrown out);
* `RosterFollows` and `MapFollows`: the messages on their way to a client turn
  what it holds into what the server holds. Replaying a queue is a recursion,
  about which nothing can be proved here. `Becomes` says the same without one:
  either no message says anything of this id (or of the map), and the two agree,
  or the last message that does says what the server holds. A queue that grows
  at its end and shrinks at its head keeps that;
* `Dialog`: as long as nobody joins or leaves (`raced` is false), the rows of
  the host's dialog are the players of the session, so the map it writes names
  players only.

## 8. `NetPlayGolf`

Host input authority with golf mode, in one game. The steps of `GetNetPads` are
those between which another thread can see something: the pause at its head
(`Pause`, `ClearReceived`, `Woken`), the own pad (`PollLocalPad`),
`SendPadHostPoll` (`SkipHostPoll`, `WaitFirst`, `BuildInput`, `SendInput`) and
the end (`Pop`); `Leave` is the end of the polling once the game has stopped
(`NetPlay_Disable`). The client's NETPLAY thread has one action per message
(`OnGolfSwitch`, `OnGolfPrepare`, `OnPadData`, `OnPadHostData`, `OnStop`), the
server too, with `ServerKicks` for pad data of one who is not the golfer.

`up` holds what is on its way to the server, with `m_async_queue` at its end.
`SendAsync` appends (pads, inputs and requests). The NETPLAY thread empties the
queue after each `enet_host_service` and before `OnData`, so how much of `up` has
already been sent is not fixed: `Flushed` has every cut whose rest consists of
what goes through `SendAsync`. A direct `Send`, by the CPU thread (the answer to
`GolfPrepare`) or by the NETPLAY thread in `OnGolfSwitch` (`GolfRelease` and
`GolfAcquire`), is put in at such a cut and overtakes the rest. No variable
keeps the cut from one step to the next, so the model has every order the code
has and some more: a message that was sent may be overtaken later by one that
could in the code only overtake what was queued after the last drain.

`OnGolfSwitch` is one step although it assigns `m_current_golfer`, calls the
dialog and sends. Another thread can in between only append to the queue, which
the same NETPLAY thread does not drain meanwhile, or poll as one who is not the
golfer; the first is a cut further to the left, or is seen by `Overtaken` while
the CPU thread is still in `SendPadHostPoll`. A `GolfPrepare` sent directly by
the CPU thread cannot fall in between: the one who is asked is never the one
who releases, and the one who acquires has answered before.

Every player has a pad and an input stands for all pads of a poll, which is how
batched polls work. `taken` is the history of the inputs each emulator has
applied. `early` records a message of the game that was handled before the
client's GUI thread ran `StartGame`, which then resets the golfer: client and
server disagree from then on. `late` records that a golfer's `GolfRelease` has
overtaken one of its own inputs (`Overtaken`): an input the CPU thread had put
into `m_async_queue` after the last drain, or one that `SendPadHostPoll` goes on
to queue, as it does not ask again who the golfer is. The input then comes after
the release and can get its sender kicked. Both are what the code does; the
properties say what holds without them, and `NotEarly` ends the search at
`early`.

* **golf**: two players, five polls, two requests, a stop at any time.
  `OneGolfer`, `InputsAgree`, `NoKickInTime`, `GolferFed`, `StopWakes` and the
  types. Two requests hand control over and back; five polls let each player be
  the golfer for a poll and leave inputs in the buffers at the hand-over. 4.7
  million states.
* **golf_wait** (violated): `WaitEnds` with three polls and one request, under
  weak fairness for every thread, see Findings.

Left out: unbatched polls, spectators, a second game and a player who leaves in
the middle of a hand-over (other than by a kick).

### Proofs (`NetPlayGolfProofs`, `NetPlayGolfInputProofs`)

For any number of players, polls and requests. The first module proves `Typed`
(`TypeOK`), `StopAlwaysWakes` (`StopWakes`), `OneGolferAtATime` (`OneGolfer`)
and `GolferIsFed` (`GolferFed`). The argument is a token argument, in `Control`:

* `OneToken`: at most one of these exists at any time: a client that takes
  itself for the golfer, a `GolfRelease` on its way up, a `GolfSwitch` on its
  way down to the client it names;
* `OneQuestion`: the same for the question that begins a hand-over: a
  `GolfPrepare` on its way, a client that has received it and not answered, an
  answer or a `GolfAcquire` on its way up;
* `Stages`: what the server believes (`current` and `pending`) says which of
  these there are;
* `Parked`: the next golfer stands at the head of `GetNetPads` from its answer
  until it is switched to, so it cannot be found in the middle of a poll;
* `Fed`: a poll that has been built is in the buffer.

Most actions only move the queues by one place, which `Shifted` says and
`NeutralStep` uses; the eight that move the token or the question have a lemma
each.

The second module proves `InTimeIsNeverKicked` (`NoKickInTime`) and
`EmulatorsAgree` (`InputsAgree`). Inputs are numbered as they are made. There is
a number `f` of inputs the server has passed on (`Flow`); each client has taken,
holds in its buffer or has on its way, in a row and in order, the inputs up to
`f` (`Downstream`), and those after `f` are in a row with the one who has the
control, or has just released it, or on their way from there (`Upstream`).
`Owned` says that inputs come from the token's owner or lie before its release,
which is why the server never meets one of somebody else (`CoveredRelease`: a
release that overtakes none of its owner's inputs lies after all of them); `LastWord` says that
the switch is the last thing that reaches the next golfer, so it has all inputs
before it makes the next (`Counted`). Both theorems exclude `early` and `late`,
as their properties do.

## 9. `NetPlayDesync`

A client sends its time base every sixty frames; `OnTimeBase` is the server's
handler, with `Complete`, `Differ` and `Blame` for its comparison. A time base
tells the games apart, since it starts from the clock, and the emulators that
have drifted: each of those is unlike all others. `StartGame` of the server is
two steps, as it clears the records on the GUI thread, without a lock, before
it sets the rest. `stale` records that a record was handled in between, or that
a record of one game was kept for the next: then the next game can be called
desynced although nobody has drifted. `short` holds the frames that had a record
when somebody left. The properties end there, and `NotStale` ends the search.

* **desync**: three players, two frames, two games, one emulator that drifts,
  one guest that leaves, with or without the end of the game. `NoFalseAlarm`,
  `BlameIsRight`, `DesyncFound` and the types. Three players are the fewest with
  a majority; records of two frames mix, and a leave can make one complete
  without its last record.

No fairness; deadlock is not checked here nor in the other modules with bounds.

### Proofs (`NetPlayDesyncProofs`)

`NoFalseAlarmCorrect`: `Spec => []NoFalseAlarm`, for any number of players,
frames and games. `AlarmInv` adds that an emulator that has drifted is on
record, that every time base on its way or kept is either the common one or has
a culprit in its game (`Honest`), and that, until a record is stale, all kept
records are of the current game and there are none in the middle of `StartGame`.
Two records that differ are then of one game, so one of them is not the common
one.

`Typed`, `BlameCorrect` and `DesyncIsFound` (`TypeOK`, `BlameIsRight`,
`DesyncFound`) need to know which records there are, not only what is in them.
`FoundInv` adds that a client's messages are in the order of games and frames
and not behind what the server has handled of it (`MessagesOrdered`,
`HandledPast`), that a drifted time base names the player who sent it
(`RecordsSound`), and the state of each frame (`FrameState`): untouched;
collecting, in which case the records are exactly those of the players handled,
one of each and not yet of all, or reported by all and compared. `OnTimeBase`
compares the number of records with the number of players; by a cardinality
argument the two are equal only when everybody's record is there, so what
differs is among what is compared.

## 10. Findings

* **game_stop_race.** A client starts a game in two stages: the NETPLAY thread
  queues the start, the GUI thread performs it and only then resets
  `m_got_stop_request`. A stop that is handled in between returns at once from
  `NetPlayDialog::StopGame`. The client then boots a game that is over and
  waits in `GetNetPads` for inputs that nobody sends.
* **golf_wait.** The golfer sleeps in `SendPadHostPoll` until it has the first
  state of every pad. A player who is told to prepare before its own first poll
  never sends that state: it becomes the golfer instead. The switch does not
  wake the former golfer, whose CPU thread sleeps until the game is stopped.

Three more observations have no run. An idle traversal server does not resend
(section 6): the timeout of `select` leads to `ResendPackets` without a new
`currentTime`, so a host whose only `HelloFromServer` is lost stays in
Connecting until some client sends the server a datagram. `ClearBuffers` says it is called from the
NETPLAY thread; it is called from the GUI thread, and a faster client's first
inputs of the same game can be in the buffers by then. And the limits of the
start protocol after an abort, at the end of section 4.

## 11. What is only model-checked, and what is not covered

Liveness (`CoreStopReturns`, both `WaitEnds`, `StopEndsWaiting`, `PendingEnds`,
`HelloAnswered`) is checked by TLC only: the prover does not handle fairness.
Every invariant and every other action property that a run checks is also a
theorem, with one exception: `InputsInOrder`. It compares the inputs the core
uses with what each player made in this game, so its inductive invariant has to
number an input in every buffer and channel on its way, across the end of one
game and the start of the next. It is checked on the instances above.

The proofs assume of the constants what the modules state: the bounds are
natural numbers, there is at least one player (one try, one place in the
session), the players of `NetPlaySync` are a finite set, and the names that
stand for nobody, for the host and for the null pointer are names of nothing
else (`NameAssumption`, `NullAssumption`).

Not modelled: the contents of saves, codes and packets; ENet itself (a channel
is a FIFO queue, a lost connection empties it); the condition variables below
`Event`; weak memory. The client's flags are atomics. The server's
`m_abort_chunked_data`, `m_start_pending`, `m_saves_synced` and the complete
counts are plain fields that several threads use without a lock; they are
modelled as single reads and writes in program order, which is what the calls
between them (mutexes, events, ENet) make of them in a real build, and what a
race does to the inside of the unordered map of counts is not modelled.

The rest of the repository is emulation: CPU cores, graphics, audio, input,
discs and IOS, most of it sequential and full of data, and vendored libraries.
`PROJECT.json` gives the reason for each part.

## 12. Running

    tlc -workers 2 -config NetPlayGameExchange.cfg MCNetPlayGame
    tlc -workers 2 -config NetPlaySyncStart.cfg NetPlaySync
    tlc -workers 2 -config NetPlaySession.cfg MCNetPlaySession
    tlc -workers 2 -config SPSCQueue.cfg SPSCQueue
    tlapm NetPlayGameProofs.tla
    tlapm NetPlaySyncProofs.tla
    tlapm SPSCQueueProofs.tla
    tlapm NetPlaySessionProofs.tla
    tlapm NetPlayDesyncProofs.tla
    tlapm TraversalProofs.tla
    tlapm NetPlayGolfProofs.tla
    tlapm NetPlayGolfInputProofs.tla

and likewise for the other configurations; `PROJECT.json` names the module and
the configuration of each run.

Every operator whose comment begins with "Mutant" is a deliberately wrong
variant of the definition after it. `PROJECT.json` says which property each of
them breaks: put in place of its original, TLC must report that property.
