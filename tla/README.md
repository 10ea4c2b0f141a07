# A TLA+ model of the engine's network and gameplay cores

This directory models the stateful cores of the real-time strategy engine in
`src/rts` (a Recoil/Spring engine with an "AoE" rendering and combat layer).
The simulation itself is a lock-step program: every client executes the same
frames from the same packets. What makes it correct is therefore the
machinery around the frames: connections that deliver every message once and
in order over UDP, a server that decides who takes part and what happens in
which frame, task groups that finish, ids and slots that are never shared by
two objects. Those are what is modelled; geometry, rendering and I/O are not.

Every property is stated and explained in its module, next to the code
behaviour it is about. `PROJECT.json` maps each definition to the source lines
it stands for.

## 1. The system

| component | state it keeps | operations | talks to |
|---|---|---|---|
| `UDPConnection` (`System/Net`) | numbered chunks not sent, not acknowledged, to be re-sent; chunks received out of order; the fragment of an incomplete message; muted/closed | `SendData`, `Flush`, `Update`, `ProcessRawPacket`, `Close`, `Unmute`, `ReconnectTo` | its peer over UDP; listener; the owner's update loop |
| `UDPListener` | connections by address, connections waiting to be accepted | `Update`, `AcceptConnection`, `SpawnConnection`, `UpdateConnections` | socket, `UDPConnection`, `CGameServer` |
| `LocalConnection`, `LoopbackConnection` | two static message queues, instance counter | as `UDPConnection` | game thread and server thread of one process |
| `CGameServer`, `GameParticipant` (`Net`) | participants and their state, teams, skirmish AIs, frame counter, sync checksums, pause and speed | `ServerReadNet`, `ProcessPacket`, `BindConnection`, `CreateNewFrame`, `CheckSync`, `LagProtection`, `KickPlayer`, `SpecPlayer`, ... | all clients; runs in a thread of its own |
| `CNetProtocol`, `CGame::ClientReadNet` | the client's connection, its frame queue | dispatch of every message | server |
| `ThreadPool` | task groups, a queue per priority, sleeping workers | `PushTaskGroup`, `WorkerLoop`, `WaitForFinished`, `SetThreadCount` | every parallel loop |
| `Aoe2UnitGameplayRenderBridge` | a slot per shown unit or corpse, renderer instances, queued unit events | `ProcessEvents`, `AddUnit`, `AddFeature`, `RemoveUnitSlot`, `Prepare`, `Update` | sim events, renderer |
| AoE attack motion (`Unit.cpp`, `Weapon.cpp`) | phase of an attack, shots owed, reload of each weapon, release frames | `BeginAttackMotion`, `NotifyAttackReleased`, `CancelAttackMotion`, `FinishAttackMotion` | weapon, move type, command AI |
| `SimObjectIDPool` | free ids, ids waiting for reuse | `ExtractID`, `FreeID`, `RecycleID` | unit and feature handlers |
| teams, movement, paths, line of sight, Lua, AIs, renderer, sound, files | | | |

Interaction in one line: a client's `SendData` goes through its connection to
the server, which stamps it into the stream of frames it broadcasts; every
client executes that stream; the simulation uses the thread pool inside a
frame and emits events that the render bridges consume between frames.

### What is hard in each part, and what correctness means there

* **UDP connection.** Packets are lost, doubled and reordered, two kinds of
  nak lists point into arrays by position, timers race late answers, the
  sending loop can stop anywhere. Correct: no chunk lost, each direction is a
  reliable FIFO channel, positions stay aligned, everything arrives in the end,
  buffers drain.
* **Listener.** A datagram must reach the one connection it belongs to, while
  connections expire, are accepted late, or reconnect from another address.
* **Local connections.** Static queues survive the objects that use them.
* **Server sessions.** A participant is unconnected, connected, being
  disconnected with a delay, expired or rebound; packets of any of these may
  still be queued. Correct: one link for each participant, a kicked player
  never acts, the state a reconnecting player is given is consistent with the
  stream he joins.
* **Frames.** Sync answers come late or never; correct: a desync is reported
  for the players that differ, and the frame counter never waits for a dead one.
* **Thread pool.** Workers sleep and are woken; correct: no task lost or run
  twice, `WaitForFinished` returns only when all are done, and does return.
* **AoE render bridge.** Unit addresses are reused, events arrive in batches;
  correct: a renderer instance has one owner, none survives its unit, a corpse
  takes over the instance of its unit.
* **AoE attack motion.** Cancellation, target death, stun and reload interleave
  with the animation; correct: one shot per windup, a refund exactly when
  nothing was released.
* **Id pool.** An id is never given to two live objects.

## 2. How the project is laid out

| module | extends, uses | models | proofs |
|---|---|---|---|
| `ReliableChannel` | | abstract: one direction of a connection | |
| `UDPChunks` | | numbered chunks, acks, naks, resends over a bad network | `UDPChunksProofs` |
| `UDPConnection` | `UDPChunks`, refines `ReliableChannel` twice | messages, fragments, reassembly | `UDPConnectionProofs` |
| `GameServer` | | sessions, broadcasts, frames and checksums | `GameServerProofs` |
| `ParallelFor` | | abstract: what a parallel loop promises its caller | |
| `ThreadPool` | refines `ParallelFor` | loops over recycled task groups | `ThreadPoolProofs` |
| `ThreadPoolTasks` | | single-thread tasks: who deletes them, and when | `ThreadPoolTasksProofs` |
| `SimObjectIDPool` | | the pool of unit ids (operators) | |
| `Aoe2UnitBridge` | `SimObjectIDPool` | slots, events and renderer instances | `Aoe2UnitBridgeProofs`, `Aoe2UnitBridgeEventProofs` |
| `AttackMotion` | | the attack of a unit that stands still to shoot | `AttackMotionProofs` |

`MC...` modules hold the instances that TLC runs. What could come next, in this
order: `UDPListener` (which datagram reaches which connection), a local client
(`LocalConnection`) in `GameServer`, spectators who join and teams that change
hands, `LagProtection`.

## 3. The modules and the code

### ReliableChannel
What one direction of a `CConnection` promises: what was handed to `SendData`
comes out of the peer's queue unchanged, in order and once, possibly several
messages at a time.
### UDPChunks
Both ends of one connection and the network between them. A chunk is its
number. The state of an end is that of `UDPConnection`: `newChunks`,
`unackedChunks`, `resendRequested`, `lastInOrder`, `waitingPackets`, `muted`,
`closed`; `created` is `currentPacketChunkNum`. `net[e]` is the set of packets
in flight to `e`. Being a set, it reorders; a packet may stay in it after it was
delivered (duplication), and a later transmission may push it out (loss).

| action | code |
|---|---|
| `Unmute` | `Unmute()` |
| `Receive` | the handling of one datagram in `Update`: `ProcessRawPacket` with `AckChunks`, the nak list, `UpdateResendRequests`, the storing and consuming of chunks |
| `Update`, `UpdateMuted` | the `Flush(false)` that ends `Update` |
| `ForcedFlush` | `Flush(true)` from outside |
| `Close`, `CloseMuted` | `Close(flush)` |
| `AttemptReconnect` | `CNetProtocol::AttemptReconnect`: a temporary connection that announces the player in a chunk 0 of its own |

`Update` receives all datagrams and then flushes. It is split at the datagrams;
the flag `polling` keeps other calls of the same end from coming in between.
`Flush` is atomic, since a connection belongs to one thread at a time.

Abstractions of data: the three `unackTime` timers and the flush timer are
booleans chosen freely by the step that reads them; the bandwidth limit lets
the sending loop end after any prefix; the toggle between new and re-sent
chunks and the packing order are replaced by "every packing in which at most
one packet is not full"; where the rotation of a lossy connection's resend list
starts in the middle is free. A corrupted packet is a lost one (its checksum is
tested before anything else). The loss factor is set before the first flush, as
all callers do. `ReconnectTo`, which moves a connection to another address,
changes none of the variables here.

### UDPConnection
Extends `UDPChunks` by the messages: `SendData`, the cutting of queued messages
into chunks of `maxChunkSize` bytes by `Flush` (a forced flush takes all, an
unforced one waits or takes as many as the bandwidth allows, messages with a
bad length are discarded), and the reassembly through `fragmentBuffer`. A byte
is the pair of its message and index, so a message that is cut short, doubled or
glued to another differs from every valid one. `PacketLength` follows
`ProtocolDef`: a length that the id tells, one stored in the second byte, one stored
in the second and third (`HeaderLen` is 1, 2 or 3; the length is not known when the
buffer ends before them), and unknown ids, of which one byte is skipped.
`AfterPass` is one pass of the loop of `ProcessRawPacket` over the received bytes,
`ConsumeChunks` its outer loop over the chunks that have come in order. `Fits` keeps
a flush within the bound `MaxChunks`.

### GameServer
`CGameServer` with its `GameParticipant`s. `UpdateLoop` is one thread that goes
round: connection attempts, the packets of player after player, `Update` with
the expiry of links, the start of the game or new frames, commands of the host.
`place` says where it is, `next` whose packets are read. Network and clients need no
steps of their own: what they do matters when the server looks.

| action | code |
|---|---|
| `RejectConnection`, `Connect`, `Reconnect`, `Revive` | `HandleConnectionAttempts` with the outcomes of `BindConnection` |
| `ReadNothing`, `TimeOut`, `ReadPlayerName`, `ReadSyncResponse`, `ReadQuit` | `ServerReadNet` and the cases of `ProcessPacket` that change a session or a frame |
| `ExpireConnections` | `CheckForExpiredConnection` |
| `CountDown`, `StartLater`, `StartGame` | `CheckForGameStart`, `StartGame` |
| `NewFrames` | `CreateNewFrame` with the bookkeeping of `CheckSync` |
| `KickPlayer`, `NextRound` | a command of `hostif`, the end of a round |

`received` is the history of what the present client program of a player was
sent, `history` that of all broadcasts; the code has neither. A packet is its
kind and player. Frames count from 1. How much a client is behind, how
long a link is silent and when the 30 seconds of the start are over are free
choices of the step that asks.

A player runs one client program at a time: a new one means the former has ended,
although the server may not know. `EarlyReturn` says whether he may come back
within the second in which the server still keeps his former link
(`DISCONNECTION_DELAY`): section 5 tells what happens then.

### ParallelFor, ThreadPool
`ThreadPool` has `for_mt`, `for_mt_background` with `wait_for_mt_background`, and
nested `for_mt`. A thread has a stack of frames, since the body of a loop may
start another and `WaitForFinished` executes other groups while it waits. Each
access to an atomic that another thread can notice is a step: the two halves of
`Enqueue`, the claim of an index (`ctr`), the body, `remainingTasks`,
`inTaskQueue`. Groups are recycled by `TaskPool`: the real pools hold 256 groups
of a function type, the model `PoolSize`. `LoopSpec` says that the pool keeps
`ParallelFor`: each item is executed once, after the call was made and before it
returns. (The items capture the caller's locals by reference, so one executed
later would use variables that are gone.) `Spec` is the code as it is, whose pool
may hand out a group that somebody still refers to; `FreeSpec` adds `GroupsFree`,
that it does not (section 6 says when that is assured).

### ThreadPoolTasks
The tasks that one thread executes: children of `parallel`, the `SyncTask`s of
`parallel_reduce`, the `AsyncTask`s of `Enqueue`, and `KillThreads` and
`SpawnThreads`. Queues hold plain pointers, so the question is how long a task
lives. `Script` is what the main thread does.

In both modules sleeping is left out: a worker's sleep is a wait of at most 30 ms,
so that it always looks at its queues again whether or not it was signalled.

### AttackMotion
A unit type with `attackCannotMove` brakes, stands still through windup, salvo
and recovery, and is free again. `motion` is the record of the `attackMotion...`
fields, `weapon` the salvo and reload of every weapon. The code stores frame
numbers; the model stores the frames that are left (0 for "now or past"), which
makes the state space finite without a bound on time. A frame is a series of
steps: `CUnit::Update`, then weapon by weapon the update, the firing and the
salvo (`step`, `current`). Orders, impulses, stuns, transporters and scripts
come between any two of them, in the middle of a weapon's update too, where
script callbacks and Lua can act.

| action | code |
|---|---|
| `FrameStep` (its disjuncts) | `CUnit::Update`, `CWeapon::Update`, `UpdateFire`, `UpdateSalvo` |
| `GiveMove` | a direct Move order (`CMobileCAI::GiveCommandReal`) |
| `ApplyImpulse`, `Paralyze` | `ApplyImpulse`, `SetStunned` |
| `AttachUnit`, `DetachUnit` | loading, which stops the engine, and unloading by an order (`DetachUnitCore`) |
| `ReleaseTransportees` | the transporter dies and lets go (`Unit.cpp:798-868`): a flying one orders its passenger to stay, and the passenger takes over its velocity |
| `PushUnit` | any other velocity set with no word to the attack: `SetUnitVelocity` of Lua, the collision with a skidding unit (`GroundMoveType.cpp:1771`), a frame of a skid |
| `EnableScriptMoveType`, `DisableScriptMoveType` | the functions of those names |
| `SetHoldFire`, `ChangeTarget` | the circumstances of the weapons |

Why a weapon cannot aim, pay for its shot or reach its target is a choice.
`attack` is a history of the first weapon's last attack; its field `pushed` is
the last velocity given by `PushUnit` or `ReleaseTransportees` during it, less the
frames of braking since. The speed is the one the code compares with
`attackStartSpeedThreshold`; collisions that shift a unit's position and leave its
speed alone are not modelled.

### SimObjectIDPool
The pool of unit ids as operators on a record of the two sets `freeIDs` and
`tempIDs`. A freed id waits in `tempIDs` until no id is free, or until
`RecycleID` takes it out. Which free id is handed out (the pool shuffles them,
and Lua may ask for one) is the caller's free choice.

### Aoe2UnitBridge
The bridge between the simulation and the AoE renderer, together with as much
of the unit and feature handlers as decides what it is told. `units` holds the
address (a page of the memory pool) and the definition of each living unit;
`features` the wreck's source unit, as `CFeature` stores it. `slots`,
`activeUnitIds`, `featureSlots`, `activeFeatureIds`, `queuedEvents` and
`processingEvents` are the members of those names; an inactive slot is one
outside the function's domain. `live` is the set of renderer instances.

All of this runs in the main thread: simulation frames and drawn frames
alternate. `stage` says which loop of a drawn frame is being run, and every
iteration is a step.

| action | code |
|---|---|
| `CreateUnit` | `LoadUnit`: page, id, `units[id]`, `RenderUnitCreated` |
| `DeleteUnit` | `CUnitHandler::DeleteUnit` with the destructor that leaves the wreck, and `GarbageCollectUnit` (`collect`) |
| `CreateFeature`, `DeleteFeature` | `CFeatureHandler::LoadFeature`, `UpdateFeature` of a feature to be deleted |
| `Enable`, `Disable`, `Prepare` | the three cases of `Prepare()` (and `Init` with the option set) |
| `ProcessEvent` | one iteration of the event loop: `MarkUnitDestroyed`, `AddUnit`, `AddFeature`, `RemoveFeature` |
| `Sweep` | the loop that removes marked slots |
| `Update`, `UpdateFeatures` | the two loops of `Update()` |

Abstractions of data: a unit definition is `mapped`, `native` (no usable
mapping) or `broken` (the renderer cannot create the instance, after the former
slot has been removed); a feature is `plain`, a `corpse`, or one that names a
resource of its own (`ownCorpse`). The order of active units and features at
`Enable` is free. Feature ids are not used again (their pool of 32000 has to
run out first), so a feature needs no token.

## 4. The runs

| run | instance | question |
|---|---|---|
| `udp_safety` | 4 chunks one way and only acknowledgements the other, 2 packets in flight to each end | is a chunk ever lost, do the resend lists and nak positions stay right? |
| `udp_limits` | packets of one chunk, bandwidth limit, nak windows of 1, a lossy server, `Close` and reconnect probes by the client | the same at the limits; does a probe disturb the connection it came from? |
| `udp_live` | 2 and 1 chunks, a client in the lossy mode with a resend quota of 1, a server in the ordinary mode, fair | does every chunk arrive, do the buffers drain? |
| `udp_messages` | messages of 3, 2 and 1 bytes, whose lengths are told by their first 3, 2 and 1 bytes, and an invalid one; chunks of 2 bytes, `Close` | does each direction implement `ReliableChannel`? |
| `udp_nak_asserts` | 3 chunks one way, 1 the other, 2 packets in flight | do the asserts on the nak positions hold? No (section 5) |
| `server` | 2 players, the first may come twice; with and without `reconnectTimeout` and an early return | is every client sent the whole history once, does anybody wait for one who left, is a stale checksum taken for a new one? |
| `threads_loops` | 2 workers and the caller; a loop in a loop, a background loop that is waited for between other loops, one loop more than the pool has groups; a group is handed out when it is free (`GroupsFree`) | does the pool keep `ParallelFor`, does every call return? |
| `threads_reassigned` | the same with a pool of one group | is a group that is used again still complete? No (section 5) |
| `tasks` | 2 workers of each kind; every kind of task, threads killed with tasks in their queues, calls without threads, threads spawned again | does anybody touch a deleted task, does each worker execute its own tasks once, does the program end? |
| `bridge_slots` | 2 unit ids, 2 wrecks, 3 pages, 3 events per frame, pages used again or not | do slots, lists and instances stay consistent, is anything dead drawn, is every unit shown if an address is what the bridge takes it for? |
| `bridge_reuse` | as `bridge_slots` with pages used again and without features | is every unit shown with the memory pool as it is? No (section 5) |
| `attack` | a weapon of two shots and one of one shot, every interruption between any two steps of a frame | do shots and lock go together, what moves a locked unit, what is refunded, does a lock stay behind? |

**Bounds.** `MaxChunks` bounds the chunks an end creates, `NetCap` the packets
kept in flight. Three chunks are the least with a hole behind the front, four the
least for a nak list with a gap in it; two packets in flight are the least that
can be overtaken by another or meet a newer acknowledgement. That both ends
create chunks at once is covered by `udp_limits`, `udp_messages` and `udp_live`.
The windows of the code (8, 127, 255, 256) are constants, set to 1 or 2. Three
chunks exceed the limit of an unbroken report; the window of an offset and the limit
of a list of naks are not exceeded in any run, and what is cut off by them rests on
the theorem `NaksAreRight`, which holds for any values of the limits.
In `udp_messages` the server sends a single message of one byte: what order and
cutting do in that direction rests on the theorem `ToClientHolds`.

For the server `MaxBroadcasts` bounds what is broadcast in all; eight
are enough for both players to come, load, start, leave and, the first of them,
to come again and get frames. `SyncTimeout` of one frame is passed within them.
Two players are the least of whom one is waited for by the other's frames.

For the pool, two workers and the caller are the least with a worker that is
late while the other two go on; two iterations are the least that can be claimed
by different threads; a pool of two groups comes round in the program of three loops
of one type (after 256 uses in the code). `Script` of `tasks` follows
`SpringApp::Reload`: kill, use without threads, spawn, use.

For the bridge, `MaxEvents` bounds the events between two drawn frames and
`MaxPages` the memory pool; three events are a unit created, deleted and created
again in one frame, or a unit, its death and its wreck; two ids are the least
with a slot removed from the middle of a list. Unit ids are interchangeable
(symmetry). For the attack, times of one to three frames let each timer end before,
with and after the others; the second weapon has no windup and no delay, so that
its shots meet those of the first at once. A `MaxSpeed` of 1 makes a unit that needs
braking. `CannotMove = {TRUE}`: a unit type without the switch is never locked, and
fires like one whose move type stays scripted. `HoldOutOfArc = {TRUE}`: holding a
shot is one of the choices of a step then, so what a weapon without the switch does
is among its behaviours. The proofs are for all values of both.

The proofs have none of these bounds. `CHECK_DEADLOCK` is off
where both ends may have created all their chunks and be closed, and where the
server has ended because nobody is left.

**Fairness.** UDP (`FairSpec` of `UDPChunks`): `CGame::Update` and the server's
loop call `Update` again and again and time passes, hence weak fairness of the
final flush with each of the timers expired; the network delivers a chunk or an
acknowledgement that is transmitted for ever, hence strong fairness of
receiving it. Nothing is assumed about when `Flush(true)`, `Close` or a
reconnect is called, and no fairness for any order of packets.

Thread pool: the operating system runs every thread, hence weak fairness of each
thread's next step; nothing is assumed of signals, or of who wins a race. (Where the
next loop would get a group that is not free, `FairSpec` lets it start later.) Attack:
the simulation runs on (weak fairness of `FrameStep`); no event has to happen.
`AttemptsEnd` assumes that from some moment on the weapons are updated and nobody
sets the unit's velocity any more (`PushesEnd`): a unit that a script pushes in every
frame goes on braking for its attack.
The server has no liveness property: what it waits for (players, their answers)
may never come.

`EveryChunkArrives` is conditional on the receiver having created a chunk itself.
Without it the property is false: an end that never sends anything discards every
packet after the first of a peer that has heard nothing but `lastContinuous = -1`
from it. Real ends always send something (the client its `NETMSG_ATTEMPTCONNECT`,
the server its reply), which is why this is not seen in play.

## 5. What the runs found

* `NakAsserts` (`UDPConnection.cpp:556`). `unAckDiff` is
  `unackedChunks[0] - nextCont` and is added to the offset of a nak; the
  position in the array is the offset minus it. As long as the nak comes with
  the newest acknowledgement the difference is 0 (that is what
  `CurrentNaksAreRight` checks). A nak that was overtaken by a newer
  acknowledgement makes the asserts in lines 564 and 584 fail; in a release
  build, wrong chunks are requested. Delivery is only delayed: `udp_live` passes.
* `ReassignedGroupIsComplete` (`ThreadPool.h:677`). `WaitForFinished` leaves a
  group to which a worker still holds a pointer. If the pool comes round to it (256
  uses of one function type while that worker is not scheduled), the worker finds
  it between the reset of `ctr` and the assignment of `func`, takes index 0 of
  the new loop and runs the old function with it; the new call returns without
  that index. As long as the group handed out is free (`threads_loops`, and in general
  `ThreadPoolProofs`) all is well.
* `EveryUnitShown` (`Aoe2UnitGameplayRenderBridge.cpp:452`). The bridge takes
  the pair of id and address for the identity of a unit; the comment in line 58
  calls the address a "lifetime token". Both are used again: the memory pool
  hands out the page freed last, and a script that replaces a unit under the
  same id (`Spring.DestroyUnit` with `cleanupImmediately`, then
  `Spring.CreateUnit` with that id) gives the new unit the same pair. With the
  events of both in one batch the new unit loses its slot in the sweep and is
  drawn by its native model until the bridge is switched off and on.
  `ShownIfPagesStay` is the same under the assumption the comment makes, that a
  page is never used again: it holds.

Met while modelling, and kept out of the properties by a constant or an abstraction:

* A kicked player (or one who quit) who starts a client again within
  `DISCONNECTION_DELAY` is bound to the link that is being closed
  (`GameServer.cpp:3061-3075`). He becomes `CONNECTED` without the loopback
  connection, so his packets are dropped (2043), and is sent neither game data nor
  what he missed. `EarlyReturn` is this case; `StreamIsHistory` and the last part of
  `LinkMeansPresent` are stated without it, the other properties with it.
* A copy of the link data counts the bandwidth of a client and is not written back
  (`GameServer.cpp:2061`); the count of rejections is inserted under a key that is
  there already and never grows (1925). Neither limit is modelled.
* What a shot does may reach its shooter (an explosion with an impulse) before
  `Weapon.cpp:717` notes the release: the attack is then cancelled with a refund
  although a shot is out, against section 17 of
  `doc/todo/attackCannotMove`'s design document. `HitsItself = {TRUE}` is this
  case, and violates `ReloadPaysForShots`.
* `Weapon.cpp:638`: a weapon other than the first whose first release fails cancels the
  motion of the first and keeps its own salvo and reload, against the comment
  in lines 636-637. `FailFirstRelease` does as the code does.
* A velocity can be set under a locked unit without a word to its attack. The death
  of a transporter with `releaseHeld` clears the passenger's transporter, cancels
  nothing unless it can fly or the passenger is paralyzed, and gives the passenger
  its own velocity (`Unit.cpp:861`): a passenger of a fire platform that has
  committed its attack in this frame stays locked and moves. `SetUnitVelocity`
  (`LuaSyncedCtrl.cpp:778`) and the collision with a skidding unit
  (`GroundMoveType.cpp:1771`) do the same. The design document forbids
  translation in `AttackWindup` (line 155) and wants such displacements to interrupt
  the attack (lines 285-295). `PushUnit` and `ReleaseTransportees` do as the code
  does; `StandsWhileAttacking` therefore claims no standstill, only that a locked
  unit is never faster than what braking has left of such a push (`attack.pushed`,
  0 without one).
* A unit with `attackCannotMove` on a fire platform has its windup cancelled every frame
  (`Unit.cpp:704-705`) and never shoots; `AttemptsEnd` still holds, as it gives up.

## 6. The proofs

`UDPChunksProofs` proves for all values of the constants, from the assumptions
`EndAssumption`, `SetAssumption` and `BoundAssumption` of `UDPChunks`:

* `TypeCorrect`: `Spec => []TypeOK`;
* `NoChunkIsLost`: `Spec => []NoChunkLost`;
* `BuffersContiguous`: `Spec => []Contiguous`;
* `OnlyUnackedResent` (`ResendsOnlyUnacked`), `ProbesAreHarmless` (`ProbeIsHarmless`, an
  action property) and `NaksAreRight` (`CurrentNaksAreRight`).

`NoChunkLost` is not inductive: an acknowledgement in flight pops every chunk up
to its number, so the state before must say that no packet acknowledges more
than its sender has consumed. The inductive invariant `IInv` is `TypeOK` and

* `Runs`: `unackedChunks` and `newChunks` are consecutive runs of numbers, from
  `Oldest(e)` up to `created[e]`, so that popping by number is popping a front;
* `AckedConsumed`: everything before `Oldest(e)` was consumed by the peer;
* `AcksTruthful`: no packet in flight acknowledges more than its sender has
  consumed (a probe says -1);
* `WaitingAhead`: what waits out of order lies after `lastInOrder`, so that
  consuming it only moves forward.

The argument: a flush appends a run and stamps its packets with the sender's
current `lastInOrder` (`FlushRuns`, `FlushType`); a packet received moves
`Oldest` at most to the acknowledged number plus one (`AcksRuns`) and moves the
receiver's `lastInOrder` only up (`ChunksAhead`), which keeps older
acknowledgements truthful; nothing else touches this state (`StepCases`).

What is resent depends on nak lists that were made in a state long past.
`TravelInv`, on top of `IInv`, says what stays true of a packet however long it
travels: a chunk that its nak list passes over below one it names is held by its
sender, who never lets go of a chunk (`NakListsTruthful`, `HoldsOn`); a probe was
sent to an end that has consumed its first chunk (`ProbesLate`); and the next chunk
in order never waits, as `ProcessRawPacket` consumes all it can
(`NextNeverWaits`). From these, what is left after `AckChunks` is a run that begins
with the first chunk the other end misses (`LeftIsRun`), so that in a nak list that
comes with the newest acknowledgement, position and offset are the same number.

`OnlyCreatedChunks` says of packets, of what waits and of what was consumed that it
never runs ahead of `created`; the messages need it, since a chunk number is an index
into the sender's bytes.

`UDPConnectionProofs`, for any messages, scripts and size of chunks, and everything
`UDPChunks` leaves open (`MessageAssumption` besides those above: a valid message is
not shorter than the bytes that tell its length):

* `ChunkLayer`: `MsgSpec => Spec`, so that every theorem above holds with messages;
* `MsgTypeCorrect` (`MsgTypeOK`), `FragmentIsNext` (`FragmentIsNextMessage`);
* `ToServerHolds` and `ToClientHolds` (`ToServerReliable`, `ToClientReliable`): each
  direction implements `ReliableChannel`.

The invariant `MsgInv`, on top of `IInv` and `ChunksExist`, is about one byte stream
for each direction, the bytes of the valid messages handed over so far. `StreamKept`:
the chunks made so far, followed by the messages not cut yet, are that stream.
`PlaceKept`: the bytes of the chunks consumed so far are the messages in the queue
followed by the fragment buffer; the messages in the queue are the first of the
stream, and the buffer is a proper beginning of the next one (`Parsed`). Then a chunk
more, wherever it was cut, completes exactly the messages that end in it
(`ParseNext`, `ConsumeAll`), as `Reassembles` shows of the loop over the bytes: what
follows the last whole message is too short to be taken for a message, and the loop
never meets an unknown id. A step of the connection hands over one message, moves
`msgQueue` on along the stream, or leaves the channel alone (`StreamStep`).

The messages of a flush are joined, cut and reassembled by recursive functions and by
`FlattenSeq`, over sequences of any length. The induction theorems of the library take
an operator, which the provers here cannot instantiate; the lemmas at the beginning of the
module therefore state induction for sets (`Induction`) and recursion for functions
(`Recursion`), from the theorem about well-founded relations that speaks of subsets.
`FlatUnfold` derives from them how `FlattenSeq` unfolds, and `Pieces`, that pieces
cut from a sequence flatten to it again.

`AttackMotionProofs`, for any number of weapons and any salvos and times
(`AttackMotionAssumption`):

* `TypeCorrect`, `ShotsAndLockGoTogether` (`LockedWhileShotsPend`), `AttackersStand`
  (`StandsWhileAttacking`), and `ReloadIsThePrice` (`ReloadPaysForShots`, if
  `HitsItself` is not `TRUE`).

The inductive invariant adds to the types how the fields of the motion belong
together (`PhaseAgrees`: started, released, final), what is given back as long as
shots are owed (`ShotsAgree`: the reload before the attack was over), that the
history notes a release exactly when the unit does (`ReleaseNoted`), and that who
could be locked at the start was not taken over by a script since, and is no faster
than what it was pushed to (`Stands`; `pushed` falls by one where the brake takes one
from the speed, and a new attack begins at rest). Every
interruption is one lemma, `CancelAgrees`; each step of a weapon is split into what
it does to the first weapon and to the others.

`GameServerProofs`, for any number of players, client programs, frames and
broadcasts (`GameServerAssumption`):

* `LinksAreRight` (`LinkMeansPresent`), inductive with the types of the session;
* `NoStaleResponse` (`ResponsesBelong`): over the first, checksums are a
  function into the outstanding frames and empty for whoever is absent, so that
  a new link starts without any although `Connected` clears nothing;
* `EverybodyHearsAll` (`StreamIsHistory`): the strengthening `CacheIsHistory` says
  that the packet cache is the history as long as the game has not started or
  reconnection is possible, and that the listener accepts attempts in no other
  state; what a client is sent then follows by associativity of concatenation;
* `PresenceIsAnnounced` (`PresenceAnnounced`): what was broadcast last of a player
  tells whether he plays. The lemmas say what one more packet does to what is
  announced of a player, and each step appends at most a few;
* `NobodyWaitsForTheGone` (`FramesAwaitThePresent`): `FrameInv` adds that nothing is
  outstanding before the game has started; the number of frames in a history is
  the cardinality of the set of their places, which broadcasting extends at the end;
* `TypeCorrect` (`TypeOK`), last, because what a client is sent needs the stream.

`ThreadPoolProofs`, for any number of workers, any sizes of loops and pools and any
program of thread 0 (`ThreadPoolAssumption`):

* `TypeCorrect` (`TypeOK`), `RemainingCounts` (`RemainingIsRight`) and
  `PromiseKept` (`LoopSpec`, the refinement of `ParallelFor`), of `FreeSpec`;
* `FirstRoundIsFree`: as long as no pool has come round (`FirstRound`), `Spec`
  implies `FreeSpec`; hence `FirstRoundKeepsPromise`: up to 256 uses of a function
  type the promise is kept with no assumption at all.

`GroupsFree` is what `GetTaskGroup` takes for granted and does not check: the group
whose turn it is in the pool is held by nobody, in no frame of any thread and in
no queue. `WaitForFinished` does not see to it, and without it the properties fail:
`threads_reassigned` needs no more than a pool that comes round while one worker is
late. The proofs show that this is the only thing that can go wrong.

The invariant `LInv` is about frames by their places, thread and height, since a
push or pop moves no frame but one (`Moved`). `SetUpAlone`: nobody else reaches a
group between the two halves of `Enqueue`; `OneOwner`: a call under way is waited
for by one frame, or held; `CallsApart`: no two groups have the same call, and
none has the call of a frame that still enters a group; `CountersRight` and
`ClaimsRight`: `ctr` separates the indices begun from those that were not, one frame
works on each index that is claimed and not done, and `remaining` counts what is
missing; `HistoryRight`: what was begun was called, what has ended was begun, and a
call that returned has ended. Steps are of four kinds, each with a lemma: a frame
moves that works on nothing (`FramesMove`), goes on with its group (`FrameGoesOn`),
makes a call (`CallMade`) or begins a body (`BodyBegins`); the body of a `nest` does
the last two in one step. The refinement adds that each step is one of
`ParallelFor` or leaves its variables alone, `Finish` returning only when
`remaining = 0` means that no item is missing.

For the first round (`ReachedWereHandedOut`): whatever group somebody refers to
has a place in its pool below `pos`, and the place that is handed out is `pos`.

`ThreadPoolTasksProofs`, for any number of workers and any script of thread 0
(`ThreadPoolTasksAssumption`):

* `TypeCorrect`, `NobodyUsesTheDead` (`NoUseAfterDelete`), `EachOnce`
  (`OncePerWorker`) and `KilledCleanly` (`CleanlyKilled`).

None of these is inductive. The invariant `Inv` says that a task's record is one of
seven states (not made, fresh, begun, counted, unflagged, left, left and deleted);
that a thread holds a task exactly while it executes it and in the state its place
says (`HeldRight`); that what a queue holds is fresh, there once, and in nobody's
hands (`QueuesRight`), so that no thread reaches a task another one is done with;
that tasks were made by earlier steps of the script (`MadeRight`), children only
live during their `parallel` (`ChildrenRight`), a begun task has a holder
(`BegunRight`), and a thread that was joined has left its loop (`MainRight`). The
deletion by `parallel` is the step that needs most of it: `AllowDelete` of all children
must mean that each is `Left(FALSE)`, and `execLoopDone` is what tells this
state from `Unflagged`.

`Aoe2UnitBridgeProofs`, for any sets of units and features (`SetAssumption`):

* `TypeCorrect` (`TypeOK`), `ListsAgree` (`ActiveListsAgree`) and
  `InstancesHaveOneOwner` (`InstancesOwned`).

The invariant `Inv` is about two tables, one of units and one of features, each
with the list of its active ids. `Placed` says that list and `activeIndex` are
inverse to each other, which is what makes the swap with the last entry right when a
slot is removed (`RemovedTable`) and when one is added at the end (`AddedTable`);
`Owned` says that the renderer's instances are exactly those in the two tables, no
two slots sharing one. The lemmas about tables are stated for any kind of
slot and used for both.

`Aoe2UnitBridgeEventProofs` goes on from there with the events:

* `NoGhosts` (`NoGhost`), `CorpsesShown` (`EveryCorpseShown`) and
  `UnitsShownIfPagesStay` (`ShownIfPagesStay`).

These speak of the moment when `Update` draws, so the invariant `All` must say for
every other moment what is still on its way. `EndsComing`: a slot of what is gone
is marked, or the event that ends it is pending (in either queue); `MarksAhead`: a
marked slot lies at or behind the cursor of the sweep, so that the sweep meets it
although removing moves slots; `CorpsesComing` and `UnitsComing`: what has no slot
yet has its creation pending; `Modes`: outside the event loop nothing is left to
process. `UnitsComing` holds only if an event about the dead is never taken for one
about the living. That is `DeadIsDead`: (id, address) of a pending end
names nobody. It is an invariant under `reusePages = FALSE` alone, and the run
`bridge_reuse` shows how it fails otherwise.

Only model-checked: all liveness (`EveryChunkArrives`, `UnackedDrains`, and those of
the thread pool and of the attack), which is out of the proof system's reach with its
fairness and `ENABLED`, and the three statements that the code violates (section 5).

## 7. Not modelled

In the UDP connection: the consumer side of the queue (`Peek`, `GetData`,
`DeleteBufferPacketAt`, `numPings`), time-outs (`CheckTimeout`, `NeedsReconnect`),
the byte layout and checksum of packets, traffic statistics and the network-test
emulation of loss and delay (the model's network does it). In the bridge: mappings
and appearances beyond "usable or not", which of the two models is drawn
(`SetNativeModelVisible`, `ReplacesNativeModel`), positions and animations,
diagnostics. In the server: a local client, demos, spectators who join, passwords
and versions, teams and skirmish AIs, start positions, chat, commands that change no
session, bandwidth limits, the comparison of checksums, the pace of frames,
`LagProtection` and speed, and packets behind a `NETMSG_QUIT`: the loop of
`ServerReadNet` still processes what its copy of the link holds
(`GameServer.cpp:2077-2104`), but a client sends nothing after it (`~CNetProtocol`,
`NetProtocol.cpp:42`, closes at once). In the thread pool: signals, statistics,
pinning, external jobs, group classes nothing uses, and the early exit of
`WaitForFinished` for a thread that is being killed (`ThreadPool.cpp:310`, 318),
which would leave a loop before it is complete. In the attack: stockpiled
ammunition, `forceUseWeapons`, the state of a skid (what it does to the speed is
`PushUnit`), the weapons that override `UpdateSalvo` (beams), and the Move order
that waits for the end of the lock (`MobileCAI.cpp:416`).

`UDPListener` and the local connections are within reach and left for later. The
other components that `PROJECT.json` lists as `not_modelled` carry the reason each:
floating-point geometry, output, bindings or third-party code, where explicit-state
checking has nothing to say.
