# A TLA+ model of the game server

The repository is a server-authoritative MMORPG server in C++: an IOCP network
layer in coroutines, a 30 Hz tick that simulates players, monsters and combat in
parallel over a sector grid, and the view lists and snapshots that tell each
client what is around it. This directory holds TLA+ modules that model its core,
TLC configurations that check them on small instances, and proofs, checked by
TLAPS, that hold for every value of the constants.

To check a run: `tlc -config X.cfg M`, for the pairs in the table of runs; to
check a proof: `tlapm M.tla`. `PROJECT.json` maps every definition that models
code to the lines it models.

## 1. Inventory

### Threads and how they interact

| Thread | Runs | Touches |
|---|---|---|
| IOCP dispatchers (several) | coroutines `AcceptLoop`, `HandleSession` with the packet handlers, `SendWorker` | slots, the grid (login, disconnection), input queues, `m_incoming` hits, send buffers |
| tick thread | `GameTickLoop::Run`: simulate, flush, AI, combat, respawn, flush, views, snapshots | everything in the world |
| tick workers | their share of a `RunParallel` call | the sectors or slots of their partition |
| main | preparations, joins, then the destruction of the globals | the completion port, all threads |
| console handler (one thread per Ctrl-C), statistics | shutdown and output | the quit flag, quit packets, metrics |

I/O threads and the tick meet in shared structures with a lock or an atomic
each (a sector, a queue, a slot). No lock spans two structures, so the
interesting states lie between two critical sections.

### Components

**Sessions and slots** (`server_main.cpp`, `world_object.h`). State: the array
of slots, and per session its state (Accepted, Playing, Closing), position, hit
points, owner sector. Operations: `Acquire`, `HandleLogin`, cleanup at the end
of `HandleSession`, `Release`. Hard: every step of these runs against a tick in
progress, and a slot id outlives the session it named. Correct if an id is in
the grid exactly while its session is in the world, in exactly one sector.

**Grid and commands** (`world_grid.h`, `world_command.h`,
`world_command_apply.h`). State: the ids per sector; one outbox of commands per
partition. Operations: `Add`, `Remove`, `Move`, `FlushWorldCommands` and its
resolvers. Hard: position changes at once, membership only at the flush, and a
command may find its object dead, gone or replaced. Correct if membership is
what the last flush made of the positions, and no object is handed out twice in
one phase.

**Tick loop and worker pool** (`game_tick.h`, `tick_worker_pool.h`). State: the
phase, wave lists, the pool's task, generation and count. Hard: the barrier
between two waves is all the synchronisation the lock-free phases have. Correct
if a call returns after every share was executed exactly once, always returns,
and the pool can be destroyed.

**Sector geometry** (`world_grid.h`, `protocol.h`). Pure. Correct if the 3x3
query covers the view range and two sectors of one wave cannot see each other.

**Receive path** (`packet_buffer.h`, `HandleSession`). State: a linear buffer
and two cursors. Correct if the handlers get exactly the packets of the byte
stream, at once, and the buffer never fills up.

**Send path** (`world_object.h`, `SendWorker`). State: pending and active buffer,
the flag that says somebody is sending. Hard: many producers, one flag, a
failure or a close at any time. Correct if one sender exists at a time, its
buffer stays put during a send, nothing accepted is forgotten and the order of
the stream is that of the lock.

**Input queue** (`world_object.h`, `game_tick.h`). State: a bounded queue, the
last sequence number queued, the last processed. Correct if inputs are applied
once and in order, and the acknowledgement sent with a position matches it.

**View lists** (`game_tick.h`). State: the set of ids a client was told of.
Hard: computed by the tick and by the login, looked up twice, sent outside the
lock, keyed by slot. Correct if the client shows what is in the list, and the
list follows the world.

**Monster AI** (`monster_ai.h`). State: Idle, Chase, Attack or Return, a target
slot, timers, a path. Hard: the target is looked up three times in one update while
sessions come and go, and a path outlives the goal it was searched for. Correct if
it is bounded how far a monster can be led, if it comes home, announces its
blows and starts every fight whole.

**Skills and combat** (`combat.h`, `combat_tick.h`, `HandleUseSkill`). State:
cooldowns, mana, two queues of hits, projectiles. Hard: casting spans four
critical sections while the tick goes on. Correct if every accepted cast is
executed once and on time, casts keep their distance, and a death is one death.

**Snapshots** (`game_tick.h`, `world_command.h`). State: the set of those who have
moved, the tick number. Hard: three intervals (AI, near snapshots, far snapshots)
and a set that is cleared in every tick. Correct if an observer follows who moves.

**Movement and terrain** (`movement.h`, `nav_grid.h`). Pure, in integers. Hard:
rests, diagonals, slides, the edge of the world. Correct if no step goes too far,
into a wall or below the ground, whatever the client sends.

**Path finding** (`pathfinding.h`). State: one static scratch buffer, cleared by
stamps. Hard: several workers use it at once. Correct if a search ends and finds
a shortest way when there is one in its window.

**Shutdown** (`server_main.cpp`). State: the quit flag, the packets in the
completion port. Hard: Ctrl-C at any time, threads that wait without a timeout.
Correct if every thread ends.

**Others**: chat, teleport (debug builds), metrics, fixed-point trigonometry, CSV
tables, the stdexec dependency. See section 8.

`PROJECT.json` lists the hazards of this code line by line.

## 2. Modules and plan

| Module | Models | State and actions |
|---|---|---|
| `World` (`MCWorld`) | sessions, slots, NPCs, grid, commands, phases, waves | one action per critical section: `Accept`, `LoginPlaying`, `LoginAdd`, `LoginOwn`, `Disconnect`, `CleanupGrid`, `Release`; `TickStart`, `RunWave`, `CopyObjects`, `Simulate*`, `Monster*`, `Strike`, `Respawn*`, the flush |
| `TickWorkerPool` | the pool; implements `ForkJoin` | program counters of caller and helpers; condition waits are sets of sleepers |
| `ServerShutdown`, on top of it | main, Ctrl-C, dispatchers, tick and statistics thread around the pool | where each thread is, the flag, the quit packets |
| `SendPipeline` | the send path; implements `ByteStream` | producers, coroutines, two buffers |
| `PacketBuffer` | the receive path; implements `PacketStream` | the byte array, the cursors, the loop |
| `InputQueue` | input queue and acknowledgement | the queue, the simulated prefix, the last self state shown |
| `Snapshots`, on top of it | whole ticks: the moved set, near and far snapshots | the tick number, one object in view, the age of what is shown of it |
| `ViewSync` | view lists and a client | the others' sessions, two updaters, the view, the avatars shown |
| `MonsterAi` (`MCMonsterAi`) | the mind of one monster, on a graph of places | the monster's fields, the sessions, tick phases |
| `SectorGeometry` | the grid's arithmetic and the view range, and what queries and waves need of them | operators |
| `Terrain` | where one may stand, heights, cells | operators over the set of open cells |
| `Movement` | `SanitizeInput`, `SimulateStep`, `MoveToward` | operators on a move state |
| `PathFinding` | `HasLineOfSight` and `FindPath`, one search at a time | operators; the heap, the stamps and the costs are a record, one turn of the loop a function of it |
| `Pursuit` | a player and the monster that hunts it, in centimetres | both bodies, the client's inputs, path and deadlines of the monster |
| `Duel` (`MCDuel`), on top of it | the player's fireball: launch, flight, wall, body, time | the pending hit, the bolt, what the grid knows, simulation and AI before combat in each tick |
| `PathSearch` (`MCPathSearch`) | several searches that share the scratch | the scratch, and per search its heap and its place in the loop |
| `Combat` (`MCCombat`) | casting, hits, projectiles, deaths | the handler step by step, the tick's combat phase |
| `ForkJoin`, `ByteStream`, `PacketStream` | what the pool, the send path and the receive path promise | a few lines each |

The modules are cut where the code is: `World` treats a `RunParallel` as a
barrier, which `TickWorkerPool` establishes; it lets different sectors of a wave
run together, which `SectorGeometry` justifies; `ViewSync` sees the grid as "in
or out", which is `World`'s concern; the handlers of `Combat` and `InputQueue`
get the packets that `PacketBuffer` delivers, and what `ViewSync` queues arrives
in order by `SendPipeline`. `MonsterAi` decides what a monster does with steps on
a graph of places, `Pursuit` how it takes them in centimetres; `Combat` decides which casts become bolts and blows,
`Duel` where a bolt goes.

The order in which the work was planned and done: World, the three concurrent
building blocks (pool, send path, receive path) with their abstract
specifications, geometry, views, AI, combat, inputs; then snapshots, terrain,
movement, path finding and the hunt that composes them, the searches in
parallel, the shutdown, the flight of a fireball; and the proofs, component by
component, last those of the NPCs in `World`, of `Combat`, `ViewSync`, `Snapshots`, of the
arithmetic of `Movement`, of path finding, the hunt and the bolt, and of the pool in the server. What the plan has
left is in section 9.

## 3. Correspondence to the code, and abstractions

*World.* A position is a sector; a move within a sector changes nothing here. A
session is stepped by the tick only once its login has finished: before that it
has no input, and it stands on the ground. `BuildWaveLists` is one step. The
order of the sectors in a wave list is arbitrary but the strides have their
exact sizes. `Accept` takes any free slot, because a lower one may be freed
behind the scan. The two sector locks of `grid.Move` are one step: no property
distinguishes the moment between them. Damage either kills or does not. AI runs
in any tick and respawn deadlines come at any time. A respawn of a player whose
login is still in progress does not happen: it would take a login of 150 ticks.
`HandleTeleport` (debug builds) is left out, and so are the view and snapshot
phases, which do not write. `tainted` is a history variable: the ids that left
or died while the tick had them in its hands. `MaxHits` bounds the damage
commands in an outbox.

*TickWorkerPool.* A `wait` is two steps (test, sleep), the notification is a
step outside the mutex, and sleepers may wake without reason. The destructor
starts only when no call runs, since `main` joins the tick thread first. The
pool without helpers (`tick_worker_pool.h:65`) is left out: `main` always gives
it at least one (`server_main.cpp:703`).

*ServerShutdown.* The steps of the pool are those of `TickWorkerPool`: calls are
made by the tick thread within a tick, the destructor runs when `main` has
returned. The console handlers are interchangeable, so the packets they have yet
to post are one number. Dispatchers do other work between two packets; the
completion port hands out in order, so that work is left out. `EnoughPackets`
assumes that 64 packets are enough, which is true below 98 cores. What the
model shows without being asked: if Ctrl-C comes before `server_main.cpp:673` has
made the port, the packets are lost, the flag is cleared, the tick thread ends
at once, and the dispatchers, and with them the server, stay until Ctrl-C is
pressed again; hence `heard` in `ServerStops`.

*SendPipeline.* A message is a packet or a batch, numbered in the order in which
the lock was taken. The check for Closing comes before the lock, as a step. A
failed send delivers nothing. The socket handle of a live session is valid.

*PacketBuffer.* Any bytes may be sent and any number may arrive at once.
`Compact` at the top of the loop does nothing after the one at its end, so the
two are one. A packet is refused when its type is unknown or its handler returns
false.

*InputQueue.* A position is the set of inputs simulated into it. Gravity steps
without input, respawn and teleport are left out. A client may use any numbers
in any order, up to `MaxSeq`.

*Snapshots.* The client's picture of an object is its age: for how many ticks it
has not been the object's position. A player moves in a tick if it has inputs, a
monster may in every `AI_TICK_INTERVAL`-th. That the object stays in the view list
and at the same distance is assumed.

*SectorGeometry.* `QueryCovers`, `WaveIsBlind` and `IndexIsSound` say of two positions
what the queries and the waves need; they are proved for all of them. `Pursuit` checks
the first for its monster and its player (`QueryCoversView`).

*Terrain, Movement, PathFinding.* Functions, in the arithmetic of the code:
centimetres, millimetre rests, division towards zero, shifts that round down.
The walkable bitmap is the set of open cells. Orientation is left out. The
priority queue of `FindPath` is the set of its entries, of which the least is
taken; stamps and costs are functions on the cells that have been touched. The limit of the
loop is kept (`Turns`): 8191 looks at the top, cut down to what is enough
where few cells are open, so that TLC need not count them all. `MAX_STEP`
is no constant of the code: it is the furthest that the arithmetic of a step can
carry (32 cm at a sprint), and a property is about it. The integer root is a
recursive function, since it is proved about.

*Pursuit.* A step is the simulation part of a tick or the AI phase after every
third. The client's inputs are scripts, up to four times too fast, with and
without jumps. `SearchIsRight` compares each search with a reference definition
(all least costs by relaxation over the open cells).

*Duel.* A tick is `World` (simulation, and the AI in every third tick), then one of
the outcomes of the combat phase: `Calm`, `Expire`, `HitWall`, `HitTarget`, `Fly`.
The grid (`listed`) learns of the monster's last step only with the flush after
combat, so the query for a bolt may use an old sector. There is one cast, of
which the table entries of the yaw are constants; the monster is one that
survives it. `stood` is a history variable.

*PathSearch.* What a cell of the scratch means depends on the window of the
search, so terrain is a parameter of each search. A step is one pass of an inner
loop; the real interleavings are finer. It is used to refute a comment, for
which it is enough that each of its behaviours is one of the program's.

*ViewSync.* `QueryNear` of all nine sectors is one step, and so are all the
lookups of one pass. Distance is in or out of view range; with more candidates
than `Cap`, any `Cap` of them are the nearest. An NPC is, for a client, a player
who never leaves. `raced` is a history variable: a view was computed while an
older batch had not been queued.

*MonsterAi.* Time is counted in AI intervals, and the ground is a graph of places one
step of the monster apart. A `scene` gives the distance of two places as the crow flies
(what ranges and the leash are compared with), the length of the shortest way between
them, who sees what, the steps that a wall rounds to nothing (`snags`), and from where to
where `FindPath` misses the shortest way (`unfound`). `StepToward` is `StepTowardGoal` on
it: straight on to what is in sight (`Straight`); else along the path that is left, be it
for another goal, until it ends or its deadline comes (`Follow`); else a new search
(`Search`). Of a path the model keeps where it ends. The leash takes path and deadline
away (`TurnBack`); a target that is lost or whose slot is empty does not (`Lose`,
`GiveUp`), and then the way home begins with the rest of the old path. `GoHome` looks at
no leash. The update of a monster is three steps (validate, act, strike), because it
looks its target up three times. Players move only in the simulate phase. A monster
respawns when its timers have run out: 300 ticks are longer than any windup, cooldown or
path. What is assumed of a scene (`SceneAssumption`): one step changes distance and way by
one at most, and a step straight home from where home is in sight leads no further away.

*Combat.* Which monsters a cone or a bolt meets, and whether there is a wall, is
any choice. A session has the one skill of its class: casting another changes
nothing. The handlers of one session run one after the other.
`CollectIncoming` is one step, under the lock; `TakeDueHits` then goes through the
list hit by hit (`scan`). Mana never comes back while alive: nothing calls `RegenMp`.

## 4. Runs

| Run | What it shows | Bounds, and why they are enough |
|---|---|---|
| `world_npc` | membership of players and NPCs, ownership and one step per phase while they move, strike, die, respawn, log in and leave; ticks complete, NPCs return | one session, one NPC, three sectors, two partitions, two damage commands per outbox: enough for two blows in one flush and a death before a migration. A second session meets the first only over its slot, and all that this run checks of safety is proved for any number |
| `world_ghost` | refutes a comment (section 7) | one session, one slot, three sectors in a row |
| `send_pipeline` | one sender, no lost wake-up, refinement, draining | three producers, two coroutine slots (a second would betray two senders), five messages |
| `shutdown` | live task, refinement of fork and join (which contains the barrier), return of every call; after Ctrl-C every thread ends and the pool is destroyed | three helpers, two calls: a helper can be late by a whole call; two dispatchers with just enough packets, Ctrl-C up to twice, at any time |
| `packet_buffer` | framing, refinement | 5-byte buffer, 3-byte packets, 7 bytes of any of four sizes: fragments wrap past the end and sizes lie below and above the limits |
| `view_sync` | the client follows the view list, neighbours appear, leavers go | two slots, a list of one (the cap bites), two logins in any slots |
| `view_reuse` | refutes a comment (section 7) | one slot, two sessions |
| `geometry` | searches find shortest ways, steps are legal, the monster arrives, queries cover the view, a bolt does not fly through a monster that stands | a room of 4 by 3 cells with every set of walls in its middle columns, on the corner of four sectors and on that of the world; players that stand, sprint against the edge and jump, or run away when the monster has come. In the open rooms a fireball may be cast, in three directions and with each delay of two AI intervals, at the speed of `skills.csv`; it lives 9 ticks instead of its 91 (`ProjLife`), enough to cross the room and to run out |
| `path_race` | refutes a comment (section 7) | two searches, five cells; one search alone ends |
| `monster_ai` | how far it can be led, announcements, recovery, return | five scenes, with a leash of 1, a sight of 2, paths of 2 steps, windup 1, cooldown 2: an open field of 4 places with two players at once, the monster passive or aggressive; a winding trail of 5, aggressive; a wall with a way of 8 around it, passive; and the trail with a corner that holds the monster and searches that miss the way. On the last three two sessions use one slot in turn. Room to lure it past its leash, over a detour and on an old path: on the trail and around the wall it is seen further away than `Leash` + 1, and the bound of `Leashed` is reached |
| `combat` | casts, cooldown, projectiles, deaths | a mage and a warrior, one monster, one projectile slot, three ticks of combat: windup, flight, death and respawn fit, and two blows meet in a flush |
| `input_queue` | order, drops, acknowledgement, and how far behind an observer is | a queue of three, two inputs per tick, six numbers: an overflow during a simulation; all six ticks of the snapshot cycle, both kinds of object, near and far |

The type invariants of the modules with proofs, and `BufferPinned`, `Barrier`,
`Prompt`, `MovesLittle`, `WaveIsBlind`, `IndexIsSound` and `Committed`, are proved and
need no run of their own.

Every property of a passing run has a mutant in `PROJECT.json`: a definition of
the model changed as a plausible bug would change the code, which violates the
property. The mutated definitions stand in the modules, marked "Mistake".

Deadlock is checked except where the system may stop: a closed session, a
server that has ended, searches that are over, a hunt at its end, the bounded
ticks of `Combat`.

## 5. Fairness

* `World`: weak fairness of the tick (its thread is never blocked for good; a
  worker has work or waits for the next wave); of `CleanupGrid` and `Release` (a
  coroutine that left its loop runs to its end); strong fairness of
  `RespawnNpc`, whose deadline is a number of ticks, and is passed once it has
  come. Clients owe nothing.
* `SendPipeline`: a spawned coroutine starts, a completed send resumes its
  coroutine, and every send completes: the peer reads or the connection dies.
  The code has no send timeout of its own, so `Drains` rests on the network.
* `ServerShutdown`: every thread that can run runs. Spurious wake-ups are allowed
  and not counted on; nobody has to press Ctrl-C.
* `ViewSync`: the tick's update is strongly fair, because the login holds the
  lock only for the time of a computation; the login's is weakly fair.
* `MonsterAi`: the AI part of the tick is weakly fair. Nobody owes the monster a player who
  keeps it awake: `ReturnsHome` ends where it falls asleep.
* `Snapshots`: the tick thread is weakly fair; that every second tick sends follows
  from the count of ticks. `Duel`: the tick loop goes on. `PathSearch`: each
  worker goes on.

`PacketBuffer` and `Combat` state only safety.

## 6. Proofs

| Module | Proved of the specification, for all constants |
|---|---|
| `WorldProofs` | `TypeOK`, `PlayerMembership`, `NpcMembership`, `OwnerAgrees`, `OncePerPhase` of `World` |
| `PursuitProofs` | `QueryCovers`, `WaveIsBlind`, `IndexIsSound` for all integer positions; that the real grid meets the assumptions of `World` (`GridFitsWorld`, `StepsStayNear`); that each step of a player and of a monster is legal, from every state, for every input, on every terrain; that what `FindPath` finds is a shortest way, and that it finds one; `StepIsLegal`, `QueryCoversView` and `SearchIsRight` of `Pursuit`; that `Duel` is a hunt, and `NoFlyThrough` |
| `CombatProofs` | `TypeOK`, `EachCastOnce`, `OnTime`, `OneDeathPerLife`, `BoltsEnd`, `Spaced` |
| `OutgoingProofs` | of `ViewSync`: `ShownIsInView`, `AddedOnce`; of `SendPipeline`: `TypeOK`, `OneSender`, `NoLostWakeup`, `BufferPinned`, and that the pipeline implements `ByteStream` |
| `MonsterAiProofs` | `TypeOK`, `Leashed`, `Committed`, `IdleIsWhole`, `GrudgeHasCause`, `Announced` |
| `InputQueueProofs` | `TypeOK`, `AckMatches`, `InOrder`, `RecentKept` of `InputQueue`; that the ticks of `Snapshots` are a behaviour of the queue, and its `FollowedClosely` |
| `TickWorkerPoolProofs` | `TypeOK`, `Barrier`, `TaskAlive`, and that the pool implements `ForkJoin`; that `ServerShutdown` uses the pool as it may be used, so that all of this holds in the server, and that nothing is destroyed while a thread can use it (`Orderly`) |
| `PacketBufferProofs` | `TypeOK`, `NeverFull`, `Prompt`, `MovesLittle`, and that the loop implements `PacketStream` |

So every invariant, action property and refinement that a passing run checks is
also proved for all constants; what is left to TLC alone is liveness.

The proofs rest on the named assumptions about the constants in each module. Those of the
hunt say that the tables are tables: `HeightAssumption`, the height map holds an integer
for every corner of a cell; `HuntAssumption`, terrains are finite sets of cells, monsters
and players start somewhere, the scripts are sequences of inputs, speeds are integers;
`DuelAssumption`, a cast has an aim and a delay. `SceneAssumption` is that of `MonsterAi`
(section 3). One theorem has a hypothesis more:

* `NeverFlownThrough` takes `BoltsMeet`: the square of the flight of a bolt in a tick is between
  1 and 3744, and a monster's step is at most a sector less the radius of a body. At the 1800 cm/s
  of `skills.csv` a bolt flies at most 59.4 cm in a tick (3528), in whatever direction; the
  fastest monster of `monsters.csv` makes 42 cm in its three ticks, of the 127 m allowed.
  The first bound is sharp: half a flight and the 33 cm of `Core` are the legs of a
  triangle whose hypotenuse must not exceed the 45 cm of `ACTOR_RADIUS`.

It holds in the run `geometry`.

`SearchIsRight`, and so `HuntSearchesRight`, says of every terrain that what a search finds is a
shortest way, and that where it finds none there is none, or its window is `Crowded`: more than
1023 of its 4096 cells are open. `FindPath` gives up after 8191 looks at its heap
(`pathfinding.h:165`), and each open cell can put 8 entries into it, one for each neighbour, so
1023 is the number up to which that is proved never to matter. On open ground a window
is crowded: what is proved there is that no wrong way is found, not that one is.

The arguments:

* *World, types*: `TypeOK` and `SlotsKnown`: a session that has been accepted, and so
  one that a worker holds or a slot names, knows its slot. Without it a recorded
  migration might name no id at all.
* *World, players*: while an id is not tainted, at most one thing in the tick stands
  for it: its entry in one copied list, one step in a worker's hands, or one recorded
  migration. `TokenInv` says so, and that the session is still there; `PlaceInv`
  says where the grid has the id: where the token's step begins, or else where
  the session stands, or nowhere when no session is in the world. A second token would need the
  id to be copied again, and `TokenInv` keeps the sectors still to be copied
  apart from the one where an id with a token is registered. `SlotInv` lets a slot and its session know
  each other, `OwnerInv` tells a session that closes from the world from one
  that closes before its login, `PhaseInv` says what exists in which phase. The
  proof has one step per action and, below it, one per conjunct the action can
  disturb.
* *World, NPCs*: the same, but a token is the NPC's entry in a copied list or a command
  that is pending, and the `GridAdd` of a respawn is one of them: `NpcInv` says that there
  is at most one, that an NPC which the AI phase has begun with is registered in no
  sector still to be copied, and where the grid has it, with and without a token;
  `NpcPhaseInv` in which phases there are tokens at all.
* *World, ownership and steps*: `NpcInv` and `OwnedInv`: who is in the world is registered
  in exactly one sector, its owner. `StepInv` and `SteppedInv`: a player that was
  stepped is in no worker's hands and in no sector still to be handed out, so nothing
  can lead to it again; for an NPC, `NpcInv` says so.
* *Geometry*: lemmas on truncating division and clamping, and `ViewRangeIsEuclidean`:
  the guarded square stands for the 64-bit one. No induction is needed.
* *Movement*: a chain of bounds. `ISqrtIsRoot`: the Newton iteration of `ISqrt` ends
  with the rounded-down root; by the least number for which it would not (`LeastOf`), as
  the start lies above the root and no iterate falls below it. Hence a cleaned input is at most
  1001 long, a speed 901 cm/s, the square of a step 969 < 32 * 32, rests included.
  `SlideOpen` and `FallLands`: each way through the slide ends on an open spot,
  and no fall ends below the ground.
* *FindPath*: `Searching` is the invariant of the loop. The parent of a cell that was reached has
  a cost that is lower by the step at least (`Linked`); a cell is shut once the entry with its cost has
  left the heap; the neighbours of a shut cell are known, at the cost of the way through it or less
  (`Relaxing`); and nothing that is shut ranks above what is in the heap (`Ranked`). The last holds
  because the heuristic is consistent: it changes by at most `COST` in a step, so a
  shut cell is never improved again. Hence the goal has its least cost when it is on top. Each turn
  shuts a cell or takes away an older entry of one, and a cell has at most eight, which bounds the number
  of turns. The parents lead back to the start because costs fall along them. The reference
  costs (`Costs`) are shown to be those of the shortest ways: after n rounds, of those of at
  most n steps, and no shortest way has more steps than there are open cells.
* *Pursuit*: `HuntInv`: monster and player stand where one may stand, and the rest is what
  it is said to be. A tick of several inputs is a recursion over them (`HeroSteps`): each
  step is at most 32 cm long, and the ways add up (`WaysAdd`, the inequality of the triangle).
  What `Stepped` and `Along` do with a goal or a waypoint is a step of `MoveToward` whatever the
  waypoint.
* *Duel*: `DuelInv` adds to it that the grid has the monster where it was at the end of the last
  tick (`stood`), at most a step of the AI from where it is (`Nearly`), and that a bolt in the air was
  out of the monster's radius then (`Clear`). So a query around the bolt finds the
  monster (`StruckIfNear`), and a bolt that goes on is out of the radius at both ends of its flight;
  the rest is Lagrange's identity (`NearMiss`).
* *ServerShutdown*: `Where`: where the threads are in each part of `main`. A call of the pool is made
  within a tick only, and `main` returns after the last tick.
* *Combat*: the invariant has a part for each group of variables. `CasterInv`: the casts
  of a session and what its handler has booked are a cooldown apart. `QueueInv`: every
  accepted cast is in one of the four queues or done, and in none twice. `TimeInv`: what
  waits is not overdue, unless it was heard in this tick. `LifeInv`: the deaths of a monster
  are as many as its births while it lives, one more after. `BoltInv`: during the
  advance, the bolts it has come to have flown this tick and the others have not.
* *ViewSync*: `LockInv`: whoever is between the query and the swap of the lists holds the
  lock. `BatchInv`: unless the updates have raced, one batch at most is on its way.
  `FollowInv`: without it what is shown is in the view; with it, once it has
  arrived (`Follows`).
* *MonsterAi*: `Leashed` says how far the monster can be led. Where everything is in sight that
  is one step beyond the leash; elsewhere it is counted along the way the monster walks, from
  the furthest place within the leash, and the steps of one path come on top. It is not inductive:
  `Tethered` is what the leash check leaves for the step of a chase; `NoPath` says that without a
  wall no path is followed; and `Straying`, where a path to somebody who has gone is still
  followed, bounds how far that has led by the time its deadline has left (`Strayed`). A step
  along an old path is paid for with a unit of that time, a step home costs nothing
  (`HomeStep`), and a path that outlives its deadline is replaced by one that leads home.
  `MindInv` ties state, target and timers together, and counts a pending blow's age up to the
  windup: `Announced` says that a blow does not come sooner, not that it does not come later.
* *InputQueue*: `Sorted`: what is simulated, popped and queued follows one
  increasing order; `Acked`: `processed` and `pos` agree whenever the tick
  sends. `RecentKept` adds that what was accepted is on its way or followed by a queue
  of newer ones.
* *Snapshots*: `SnapInv` relates the age of what is shown to the tick number modulo the
  intervals, phase by phase.
* *SendPipeline*: `TypeOK`, `OneSender`, `NoLostWakeup` and `FullInFlight` (a
  coroutine that is sending has something to send). That the flag is up exactly
  if somebody drives is what makes a new driver impossible while one exists. The
  refinement maps the backlog of the stream to what is in flight, then what is
  pending.
* *TickWorkerPool*: `Counted`: `m_pending` is the number of helpers that owe the
  current call something (`Owing`). With it `m_pending = 0` says that all have
  finished, so the caller that sees zero may clear the task. The rest says at
  which generation each helper can be at each point.
* *PacketBuffer*: `Contents`: the bytes between the cursors are those of the
  stream after the packets handled. `Ready`: when the loop receives, less than
  a packet is left at the front, so there is room.

Only model-checked:

* all liveness: `NpcReturns`, `TickCompletes`, `Drains`, `Returns`, `ServerStops`, `LeaverDisappears`,
  `NeighbourAppears`, `ReturnsHome`, `Arrives`, `LatestIsAcked`. Fairness and ENABLED are beyond
  the provers used;
* `PathSearch`, several searches at once, which is there to refute a comment.

That `FindPath` finds a way where more than 1023 cells of its window are open is neither
checked (the rooms of the run are small, and nothing in them is `Crowded`) nor proved.

The library's induction theorems take an operator, which these provers cannot instantiate. Where a
proof needs induction it uses the least counterexample instead: `LeastOf` and
`RecursionExists` of `PursuitProofs` say that a set of numbers has a least member and that a recursive function on
the numbers has a value everywhere. The models of what is proved so are recursive
functions.

No module with proofs declares or reaches a RECURSIVE operator.

## 7. Where code and comments disagree

Three disagreements have a run that shows them.

* **Ghosts** (`world_ghost`, `EndedLeavesGrid`). `server_main.cpp:473-474` says a
  session that has ended is out of the grid. If it closes after `SimulateSector`
  has stored a position in another sector and before the `Migrate` is applied,
  the cleanup removes it from the new sector, where it is not. It stays in the
  old one, or the flush puts it into the new one. The next session in that slot
  is then found in two sectors.
* **The avatar that stays** (`view_reuse`, `DepartedIsRemoved`).
  `game_tick.h:387-388` says a player who disconnects disappears from the views.
  If another player gets the slot and is in view by the next update, the lists
  show no difference: the client keeps the avatar of the one who left.
* **The search that does not end** (`path_race`, `SearchEnds`). `pathfinding.h:86`
  lets all searches share one static buffer because the AI phase is
  single-threaded; `PhaseMonsterAi` (`game_tick.h:267-275`) runs in parallel. When
  a second search advances the stamp in the middle of a first one, the first
  meets its own cells as new and may set the parent of its start: the way back
  from the goal is a circle, its path grows without end, and the tick waits for
  that worker.

Others were met while modelling; the models do what the code does, and the
properties say what remains true:

* `world_command_apply.h:66`: an NPC killed in a flush in which its `Migrate` is
  still to come is registered again by it, dead, and gets an owner. When it
  respawns elsewhere it is registered twice. `NpcMembership` excludes it
  (`tainted`).
* `monster_ai.h:285`: a monster that returns is revived at its spawn point from
  up to `WAYPOINT_TOLERANCE` away without a `Migrate`; across a sector border
  the grid keeps the old sector, against `world_object.h:153`. Excluded in the
  same way.
* `game_tick.h:139-143`, `:281-296`: view batches are queued outside the lock, so
  that of the login and that of the tick may overtake each other, and the double
  ADD that `world_object.h:422-426` speaks of is still possible. `AddedOnce` and
  `ShownIsInView` exclude it (`raced`).
* `monster_ai.h:203-210`, `:297`: the target of a monster is a slot. If its user is
  replaced between two updates, a passive monster strikes the newcomer, against
  `monster_table.h:8`. `GrudgeHasCause` is therefore about slots, and does not catch this.
* `monster_ai.h:278-290`: a monster on its way home is not looked at by the leash check, against
  `monster_ai.h:212-213` (without the check a player could drag it to the end of the world). Its way may be a
  detour, and if its target was lost (`monster_ai.h:207`) or its slot was emptied (`:236`, `:250`) it begins with the rest
  of the path to that target, up to `REPATH_INTERVAL`; the branch of the leash clears path and
  deadline, the others do not. Nobody drags it on for ever, but it can be further from its spawn point
  than the leash and a step. `Leashed` states what remains.
* `monster_ai.h:294`: a pending blow survives a chase, and sleep: it lands with the first update in which it is
  due, which can be long after its announcement. `Announced` lets it be late.
* `combat_tick.h:98-100`: without a free projectile slot a cast that has been paid for is dropped without
  a word. `EachCastOnce` counts this as its execution.
* `game_tick.h:158-180`: a monster is updated only near a player, also if it is
  chasing; `docs/DECISIONS.md:150` says a chasing one is not put to sleep. `ReturnsHome` ends its
  promise there.
* `world_object.h:235-244`: a hit turns a monster only in Idle and Return;
  `world_command_apply.h:72-73` says it changes the target of one that is
  attacking another.
* `combat_tick.h:95-116`: a projectile's `range` (`skill_table.h:23`: its maximal
  flight) is not read; only its time ends it.
* `combat_tick.h:173`: that a bolt is looked at for touching a body holds only where
  a tick ends. It moves 59 cm in a tick and the body has 45: a monster that
  steps towards it can be outside that radius before and after, with the bolt
  gone right through its centre. `NoFlyThrough` is about a monster that stands.
  For the same reason (`combat_tick.h:167`) a bolt may cut the corner of a wall.
* `monster_ai.h:129`, `:146-148`: a monster whose goal is in sight cell by cell walks
  straight on and does not search. If its straight line leads through the corner
  of a wall and the slide along it is rounded to nothing, it stands still as long
  as its goal does, against `monster_ai.h:94` and `:145`, which count on the next search; a spawn
  point stands for ever. `Arrives` excepts it (`Stuck`), and so does `ReturnsHome` (`Held`).
* `game_tick.h:404-405`, `protocol.h:116`: monsters near a player step in every third
  tick, near snapshots go out in every second, and the moved set is cleared in
  every tick. So even a near observer is told of a monster only in every sixth,
  and a last step in another tick is never shown until the next one that is.
  `FollowedClosely` states what remains.
* The revival of a monster that returns and the teleport (debug builds) do not mark
  the moved set: observers see the new position with the next step.
* `movement.h:97`: an input longer than 1000 is said to be cut to 1000. The root is
  rounded down, so (843, 539), with a length of 1000.6, stays as it is. The bounds of the
  proofs allow for it.
* `server_main.cpp:619`: 64 quit packets end at most 64 dispatchers, whose number
  grows with the cores; and a Ctrl-C before the port exists ends none of them.
* `world_command_apply.h:56`, `combat_tick.h:68`: commands and hits name slots. If the
  user of a slot is replaced before they are applied, the newcomer takes the
  damage, or casts the hit.

## 8. Not modelled

Chat only reads the view list and sends; teleport exists in debug builds only.
Metrics and statistics are for the operator: no state of the game depends on them,
though the statistics thread reads a vector that the tick thread changes
(`tick_metrics.h:76`), which has no outcome to model. The geometry of the cone
and the area of a bolt (`combat.h`), and the sine table (`fixed_math.h`): `Combat`
takes any choice of victims, so its properties do not depend on it. The squares in
`IsInCone` need 64 bits, more than TLC computes with. Orientation. Tables and files are read once at
start and are constants of the models. The sender adapters and stdexec are
external, seen only through "a call completes once". The error exits of `main`,
the closing of the console window (the operating system ends the process when
the handler returns), and what becomes of the sessions that are connected when
the server ends. The data races on `ai_state` and `path` do not arise in the
model because one worker at a time has a monster (`OncePerPhase`). The pacing of
the ticks by the clock, and sequence numbers that wrap around at 32 bits.

## 9. What is left

1. Session lifetimes in `World`: what may be promised of a command or a hit whose
   session has left.
2. The cone of `combat.h`, with squares that are compared without being computed, and
   the sine table.
3. The closing of sessions in `ServerShutdown`.
4. Proofs: a sharper bound on the entries that a cell can have in the heap of `FindPath`, which
   would make fewer windows `Crowded`.
