------------------------------- MODULE World -------------------------------
(***************************************************************************)
(* Who is where: sessions and NPCs, the sector grid they are registered    *)
(* in, and the tick that moves, kills and revives them.                    *)
(*                                                                         *)
(* The position of an object (WorldObject::m_move) is changed at once by   *)
(* the phase that simulates it; its membership in the grid (WorldGrid) is  *)
(* changed later, by a command that the phase records in the outbox of its *)
(* partition and FlushWorldCommands applies.  Logins and disconnections    *)
(* run on I/O threads and change the grid directly, at any moment of the   *)
(* tick.  This module is about the windows in which the two disagree.      *)
(*                                                                         *)
(* Positions are abstracted to sectors: a move inside a sector changes     *)
(* nothing here.  A step of the model is one critical section of the code, *)
(* or several whose order no other thread can tell apart.                  *)
(***************************************************************************)
EXTENDS Integers, Sequences, FiniteSets

CONSTANTS
  Conn,       \* the connections: one Session object each, ever created
  PlayerId,   \* the slots of SessionManager
  Npc,        \* the ids of NpcManager
  Sector,     \* the sectors of the grid
  Near,       \* Near[s]: the sectors of the 3x3 block around s
  Wave,       \* Wave[s]: the wave of s (WorldGrid::WaveOf)
  Origin,     \* sector of the default position {0, 0, 0}
  Village,    \* sector in which players revive
  LoginSpot,  \* sectors a login may start in
  Home,       \* Home[n]: sector of the spawn point of n
  Doorstep,   \* Doorstep[n]: sectors within WAYPOINT_TOLERANCE of it
  LastPart,   \* partitions are numbered 0..LastPart (one per thread)
  MaxHits,    \* bound: damage is recorded only in outboxes shorter than this
  None

Part == 0 .. LastPart
Id   == PlayerId \cup Npc
Obj  == Conn \cup Npc

ASSUME WorldAssumption ==
  /\ LastPart \in Nat /\ MaxHits \in Nat
  /\ Near \in [Sector -> SUBSET Sector]
  /\ \A s \in Sector : s \in Near[s]
  /\ Wave \in [Sector -> 0 .. 3]
  /\ Origin \in Sector /\ Village \in Sector /\ LoginSpot \subseteq Sector
  /\ Home \in [Npc -> Sector]
  /\ Doorstep \in [Npc -> SUBSET Sector]
  /\ \A n \in Npc : Home[n] \in Doorstep[n]
  /\ PlayerId \cap Npc = {} /\ Conn \cap (Npc \cup PlayerId) = {}
  /\ None \notin Conn \cup Npc \cup PlayerId \cup Sector

VARIABLES
  slot,     \* SessionManager::m_slots
  id,       \* id[c]: the slot index that session c was made with
  pc,       \* pc[c]: how far the coroutine of session c has come
  pos,      \* sector of WorldObject::m_move.pos
  alive,    \* m_hp > 0
  owner,    \* WorldObject::m_owner_sector
  respawn,  \* the objects whose respawn tick is set
  grid,     \* grid[s]: ids registered in sector s
  phase,    \* where the tick thread is
  active,   \* sectors of this tick's wave lists
  left,     \* those the running phase has not dispatched yet
  todo,     \* todo[p]: sectors of the running wave that partition p still has
  batch,    \* batch[p]: ids p copied from its sector and has not handled yet
  cur,      \* cur[p]: the step p has computed or resolved but not applied
  outbox,   \* CommandBus: outbox[p] is the command list of partition p
  stepped,  \* history: objects stepped in the running parallel phase
  tainted   \* history: ids that left or died while the tick held them

connVars == <<slot, id, pc>>
objVars  == <<pos, alive, owner, respawn, grid>>
tickVars == <<phase, active, left, todo, batch, cur, outbox>>
history  == <<stepped, tainted>>
vars     == <<connVars, objVars, tickVars, history>>

-----------------------------------------------------------------------------
(* Commands and pending steps.                                             *)

Damage(i)        == [type |-> "Damage",  target |-> i, from |-> None, to |-> None]
Migrate(i, a, b) == [type |-> "Migrate", target |-> i, from |-> a, to |-> b]
GridAdd(i, b)    == [type |-> "GridAdd", target |-> i, from |-> None, to |-> b]

Command ==
  {Damage(i) : i \in Id} \cup {Migrate(i, a, b) : i \in Id, a, b \in Sector} \cup
  {GridAdd(n, b) : n \in Npc, b \in Sector}

Step == [obj : Conn, from : Sector, to : Sector]

Idle == [obj |-> None, from |-> None, to |-> None]

(* What a session's progress tells the others: SessionState::Playing.      *)
Playing(c) == pc[c] \in {"playing", "added", "in"}

(* g_sessions.Get(i), if that session is Playing.                          *)
PlayingIn(i) == {c \in Conn : slot[i] = c /\ Playing(c)}

(* The sectors in which id i is registered.                                *)
Where(i) == {s \in Sector : i \in grid[s]}

(* The membership commands about i that are recorded and not yet applied.  *)
Recorded(i) ==
  {x \in UNION {{p} \X DOMAIN outbox[p] : p \in Part} :
     /\ outbox[x[1]][x[2]].target = i
     /\ outbox[x[1]][x[2]].type # "Damage"}

Held(i) == {p \in Part : cur[p].obj # None /\ id[cur[p].obj] = i}

(* The tick has copied i out of the grid, or holds a step or a membership  *)
(* command for it.                                                         *)
InFlight(i) ==
  \/ Recorded(i) # {}
  \/ Held(i) # {}
  \/ \E p \in Part : i \in batch[p]

(* History: i leaves the world or dies; remember it if the tick has it.    *)
Taint(i) == tainted' = tainted \cup {j \in {i} : InFlight(j)}

(* WorldGrid::Add, Remove and Move on a grid g.                            *)
Added(g, i, s)   == [g EXCEPT ![s] = @ \cup {i}]
Removed(g, i, s) == [g EXCEPT ![s] = @ \ {i}]

(* (Mistake to test the properties: the old sector is forgotten.)          *)
MovedKeepsOld(g, i, a, b) == Added(g, i, b)

Moved(g, i, a, b) ==
  IF a = b THEN g ELSE Added(Removed(g, i, a), i, b)

Emit(p, cmds) == outbox' = [outbox EXCEPT ![p] = @ \o cmds]

-----------------------------------------------------------------------------
(* InitializeNpcs, before any thread runs.                                 *)
Init ==
  /\ slot = [i \in PlayerId |-> None]
  /\ id = [c \in Conn |-> None]
  /\ pc = [c \in Conn |-> "new"]
  /\ pos = [o \in Obj |-> IF o \in Npc THEN Home[o] ELSE Origin]
  /\ alive = [o \in Obj |-> TRUE]
  /\ owner = [o \in Obj |-> IF o \in Npc THEN Home[o] ELSE None]
  /\ respawn = {}
  /\ grid = [s \in Sector |-> {n \in Npc : Home[n] = s}]
  /\ phase = "idle" /\ active = {} /\ left = {}
  /\ todo = [p \in Part |-> {}]
  /\ batch = [p \in Part |-> {}]
  /\ cur = [p \in Part |-> Idle]
  /\ outbox = [p \in Part |-> <<>>]
  /\ stepped = {} /\ tainted = {}

-----------------------------------------------------------------------------
(* I/O threads: the life of a session.                                     *)

(* AcceptLoop and SessionManager::Acquire: a slot seen empty is taken by a *)
(* compare-and-swap.  The scan is upwards, but a lower slot may be freed   *)
(* behind it, so any free slot may be the one taken.                       *)
Accept(c, i) ==
  /\ pc[c] = "new" /\ slot[i] = None
  /\ slot' = [slot EXCEPT ![i] = c]
  /\ id' = [id EXCEPT ![c] = i]
  /\ pc' = [pc EXCEPT ![c] = "accepted"]
  /\ UNCHANGED <<objVars, tickVars, history>>

(* HandleLogin: place the avatar, then raise the state to Playing...       *)
LoginPlaying(c, s) ==
  /\ pc[c] = "accepted"
  /\ pos' = [pos EXCEPT ![c] = s]
  /\ pc' = [pc EXCEPT ![c] = "playing"]
  /\ UNCHANGED <<slot, id, alive, owner, respawn, grid, tickVars, history>>

(* ... then register it in the grid, not through a command...              *)
LoginAdd(c) ==
  /\ pc[c] = "playing"
  /\ grid' = Added(grid, id[c], pos[c])
  /\ pc' = [pc EXCEPT ![c] = "added"]
  /\ UNCHANGED <<slot, id, pos, alive, owner, respawn, tickVars, history>>

(* (Mistake: the owner is taken from the default position.)                *)
LoginOwnDefault(c) ==
  /\ pc[c] = "added"
  /\ owner' = [owner EXCEPT ![c] = Origin]
  /\ pc' = [pc EXCEPT ![c] = "in"]
  /\ UNCHANGED <<slot, id, pos, alive, respawn, grid, tickVars, history>>

(* ... then record the owning sector.  Only now does the coroutine read    *)
(* the next packet, so no input is queued before this step.                *)
LoginOwn(c) ==
  /\ pc[c] = "added"
  /\ owner' = [owner EXCEPT ![c] = pos[c]]
  /\ pc' = [pc EXCEPT ![c] = "in"]
  /\ UNCHANGED <<slot, id, pos, alive, respawn, grid, tickVars, history>>

(* HandleSession leaves its receive loop: logout, a bad packet, a closed   *)
(* or failed socket.                                                       *)
Disconnect(c) ==
  /\ pc[c] \in {"accepted", "in"}
  /\ pc' = [pc EXCEPT ![c] = "closing"]
  /\ Taint(id[c])
  /\ UNCHANGED <<slot, id, objVars, tickVars, stepped>>

(* The cleanup removes the id from the sector of the current position.     *)
CleanupGrid(c) ==
  /\ pc[c] = "closing"
  /\ grid' = Removed(grid, id[c], pos[c])
  /\ owner' = [owner EXCEPT ![c] = None]
  /\ pc' = [pc EXCEPT ![c] = "removed"]
  /\ Taint(id[c])
  /\ UNCHANGED <<slot, id, pos, alive, respawn, tickVars, stepped>>

(* SessionManager::Release.                                                *)
Release(c) ==
  /\ pc[c] = "removed"
  /\ slot' = [slot EXCEPT ![id[c]] = None]
  /\ pc' = [pc EXCEPT ![c] = "ended"]
  /\ UNCHANGED <<id, objVars, tickVars, history>>

Session(c) ==
  \/ \E i \in PlayerId : Accept(c, i)
  \/ \E s \in LoginSpot : LoginPlaying(c, s)
  \/ LoginAdd(c)
  \/ LoginOwn(c)
  \/ Disconnect(c)
  \/ CleanupGrid(c)
  \/ Release(c)

-----------------------------------------------------------------------------
(* The tick thread and its workers: waves.                                 *)

Joined == \A p \in Part : todo[p] = {} /\ batch[p] = {} /\ cur[p] = Idle

(* BuildWaveLists, and the g_moved.Clear that starts PhaseSimulate.        *)
TickStart ==
  /\ phase = "idle"
  /\ active' = UNION {Near[pos[c]] : c \in UNION {PlayingIn(i) : i \in PlayerId}}
  /\ left' = active'
  /\ phase' = "simulate"
  /\ stepped' = {}
  /\ UNCHANGED <<connVars, objVars, todo, batch, cur, outbox, tainted>>

(* (Mistake: every partition takes the whole list.)                        *)
StridesWhole(S) == {[p \in Part |-> S]}

(* The ways RunWave can deal the sectors S out by stride: positions p,     *)
(* p+P, p+2P... of the wave list go to partition p.  The order of the list *)
(* follows the sessions' slots, so any sector may be at any position.      *)
Strides(S) ==
  {f \in [Part -> SUBSET S] :
     /\ UNION {f[p] : p \in Part} = S
     /\ \A p, q \in Part : p # q => f[p] \cap f[q] = {}
     /\ \A p \in Part :
          Cardinality(f[p]) =
            Cardinality({k \in 0 .. Cardinality(S) - 1 : k % (LastPart + 1) = p})}

RunWave ==
  /\ phase \in {"simulate", "ai"} /\ Joined /\ left # {}
  /\ \E w \in 0 .. 3 :
       LET S == {s \in left : Wave[s] = w} IN
       /\ S # {}
       /\ \A s \in left : Wave[s] >= w
       /\ left' = left \ S
       /\ todo' \in Strides(S)
  /\ UNCHANGED <<connVars, objVars, phase, active, batch, cur, outbox, history>>

(* CopyObjects, and the id test with which each phase skips the objects    *)
(* of the other.                                                           *)
CopyObjects(p, s) ==
  /\ phase \in {"simulate", "ai"}
  /\ s \in todo[p] /\ batch[p] = {} /\ cur[p] = Idle
  /\ todo' = [todo EXCEPT ![p] = @ \ {s}]
  /\ batch' = [batch EXCEPT ![p] =
                 grid[s] \cap (IF phase = "simulate" THEN PlayerId ELSE Npc)]
  /\ UNCHANGED <<connVars, objVars, phase, active, left, cur, outbox, history>>

EndParallel ==
  /\ phase \in {"simulate", "ai"} /\ Joined /\ left = {}
  /\ phase' = IF phase = "simulate" THEN "flush" ELSE "combat"
  /\ UNCHANGED <<connVars, objVars, active, left, todo, batch, cur, outbox, history>>

-----------------------------------------------------------------------------
(* SimulateSector, for one id of the copied list.                          *)

(* The session is gone, not Playing, has no input to consume (it stands on *)
(* the ground), or moves without leaving its sector.                       *)
SimulateStay(p, i) ==
  /\ phase = "simulate" /\ i \in batch[p] /\ cur[p] = Idle
  /\ batch' = [batch EXCEPT ![p] = @ \ {i}]
  /\ stepped' = stepped \cup {c \in PlayingIn(i) : pc[c] = "in"}
  /\ UNCHANGED <<connVars, objVars, phase, active, left, todo, cur, outbox, tainted>>

(* The inputs are popped, the state read and SimulateStep run: the result  *)
(* is in another sector.                                                   *)
SimulateRead(p, i, c, to) ==
  /\ phase = "simulate" /\ i \in batch[p] /\ cur[p] = Idle
  /\ slot[i] = c /\ pc[c] = "in"
  /\ to \in Near[pos[c]] \ {pos[c]}
  /\ batch' = [batch EXCEPT ![p] = @ \ {i}]
  /\ cur' = [cur EXCEPT ![p] = [obj |-> c, from |-> pos[c], to |-> to]]
  /\ stepped' = stepped \cup {c}
  /\ UNCHANGED <<connVars, objVars, phase, active, left, todo, outbox, tainted>>

(* The new state is stored and the migration recorded.                     *)
SimulateWrite(p) ==
  /\ phase = "simulate" /\ cur[p] # Idle
  /\ pos' = [pos EXCEPT ![cur[p].obj] = cur[p].to]
  /\ Emit(p, <<Migrate(id[cur[p].obj], cur[p].from, cur[p].to)>>)
  /\ cur' = [cur EXCEPT ![p] = Idle]
  /\ UNCHANGED <<connVars, alive, owner, respawn, grid,
                 phase, active, left, todo, batch, history>>

-----------------------------------------------------------------------------
(* UpdateMonster, for one id of the copied list.                           *)

(* The blow a monster may strike at the end of its update: a player that   *)
(* is Playing, alive and within reach of where the monster now is.         *)
Blows(p, s) ==
  {<<>>} \cup
  {<<Damage(i)>> : i \in {j \in PlayerId :
      /\ Len(outbox[p]) < MaxHits
      /\ \E c \in PlayingIn(j) : alive[c] /\ pos[c] \in Near[s]}}

Monster(p, n) ==
  /\ phase = "ai" /\ n \in batch[p]
  /\ batch' = [batch EXCEPT ![p] = @ \ {n}]

(* Dead, or it stays in its sector.                                        *)
MonsterStay(p, n) ==
  /\ Monster(p, n)
  /\ \E blow \in IF alive[n] THEN Blows(p, pos[n]) ELSE {<<>>} : Emit(p, blow)
  /\ stepped' = stepped \cup {m \in {n} : alive[m]}
  /\ UNCHANGED <<connVars, objVars, phase, active, left, todo, cur, tainted>>

(* MoveToward across a sector border.                                      *)
MonsterMove(p, n, to) ==
  /\ Monster(p, n)
  /\ alive[n] /\ to \in Near[pos[n]] \ {pos[n]}
  /\ pos' = [pos EXCEPT ![n] = to]
  /\ \E blow \in Blows(p, to) : Emit(p, <<Migrate(n, pos[n], to)>> \o blow)
  /\ stepped' = stepped \cup {n}
  /\ UNCHANGED <<connVars, alive, owner, respawn, grid,
                 phase, active, left, todo, cur, tainted>>

(* Return: within WAYPOINT_TOLERANCE of the spawn point the monster is     *)
(* revived at that point.  No migration is recorded, even if the point is  *)
(* on the other side of a sector border.                                   *)
MonsterArrive(p, n) ==
  /\ Monster(p, n)
  /\ alive[n] /\ pos[n] \in Doorstep[n] \ {Home[n]}
  /\ pos' = [pos EXCEPT ![n] = Home[n]]
  /\ stepped' = stepped \cup {n}
  /\ tainted' = tainted \cup {n}
  /\ UNCHANGED <<connVars, alive, owner, respawn, grid,
                 phase, active, left, todo, cur, outbox>>

-----------------------------------------------------------------------------
(* RunCombatPhase, on the tick thread: partition 0.                        *)

(* A due cone hit or a projectile strikes an NPC that is in the grid and   *)
(* alive.  A projectile outlives the session that cast it.                 *)
Strike(n) ==
  /\ phase = "combat"
  /\ alive[n] /\ Where(n) # {}
  /\ \E c \in Conn : pc[c] \notin {"new", "accepted"}
  /\ Len(outbox[0]) < MaxHits
  /\ Emit(0, <<Damage(n)>>)
  /\ UNCHANGED <<connVars, objVars, phase, active, left, todo, batch, cur, history>>

EndCombat ==
  /\ phase = "combat"
  /\ phase' = "respawn"
  /\ UNCHANGED <<connVars, objVars, active, left, todo, batch, cur, outbox, history>>

(* (Mistake: no GridAdd is recorded.)                                      *)
RespawnNpcUnseen(n) ==
  /\ phase = "respawn" /\ n \in respawn
  /\ respawn' = respawn \ {n}
  /\ alive' = [alive EXCEPT ![n] = TRUE]
  /\ pos' = [pos EXCEPT ![n] = Home[n]]
  /\ UNCHANGED <<connVars, owner, grid, phase, active, left, todo, batch, cur,
                 outbox, history>>

(* ProcessRespawns for an NPC whose respawn tick has come.                 *)
RespawnNpc(n) ==
  /\ phase = "respawn" /\ n \in respawn
  /\ respawn' = respawn \ {n}
  /\ alive' = [alive EXCEPT ![n] = TRUE]
  /\ pos' = [pos EXCEPT ![n] = Home[n]]
  /\ Emit(0, <<GridAdd(n, Home[n])>>)
  /\ UNCHANGED <<connVars, owner, grid, phase, active, left, todo, batch, cur, history>>

(* ProcessRespawns for a player that is Playing and whose respawn tick has *)
(* come: the old position...  That tick is PLAYER_RESPAWN_TICKS (five      *)
(* seconds) after the death; assumed is that a login which was then in     *)
(* progress has ended.                                                     *)
RespawnRead(i, c) ==
  /\ phase = "respawn" /\ cur[0] = Idle
  /\ slot[i] = c /\ c \in respawn /\ pc[c] = "in"
  /\ respawn' = respawn \ {c}
  /\ cur' = [cur EXCEPT ![0] = [obj |-> c, from |-> pos[c], to |-> Village]]
  /\ UNCHANGED <<connVars, pos, alive, owner, grid,
                 phase, active, left, todo, batch, outbox, history>>

(* ... then Revive at the village, and a migration in any case.            *)
RespawnWrite ==
  /\ phase = "respawn" /\ cur[0] # Idle
  /\ alive' = [alive EXCEPT ![cur[0].obj] = TRUE]
  /\ pos' = [pos EXCEPT ![cur[0].obj] = Village]
  /\ Emit(0, <<Migrate(id[cur[0].obj], cur[0].from, Village)>>)
  /\ cur' = [cur EXCEPT ![0] = Idle]
  /\ UNCHANGED <<connVars, owner, respawn, grid,
                 phase, active, left, todo, batch, history>>

(* The deadline of what is left in respawn has not come.                   *)
EndRespawn ==
  /\ phase = "respawn" /\ cur[0] = Idle
  /\ phase' = "flush2"
  /\ UNCHANGED <<connVars, objVars, active, left, todo, batch, cur, outbox, history>>

-----------------------------------------------------------------------------
(* FlushWorldCommands: partition by partition, in the order of recording.  *)

Flushing == phase \in {"flush", "flush2"} /\ cur[0] = Idle

(* p holds the next command.                                               *)
NextIn(p) == outbox[p] # <<>> /\ \A q \in Part : outbox[q] # <<>> => p <= q

(* (Mistake: a command that was applied stays in its outbox.)              *)
PopNothing(p) == p \in Part /\ UNCHANGED outbox

Pop(p) == outbox' = [outbox EXCEPT ![p] = Tail(@)]

(* ResolveDamage on a player.  ApplyDamage ignores the dead.               *)
DamagePlayer(p, i, killed) ==
  /\ Flushing /\ NextIn(p) /\ Head(outbox[p]) = Damage(i) /\ i \in PlayerId
  /\ LET hit == {c \in PlayingIn(i) : alive[c] /\ killed} IN
     /\ alive' = [o \in Obj |-> alive[o] /\ o \notin hit]
     /\ respawn' = respawn \cup hit
  /\ Pop(p)
  /\ UNCHANGED <<connVars, pos, owner, grid,
                 phase, active, left, todo, batch, cur, history>>

(* ResolveDamage on an NPC that survives it, or is already dead.           *)
WoundNpc(p, n) ==
  /\ Flushing /\ NextIn(p) /\ Head(outbox[p]) = Damage(n) /\ n \in Npc
  /\ Pop(p)
  /\ UNCHANGED <<connVars, objVars, phase, active, left, todo, batch, cur, history>>

(* ResolveDamage on an NPC that dies of it: out of the sector of its       *)
(* current position, even while a migration of it is waiting further on.   *)
KillNpc(p, n) ==
  /\ Flushing /\ NextIn(p) /\ Head(outbox[p]) = Damage(n) /\ n \in Npc
  /\ alive[n]
  /\ alive' = [alive EXCEPT ![n] = FALSE]
  /\ grid' = Removed(grid, n, pos[n])
  /\ owner' = [owner EXCEPT ![n] = None]
  /\ respawn' = respawn \cup {n}
  /\ Pop(p)
  /\ Taint(n)
  /\ UNCHANGED <<connVars, pos, phase, active, left, todo, batch, cur, stepped>>

(* ResolveMigrate on an NPC: nothing asks whether it is alive.             *)
MigrateNpc(p, n) ==
  /\ Flushing /\ NextIn(p) /\ n \in Npc
  /\ Head(outbox[p]).type = "Migrate" /\ Head(outbox[p]).target = n
  /\ grid' = Moved(grid, n, Head(outbox[p]).from, Head(outbox[p]).to)
  /\ owner' = [owner EXCEPT ![n] = Head(outbox[p]).to]
  /\ Pop(p)
  /\ UNCHANGED <<connVars, pos, alive, respawn,
                 phase, active, left, todo, batch, cur, history>>

(* ResolveMigrate on a player: ResolveObject finds the Playing session     *)
(* that now has the id, or drops the command...                            *)
MigrateResolve(p, i) ==
  /\ Flushing /\ NextIn(p) /\ i \in PlayerId
  /\ Head(outbox[p]).type = "Migrate" /\ Head(outbox[p]).target = i
  /\ \/ /\ PlayingIn(i) = {}
        /\ UNCHANGED cur
     \/ \E c \in PlayingIn(i) :
          cur' = [cur EXCEPT ![0] = [obj  |-> c,
                                     from |-> Head(outbox[p]).from,
                                     to   |-> Head(outbox[p]).to]]
  /\ Pop(p)
  /\ UNCHANGED <<connVars, objVars, phase, active, left, todo, batch, history>>

(* ... then the grid and the owner follow, whatever the session did since. *)
MigrateApply ==
  /\ phase \in {"flush", "flush2"} /\ cur[0] # Idle
  /\ grid' = Moved(grid, id[cur[0].obj], cur[0].from, cur[0].to)
  /\ owner' = [owner EXCEPT ![cur[0].obj] = cur[0].to]
  /\ cur' = [cur EXCEPT ![0] = Idle]
  /\ UNCHANGED <<connVars, pos, alive, respawn,
                 phase, active, left, todo, batch, outbox, history>>

(* ResolveGridAdd: recorded only by the respawn of an NPC.                 *)
AddNpc(p, n) ==
  /\ Flushing /\ NextIn(p) /\ n \in Npc
  /\ Head(outbox[p]).type = "GridAdd" /\ Head(outbox[p]).target = n
  /\ grid' = Added(grid, n, Head(outbox[p]).to)
  /\ owner' = [owner EXCEPT ![n] = Head(outbox[p]).to]
  /\ Pop(p)
  /\ UNCHANGED <<connVars, pos, alive, respawn,
                 phase, active, left, todo, batch, cur, history>>

(* The first flush is followed by the AI phase on every AI_TICK_INTERVALth *)
(* tick and by combat on the others; the second ends the tick.             *)
EndFlush ==
  /\ Flushing /\ \A p \in Part : outbox[p] = <<>>
  /\ \/ phase = "flush"  /\ phase' = "ai"     /\ left' = active /\ stepped' = {}
     \/ phase = "flush"  /\ phase' = "combat" /\ UNCHANGED <<left, stepped>>
     \/ phase = "flush2" /\ phase' = "idle"   /\ UNCHANGED <<left, stepped>>
  /\ UNCHANGED <<connVars, objVars, active, todo, batch, cur, outbox, tainted>>

-----------------------------------------------------------------------------
Simulate(p) ==
  \/ \E s \in Sector : CopyObjects(p, s)
  \/ \E i \in PlayerId : SimulateStay(p, i)
  \/ \E i \in PlayerId, c \in Conn, to \in Sector : SimulateRead(p, i, c, to)
  \/ SimulateWrite(p)
  \/ \E n \in Npc : MonsterStay(p, n)
  \/ \E n \in Npc, to \in Sector : MonsterMove(p, n, to)
  \/ \E n \in Npc : MonsterArrive(p, n)

Flush ==
  \/ \E p \in Part, i \in PlayerId, k \in BOOLEAN : DamagePlayer(p, i, k)
  \/ \E p \in Part, n \in Npc : WoundNpc(p, n)
  \/ \E p \in Part, n \in Npc : KillNpc(p, n)
  \/ \E p \in Part, n \in Npc : MigrateNpc(p, n)
  \/ \E p \in Part, i \in PlayerId : MigrateResolve(p, i)
  \/ MigrateApply
  \/ \E p \in Part, n \in Npc : AddNpc(p, n)
  \/ EndFlush

Tick ==
  \/ TickStart
  \/ RunWave
  \/ EndParallel
  \/ \E p \in Part : Simulate(p)
  \/ \E n \in Npc : Strike(n)
  \/ EndCombat
  \/ \E n \in Npc : RespawnNpc(n)
  \/ \E i \in PlayerId, c \in Conn : RespawnRead(i, c)
  \/ RespawnWrite
  \/ EndRespawn
  \/ Flush

Next == Tick \/ \E c \in Conn : Session(c)

Spec == Init /\ [][Next]_vars

(* Scheduling: the tick thread and the pool's workers are never blocked    *)
(* for good; a coroutine that has left its receive loop runs its cleanup;  *)
(* a respawn tick that is set comes.  Clients owe nothing.                 *)
Fairness ==
  /\ WF_vars(Tick)
  /\ \A c \in Conn : WF_vars(CleanupGrid(c)) /\ WF_vars(Release(c))
  /\ \A n \in Npc : SF_vars(RespawnNpc(n))

FairSpec == Spec /\ Fairness

-----------------------------------------------------------------------------
(* Every variable stays in its range; in particular a recorded migration   *)
(* names a real id and real sectors, and a worker holds a Session object.  *)
TypeOK ==
  /\ slot \in [PlayerId -> Conn \cup {None}]
  /\ id \in [Conn -> PlayerId \cup {None}]
  /\ pc \in [Conn -> {"new", "accepted", "playing", "added", "in",
                      "closing", "removed", "ended"}]
  /\ pos \in [Obj -> Sector]
  /\ alive \in [Obj -> BOOLEAN]
  /\ owner \in [Obj -> Sector \cup {None}]
  /\ respawn \subseteq Obj
  /\ grid \in [Sector -> SUBSET Id]
  /\ phase \in {"idle", "simulate", "flush", "ai", "combat", "respawn", "flush2"}
  /\ active \subseteq Sector /\ left \subseteq Sector
  /\ todo \in [Part -> SUBSET Sector]
  /\ batch \in [Part -> SUBSET Id]
  /\ cur \in [Part -> Step \cup {Idle}]
  /\ outbox \in [Part -> Seq(Command)]
  /\ stepped \subseteq Obj /\ tainted \subseteq Id

(* The one sector in which object o is to be registered while it is in the *)
(* world: where its pending migration will take it from, or where it is.   *)
Registered(i, o) ==
  {outbox[x[1]][x[2]].from : x \in Recorded(i)} \cup
  (IF phase \in {"flush", "flush2"} THEN {cur[p].from : p \in Held(i)} ELSE {})

Expected(i, o) == IF Registered(i, o) = {} THEN {pos[o]} ELSE Registered(i, o)

(* A player id is registered in exactly one sector from LoginAdd to the    *)
(* cleanup and in none outside, though I/O threads and the tick change the *)
(* grid independently; only an id that was in flight when its session      *)
(* closed can be elsewhere.  (HandleLogin, HandleSession, ResolveMigrate.) *)
PlayerMembership ==
  \A i \in PlayerId \ tainted :
    LET here == {c \in Conn : /\ slot[i] = c
                              /\ \/ pc[c] \in {"added", "in"}
                                 \/ pc[c] = "closing" /\ owner[c] # None} IN
    IF here = {} THEN Where(i) = {}
    ELSE \E c \in here : Where(i) = Expected(i, c)

(* An NPC is registered in exactly one sector while it lives and in none   *)
(* while it is dead or waits for its GridAdd; exceptions are an NPC killed *)
(* in flight and one that arrived home across a border.  (ResolveDamage,   *)
(* ResolveMigrate, ProcessRespawns, UpdateMonster.)                        *)
NpcMembership ==
  \A n \in Npc \ tainted :
    Where(n) = IF alive[n] THEN Expected(n, n) \ {None} ELSE {}

(* Everything in the world is registered where it is expected, and nothing *)
(* else is.                                                                *)
Membership == PlayerMembership /\ NpcMembership

(* Between two ticks the owning sector of whatever lives in the world is   *)
(* the sector of its position (world_object.h: SetOwnerSector); a login    *)
(* that races with the tick must not leave a stale owner behind.           *)
OwnerAgrees ==
  phase = "idle" =>
    /\ \A n \in Npc \ tainted : owner[n] = IF alive[n] THEN pos[n] ELSE None
    /\ \A c \in Conn : pc[c] = "in" /\ id[c] \notin tainted => owner[c] = pos[c]

(* The lock-free waves: no object is handed to two workers, and none is    *)
(* handed out again in a phase that has already stepped it.                *)
OncePerPhase ==
  \A p \in Part :
    /\ \A q \in Part \ {p} : (batch[p] \cap batch[q]) \subseteq tainted
    /\ \A i \in batch[p] \ tainted :
         /\ i \notin stepped
         /\ \A c \in stepped \cap Conn : slot[i] # c

(* A dead NPC comes back: its respawn is not lost, and it is registered    *)
(* in the grid again.                                                      *)
NpcReturns == \A n \in Npc : ~alive[n] ~> alive[n] /\ Where(n) # {}

(* The tick always completes: no worker waits for ever at the end of a     *)
(* wave and every flush empties the outboxes.                              *)
TickCompletes == []<>(phase = "idle")

-----------------------------------------------------------------------------
(* What a comment of the code says, refuted by a run of its own.           *)

(* server_main.cpp:473: a session that has ended was taken out of the      *)
(* grid, so its observers' next view update removes it.                    *)
EndedLeavesGrid == \A i \in PlayerId : slot[i] = None => Where(i) = {}
=============================================================================
