---------------------------- MODULE WorldProofs ----------------------------
(***************************************************************************)
(* Proofs about World, for every number of connections, slots, NPCs,       *)
(* sectors and partitions.                                                 *)
(*                                                                         *)
(* The main result is that players and NPCs are registered in the grid     *)
(* exactly where they are expected, and that no two workers are handed the *)
(* same one.  The argument follows a token.  While an id is not tainted,   *)
(* at most one thing in the tick stands for it: its entry in one copied    *)
(* list, or one step in the hands of one worker, or one recorded command;  *)
(* and each of them knows where the grid has the id.  A second token would *)
(* need the id to be copied from a sector again, but the sectors that are  *)
(* still to be copied never include the one of an id that has a token.     *)
(***************************************************************************)
EXTENDS World, TLAPS

(* A session object knows its slot from the moment it is in one, and the   *)
(* tick only holds steps of such sessions: what TypeOK lacks to be         *)
(* inductive, since a recorded migration must name a real id.              *)
SlotsKnown ==
  /\ \A c \in Conn : pc[c] # "new" => id[c] \in PlayerId
  /\ \A i \in PlayerId : slot[i] # None => pc[slot[i]] # "new"
  /\ \A p \in Part : cur[p] # Idle => pc[cur[p].obj] # "new"

TypeInv == TypeOK /\ SlotsKnown

LEMMA IdleIsNoStep == Idle \notin Step
  BY WorldAssumption DEF Idle, Step

(* The commands are well typed, and so is an outbox after Emit or Pop.     *)
LEMMA CommandTypes ==
  ASSUME NEW i \in Id, NEW a \in Sector, NEW b \in Sector
  PROVE  /\ Damage(i) \in Command
         /\ Migrate(i, a, b) \in Command
         /\ i \in Npc => GridAdd(i, b) \in Command
  BY DEF Command

(* What a command read back from an outbox says.                           *)
LEMMA CommandFields ==
  ASSUME NEW x \in Command
  PROVE  /\ x.target \in Id
         /\ x.type \in {"Damage", "Migrate", "GridAdd"}
         /\ x.type = "Migrate" => x.from \in Sector /\ x.to \in Sector
         /\ x.type = "GridAdd" => x.to \in Sector /\ x.target \in Npc
  <1>1. CASE \E i \in Id : x = Damage(i)
    BY <1>1 DEF Damage
  <1>2. CASE \E i \in Id, a, b \in Sector : x = Migrate(i, a, b)
    BY <1>2 DEF Migrate
  <1>3. CASE \E n \in Npc, b \in Sector : x = GridAdd(n, b)
    BY <1>3 DEF GridAdd, Id
  <1>4. QED
    BY <1>1, <1>2, <1>3 DEF Command

LEMMA EmitType ==
  ASSUME outbox \in [Part -> Seq(Command)], NEW p \in Part,
         NEW cmds \in Seq(Command), Emit(p, cmds)
  PROVE  outbox' \in [Part -> Seq(Command)]
  BY DEF Emit

LEMMA PopType ==
  ASSUME outbox \in [Part -> Seq(Command)], NEW p \in Part,
         NextIn(p), Pop(p)
  PROVE  /\ outbox' \in [Part -> Seq(Command)]
         /\ Head(outbox[p]) \in Command
  BY DEF Pop, NextIn

(* Adding, removing and moving an id keep a grid a grid.                   *)
LEMMA GridType ==
  ASSUME NEW g \in [Sector -> SUBSET Id], NEW i \in Id,
         NEW a \in Sector, NEW b \in Sector
  PROVE  /\ Added(g, i, a) \in [Sector -> SUBSET Id]
         /\ Removed(g, i, a) \in [Sector -> SUBSET Id]
         /\ Moved(g, i, a, b) \in [Sector -> SUBSET Id]
  BY DEF Added, Removed, Moved

LEMMA InitTypeInv == Init => TypeInv
  BY WorldAssumption
  DEF Init, TypeInv, TypeOK, SlotsKnown, Obj, Id, Part, Idle

LEMMA SessionTypeInv ==
  ASSUME TypeInv, NEW c \in Conn, Session(c)
  PROVE  TypeInv'
  <1> USE WorldAssumption DEF TypeInv, SlotsKnown, connVars, objVars, tickVars, history
  <1>1. ASSUME NEW i \in PlayerId, Accept(c, i) PROVE TypeInv'
    BY <1>1, IdleIsNoStep DEF Accept, TypeOK, Step, Obj
  <1>2. ASSUME NEW s \in LoginSpot, LoginPlaying(c, s) PROVE TypeInv'
    BY <1>2 DEF LoginPlaying, TypeOK, Obj
  <1>3. CASE LoginAdd(c)
    <2>1. id[c] \in Id /\ pos[c] \in Sector
      BY <1>3 DEF LoginAdd, TypeOK, Id, Obj
    <2>2. grid' \in [Sector -> SUBSET Id]
      BY <1>3, <2>1, GridType DEF LoginAdd, TypeOK
    <2>3. QED
      BY <1>3, <2>2 DEF LoginAdd, TypeOK
  <1>4. CASE LoginOwn(c)
    BY <1>4 DEF LoginOwn, TypeOK, Obj
  <1>5. CASE Disconnect(c)
    BY <1>5 DEF Disconnect, Taint, TypeOK, Obj, Id
  <1>6. CASE CleanupGrid(c)
    <2>1. id[c] \in Id /\ pos[c] \in Sector
      BY <1>6 DEF CleanupGrid, TypeOK, Id, Obj
    <2>2. grid' \in [Sector -> SUBSET Id]
      BY <1>6, <2>1, GridType DEF CleanupGrid, TypeOK
    <2>3. QED
      BY <1>6, <2>1, <2>2 DEF CleanupGrid, Taint, TypeOK, Obj
  <1>7. CASE Release(c)
    BY <1>7 DEF Release, TypeOK, Obj
  <1>8. QED
    BY <1>1, <1>2, <1>3, <1>4, <1>5, <1>6, <1>7 DEF Session

(* The step a worker holds is one of a session with a real id.             *)
LEMMA HeldStep ==
  ASSUME TypeInv, NEW p \in Part, cur[p] # Idle
  PROVE  /\ cur[p] \in Step
         /\ cur[p].obj \in Conn /\ cur[p].from \in Sector /\ cur[p].to \in Sector
         /\ id[cur[p].obj] \in PlayerId
  BY DEF TypeInv, TypeOK, SlotsKnown, Step

LEMMA WaveTypeInv ==
  ASSUME TypeInv, TickStart \/ RunWave \/ EndParallel \/ EndCombat \/ EndRespawn
  PROVE  TypeInv'
  <1> USE DEF TypeInv, SlotsKnown, connVars, objVars, history
  <1>1. CASE TickStart
    <2>1. active' \subseteq Sector
      BY <1>1, WorldAssumption DEF TickStart, PlayingIn, TypeOK, Obj
    <2>2. QED
      BY <1>1, <2>1 DEF TickStart, TypeOK
  <1>2. CASE RunWave
    <2>1. todo' \in [Part -> SUBSET Sector] /\ left' \subseteq Sector
      BY <1>2 DEF RunWave, Strides, TypeOK
    <2>2. QED
      BY <1>2, <2>1 DEF RunWave, TypeOK
  <1>3. CASE EndParallel
    BY <1>3 DEF EndParallel, TypeOK
  <1>4. CASE EndCombat
    BY <1>4 DEF EndCombat, TypeOK
  <1>5. CASE EndRespawn
    BY <1>5 DEF EndRespawn, TypeOK
  <1>6. QED
    BY <1>1, <1>2, <1>3, <1>4, <1>5

LEMMA SimulateTypeInv ==
  ASSUME TypeInv, NEW p \in Part, Simulate(p)
  PROVE  TypeInv'
  <1> USE DEF TypeInv, SlotsKnown, connVars, objVars, history
  <1>1. ASSUME NEW s \in Sector, CopyObjects(p, s) PROVE TypeInv'
    BY <1>1 DEF CopyObjects, TypeOK
  <1>2. ASSUME NEW i \in PlayerId, SimulateStay(p, i) PROVE TypeInv'
    BY <1>2 DEF SimulateStay, PlayingIn, TypeOK, Obj
  <1>3. ASSUME NEW i \in PlayerId, NEW c \in Conn, NEW to \in Sector,
               SimulateRead(p, i, c, to)
        PROVE  TypeInv'
    <2>1. [obj |-> c, from |-> pos[c], to |-> to] \in Step
      BY DEF Step, TypeOK, Obj
    <2>2. QED
      BY <1>3, <2>1 DEF SimulateRead, TypeOK, Obj
  <1>4. CASE SimulateWrite(p)
    <2>1. cur[p] \in Step /\ cur[p].obj \in Conn /\ cur[p].to \in Sector
      BY <1>4, HeldStep DEF SimulateWrite
    <2>2. <<Migrate(id[cur[p].obj], cur[p].from, cur[p].to)>> \in Seq(Command)
      BY <1>4, HeldStep, CommandTypes DEF SimulateWrite, Id
    <2>3. outbox' \in [Part -> Seq(Command)]
      BY <1>4, <2>2, EmitType DEF SimulateWrite, TypeOK
    <2>4. pos' \in [Obj -> Sector]
      BY <1>4, <2>1 DEF SimulateWrite, TypeOK, Obj
    <2>5. QED
      BY <1>4, <2>3, <2>4 DEF SimulateWrite, TypeOK
  <1>5. ASSUME NEW n \in Npc, NEW s \in Sector, NEW blow \in Blows(p, s)
        PROVE  blow \in Seq(Command)
    <2>1. CASE blow = <<>>
      BY <2>1
    <2>2. ASSUME NEW i \in PlayerId, blow = <<Damage(i)>>
          PROVE  blow \in Seq(Command)
      BY <2>2, <1>5, CommandTypes DEF Id
    <2>3. QED
      BY <1>5, <2>1, <2>2 DEF Blows
  <1>6. ASSUME NEW n \in Npc, MonsterStay(p, n) PROVE TypeInv'
    <2>1. <<>> \in Blows(p, pos[n])
      BY DEF Blows
    <2>2. PICK blow \in Blows(p, pos[n]) : Emit(p, blow)
      BY <1>6, <2>1 DEF MonsterStay
    <2>3. blow \in Seq(Command)
      BY <1>5 DEF TypeOK, Obj
    <2>4. outbox' \in [Part -> Seq(Command)]
      BY <2>2, <2>3, EmitType DEF TypeOK
    <2>5. QED
      BY <1>6, <2>4 DEF MonsterStay, Monster, TypeOK, Obj
  <1>7. ASSUME NEW n \in Npc, NEW to \in Sector, MonsterMove(p, n, to)
        PROVE  TypeInv'
    <2>1. PICK blow \in Blows(p, to) : Emit(p, <<Migrate(n, pos[n], to)>> \o blow)
      BY <1>7 DEF MonsterMove
    <2>2. <<Migrate(n, pos[n], to)>> \in Seq(Command)
      BY CommandTypes DEF TypeOK, Obj, Id
    <2>3. <<Migrate(n, pos[n], to)>> \o blow \in Seq(Command)
      BY <1>5, <2>2
    <2>4. outbox' \in [Part -> Seq(Command)]
      BY <2>1, <2>3, EmitType DEF TypeOK
    <2>5. QED
      BY <1>7, <2>4 DEF MonsterMove, Monster, TypeOK, Obj
  <1>8. ASSUME NEW n \in Npc, MonsterArrive(p, n) PROVE TypeInv'
    BY <1>8, WorldAssumption DEF MonsterArrive, Monster, TypeOK, Obj, Id
  <1>9. QED
    BY <1>1, <1>2, <1>3, <1>4, <1>6, <1>7, <1>8 DEF Simulate

LEMMA CombatTypeInv ==
  ASSUME TypeInv,
         \/ \E n \in Npc : Strike(n) \/ RespawnNpc(n)
         \/ \E i \in PlayerId, c \in Conn : RespawnRead(i, c)
         \/ RespawnWrite
  PROVE  TypeInv'
  <1> USE DEF TypeInv, SlotsKnown, connVars, objVars, history
  <1>0. 0 \in Part
    BY WorldAssumption DEF Part
  <1>1. ASSUME NEW n \in Npc, Strike(n) PROVE TypeInv'
    <2>1. <<Damage(n)>> \in Seq(Command)
      BY CommandTypes, WorldAssumption DEF Id
    <2>2. outbox' \in [Part -> Seq(Command)]
      BY <1>0, <1>1, <2>1, EmitType DEF Strike, TypeOK
    <2>3. QED
      BY <1>1, <2>2 DEF Strike, TypeOK
  <1>2. ASSUME NEW n \in Npc, RespawnNpc(n) PROVE TypeInv'
    <2>1. <<GridAdd(n, Home[n])>> \in Seq(Command)
      BY CommandTypes, WorldAssumption DEF Id
    <2>2. outbox' \in [Part -> Seq(Command)]
      BY <1>0, <1>2, <2>1, EmitType DEF RespawnNpc, TypeOK
    <2>3. QED
      BY <1>2, <2>2, WorldAssumption DEF RespawnNpc, TypeOK, Obj
  <1>3. ASSUME NEW i \in PlayerId, NEW c \in Conn, RespawnRead(i, c)
        PROVE  TypeInv'
    <2>1. [obj |-> c, from |-> pos[c], to |-> Village] \in Step
      BY WorldAssumption DEF Step, TypeOK, Obj
    <2>2. QED
      BY <1>0, <1>3, <2>1 DEF RespawnRead, TypeOK, Obj
  <1>4. CASE RespawnWrite
    <2>1. cur[0] \in Step /\ cur[0].obj \in Conn
      BY <1>0, <1>4, HeldStep DEF RespawnWrite
    <2>2. <<Migrate(id[cur[0].obj], cur[0].from, Village)>> \in Seq(Command)
      BY <1>0, <1>4, HeldStep, CommandTypes, WorldAssumption DEF RespawnWrite, Id
    <2>3. outbox' \in [Part -> Seq(Command)]
      BY <1>0, <1>4, <2>2, EmitType DEF RespawnWrite, TypeOK
    <2>4. QED
      BY <1>0, <1>4, <2>1, <2>3, WorldAssumption DEF RespawnWrite, TypeOK, Obj
  <1>5. QED
    BY <1>1, <1>2, <1>3, <1>4

LEMMA FlushTypeInv ==
  ASSUME TypeInv, Flush
  PROVE  TypeInv'
  <1> USE DEF TypeInv, SlotsKnown, connVars, objVars, history
  <1>0. 0 \in Part
    BY WorldAssumption DEF Part
  <1>1. ASSUME NEW p \in Part, NEW i \in PlayerId, NEW k \in BOOLEAN,
               DamagePlayer(p, i, k)
        PROVE  TypeInv'
    <2>1. outbox' \in [Part -> Seq(Command)]
      BY <1>1, PopType DEF DamagePlayer, TypeOK
    <2>2. alive' \in [Obj -> BOOLEAN] /\ respawn' \subseteq Obj
      BY <1>1 DEF DamagePlayer, PlayingIn, TypeOK, Obj
    <2>3. QED
      BY <1>1, <2>1, <2>2 DEF DamagePlayer, TypeOK
  <1>2. ASSUME NEW p \in Part, NEW n \in Npc, WoundNpc(p, n) PROVE TypeInv'
    <2>1. outbox' \in [Part -> Seq(Command)]
      BY <1>2, PopType DEF WoundNpc, TypeOK
    <2>2. QED
      BY <1>2, <2>1 DEF WoundNpc, TypeOK
  <1>3. ASSUME NEW p \in Part, NEW n \in Npc, KillNpc(p, n) PROVE TypeInv'
    <2>1. outbox' \in [Part -> Seq(Command)]
      BY <1>3, PopType DEF KillNpc, TypeOK
    <2>2. n \in Id /\ n \in Obj /\ pos[n] \in Sector
      BY DEF TypeOK, Obj, Id
    <2>3. grid' \in [Sector -> SUBSET Id]
      BY <1>3, <2>2, GridType DEF KillNpc, TypeOK
    <2>4. QED
      BY <1>3, <2>1, <2>2, <2>3 DEF KillNpc, Taint, TypeOK
  <1>4. ASSUME NEW p \in Part, NEW n \in Npc, MigrateNpc(p, n) PROVE TypeInv'
    <2>1. /\ outbox' \in [Part -> Seq(Command)]
          /\ Head(outbox[p]).from \in Sector /\ Head(outbox[p]).to \in Sector
      BY <1>4, PopType, CommandFields DEF MigrateNpc, TypeOK
    <2>2. grid' \in [Sector -> SUBSET Id]
      BY <1>4, <2>1, GridType DEF MigrateNpc, TypeOK, Id
    <2>3. QED
      BY <1>4, <2>1, <2>2 DEF MigrateNpc, TypeOK, Obj
  <1>5. ASSUME NEW p \in Part, NEW i \in PlayerId, MigrateResolve(p, i)
        PROVE  TypeInv'
    <2>1. /\ outbox' \in [Part -> Seq(Command)]
          /\ Head(outbox[p]).from \in Sector /\ Head(outbox[p]).to \in Sector
      BY <1>5, PopType, CommandFields DEF MigrateResolve, TypeOK
    <2>2. cur' \in [Part -> Step \cup {Idle}]
      <3>1. CASE UNCHANGED cur
        BY <3>1 DEF TypeOK
      <3>2. ASSUME NEW c \in Conn,
                   cur' = [cur EXCEPT ![0] = [obj  |-> c,
                                              from |-> Head(outbox[p]).from,
                                              to   |-> Head(outbox[p]).to]]
            PROVE  cur' \in [Part -> Step \cup {Idle}]
        BY <1>0, <2>1, <3>2 DEF TypeOK, Step
      <3>3. QED
        BY <1>5, <3>1, <3>2 DEF MigrateResolve, PlayingIn
    <2>3. \A q \in Part : cur'[q] # Idle => pc[cur'[q].obj] # "new"
      BY <1>0, <1>5 DEF MigrateResolve, PlayingIn, Playing, TypeOK
    <2>4. QED
      BY <1>5, <2>1, <2>2, <2>3 DEF MigrateResolve, TypeOK
  <1>6. CASE MigrateApply
    <2>1. /\ cur[0].obj \in Conn /\ id[cur[0].obj] \in Id
          /\ cur[0].from \in Sector /\ cur[0].to \in Sector
      BY <1>0, <1>6, HeldStep DEF MigrateApply, Id
    <2>2. grid' \in [Sector -> SUBSET Id]
      BY <1>6, <2>1, GridType DEF MigrateApply, TypeOK
    <2>3. QED
      BY <1>0, <1>6, <2>1, <2>2 DEF MigrateApply, TypeOK, Obj
  <1>7. ASSUME NEW p \in Part, NEW n \in Npc, AddNpc(p, n) PROVE TypeInv'
    <2>1. /\ outbox' \in [Part -> Seq(Command)]
          /\ Head(outbox[p]).to \in Sector
      BY <1>7, PopType, CommandFields DEF AddNpc, TypeOK
    <2>2. grid' \in [Sector -> SUBSET Id]
      BY <1>7, <2>1, GridType DEF AddNpc, TypeOK, Id
    <2>3. QED
      BY <1>7, <2>1, <2>2 DEF AddNpc, TypeOK, Obj
  <1>8. CASE EndFlush
    BY <1>8 DEF EndFlush, TypeOK
  <1>9. QED
    BY <1>1, <1>2, <1>3, <1>4, <1>5, <1>6, <1>7, <1>8 DEF Flush

LEMMA TypeStep ==
  ASSUME TypeInv, [Next]_vars
  PROVE  TypeInv'
  <1>1. ASSUME NEW c \in Conn, Session(c) PROVE TypeInv'
    BY <1>1, SessionTypeInv
  <1>2. CASE Tick
    BY <1>2, WaveTypeInv, SimulateTypeInv, CombatTypeInv, FlushTypeInv DEF Tick
  <1>3. CASE UNCHANGED vars
    BY <1>3 DEF vars, connVars, objVars, tickVars, history,
                TypeInv, TypeOK, SlotsKnown
  <1>4. QED
    BY <1>1, <1>2, <1>3 DEF Next

(* Every behaviour of World keeps its variables in their ranges: no step   *)
(* of a session, a worker or the flush ever names a slot, an object or a   *)
(* sector that does not exist.                                             *)
THEOREM WorldTypeOK == Spec => []TypeOK
  <1>1. Init => TypeInv
    BY InitTypeInv
  <1>2. TypeInv /\ [Next]_vars => TypeInv'
    BY TypeStep
  <1>3. TypeInv => TypeOK
    BY DEF TypeInv
  <1>4. QED
    BY <1>1, <1>2, <1>3, PTL DEF Spec

-----------------------------------------------------------------------------
(* A slot and the session in it know each other.                           *)
SlotInv ==
  /\ \A i \in PlayerId : slot[i] # None =>
       id[slot[i]] = i /\ pc[slot[i]] \notin {"new", "ended"}
  /\ \A c \in Conn : pc[c] \notin {"new", "ended"} => slot[id[c]] = c

(* The owner tells a session that closes from the world from one that      *)
(* closes before its login.                                                *)
OwnerInv ==
  /\ \A c \in Conn : pc[c] \in {"new", "accepted"} => owner[c] = None
  /\ \A c \in Conn : pc[c] = "in" => owner[c] # None
  /\ \A p \in Part : cur[p] # Idle =>
       /\ pc[cur[p].obj] # "accepted"
       /\ pc[cur[p].obj] = "closing" => owner[cur[p].obj] # None

(* The membership commands about i in the outboxes ob, and that there is   *)
(* at most one.                                                            *)
About(m, i) == m.target = i /\ m.type # "Damage"

PendIn(ob, i) ==
  {m \in Command : About(m, i) /\ \E p \in Part : \E k \in DOMAIN ob[p] : m = ob[p][k]}

OnceIn(ob, i) ==
  \A p, q \in Part : \A k \in DOMAIN ob[p], l \in DOMAIN ob[q] :
    About(ob[p][k], i) /\ About(ob[q][l], i) => p = q /\ k = l

Pend(i) == PendIn(outbox, i)
AtMostOne(i) == OnceIn(outbox, i)

(* What exists in which phase.                                             *)
PhaseInv ==
  /\ phase \notin {"simulate", "ai"} => \A p \in Part : todo[p] = {} /\ batch[p] = {}
  /\ phase # "simulate" => \A p \in Part, i \in PlayerId : i \notin batch[p]
  /\ \A p \in Part : cur[p] # Idle =>
       phase = "simulate" \/ (p = 0 /\ phase \in {"flush", "respawn", "flush2"})
  /\ phase \in {"idle", "ai", "combat"} => \A i \in PlayerId : Pend(i) = {}
  /\ phase = "simulate" =>
       \A p \in Part : /\ left \cap todo[p] = {}
                       /\ \A q \in Part : p # q => todo[p] \cap todo[q] = {}

Entered(c) == pc[c] \in {"added", "in"} \/ (pc[c] = "closing" /\ owner[c] # None)
Present(i) == slot[i] # None /\ Entered(slot[i])

(* Something in the tick stands for i.                                     *)
Busy(i) == Pend(i) # {} \/ Held(i) # {} \/ \E p \in Part : i \in batch[p]

(* At most one token stands for i, and only while its session is there.    *)
TokenInv(i) ==
  /\ \A p \in Part : i \in batch[p] =>
       /\ Present(i) /\ Held(i) = {} /\ Pend(i) = {}
       /\ \A q \in Part : i \in batch[q] => p = q
  /\ \A p \in Held(i) :
       /\ cur[p].obj = slot[i] /\ pc[slot[i]] = "in" /\ Pend(i) = {}
       /\ \A q \in Held(i) : p = q
  /\ Pend(i) # {} => slot[i] # None /\ pc[slot[i]] = "in" /\ AtMostOne(i)
  /\ phase = "simulate" /\ Busy(i) =>
       \A s \in Where(i), p \in Part : s \notin left /\ s \notin todo[p]
  /\ phase = "respawn" /\ Busy(i) => slot[i] \notin respawn

(* Where i is registered, as its token knows it.                           *)
Flushes == {"flush", "flush2"}

PlaceInv(i) ==
  /\ ~Present(i) => Where(i) = {}
  /\ Present(i) /\ Pend(i) = {} /\ (phase \in Flushes => Held(i) = {}) =>
       Where(i) = {pos[slot[i]]}
  /\ \A m \in Pend(i) :
       m.type = "Migrate" /\ Where(i) = {m.from} /\ pos[slot[i]] = m.to
  /\ \A p \in Held(i) :
       IF phase \in Flushes
       THEN Where(i) = {cur[p].from} /\ pos[slot[i]] = cur[p].to
       ELSE cur[p].from = pos[slot[i]]

PlayerInv(i) == TokenInv(i) /\ PlaceInv(i)

MemberInv ==
  /\ TypeInv /\ SlotInv /\ OwnerInv /\ PhaseInv
  /\ \A i \in PlayerId \ tainted : PlayerInv(i)

-----------------------------------------------------------------------------
(* An outbox after Emit and Pop, seen from one id.                         *)

Outboxes == [Part -> Seq(Command)]

LEMMA PendIsRecorded ==
  ASSUME outbox \in Outboxes, NEW i
  PROVE  /\ Pend(i) = {} <=> Recorded(i) = {}
         /\ {outbox[x[1]][x[2]].from : x \in Recorded(i)} = {m.from : m \in Pend(i)}
  <1>1. \A x \in Recorded(i) : outbox[x[1]][x[2]] \in Pend(i)
    <2> SUFFICES ASSUME NEW x \in Recorded(i) PROVE outbox[x[1]][x[2]] \in Pend(i)
      OBVIOUS
    <2>1. PICK p \in Part : x \in {p} \X DOMAIN outbox[p]
      BY DEF Recorded
    <2>2. x[1] = p /\ x[2] \in DOMAIN outbox[p]
      BY <2>1
    <2>3. outbox[p][x[2]] \in Command
      BY <2>2 DEF Outboxes
    <2>4. QED
      BY <2>2, <2>3 DEF Recorded, Pend, PendIn, About
  <1>2. \A m \in Pend(i) : \E x \in Recorded(i) : m = outbox[x[1]][x[2]]
    <2> SUFFICES ASSUME NEW m \in Pend(i)
                 PROVE  \E x \in Recorded(i) : m = outbox[x[1]][x[2]]
      OBVIOUS
    <2>1. PICK p \in Part : \E k \in DOMAIN outbox[p] : m = outbox[p][k]
      BY DEF Pend, PendIn
    <2>2. PICK k \in DOMAIN outbox[p] : m = outbox[p][k]
      BY <2>1
    <2>3. <<p, k>> \in Recorded(i)
      BY <2>2 DEF Pend, PendIn, About, Recorded
    <2>4. QED
      BY <2>2, <2>3
  <1>3. QED
    BY <1>1, <1>2

(* The command was about somebody else: i sees no difference.              *)
Kept(ob, ob2, i) == PendIn(ob2, i) = PendIn(ob, i) /\ (OnceIn(ob, i) => OnceIn(ob2, i))

Appended(ob, p, cmds, ob2) ==
  /\ ob2 \in Outboxes
  /\ \A q \in Part : q # p => ob2[q] = ob[q]
  /\ \A k \in DOMAIN ob[p] : k \in DOMAIN ob2[p] /\ ob2[p][k] = ob[p][k]
  /\ \A k \in DOMAIN ob2[p] : k \notin DOMAIN ob[p] =>
       \E l \in DOMAIN cmds : k = Len(ob[p]) + l /\ ob2[p][k] = cmds[l]
  /\ \A l \in DOMAIN cmds : Len(ob[p]) + l \in DOMAIN ob2[p]
                            /\ ob2[p][Len(ob[p]) + l] = cmds[l]

LEMMA AppendedParts ==
  ASSUME NEW ob \in Outboxes, NEW p \in Part, NEW cmds \in Seq(Command),
         NEW ob2, ob2 = [ob EXCEPT ![p] = @ \o cmds]
  PROVE  Appended(ob, p, cmds, ob2)
  <1>1. ob2 \in Outboxes /\ ob2[p] = ob[p] \o cmds
    BY DEF Outboxes
  <1>2. ob[p] \in Seq(Command)
    BY DEF Outboxes
  <1>3. ASSUME NEW k \in DOMAIN ob2[p], k \notin DOMAIN ob[p]
        PROVE  \E l \in DOMAIN cmds : k = Len(ob[p]) + l /\ ob2[p][k] = cmds[l]
    <2>1. /\ k - Len(ob[p]) \in DOMAIN cmds
          /\ k = Len(ob[p]) + (k - Len(ob[p]))
          /\ ob2[p][k] = cmds[k - Len(ob[p])]
      BY <1>1, <1>2, <1>3
    <2>2. QED
      BY <2>1
  <1>4. \A k \in DOMAIN ob[p] : k \in DOMAIN ob2[p] /\ ob2[p][k] = ob[p][k]
    BY <1>1, <1>2
  <1>5. \A l \in DOMAIN cmds : Len(ob[p]) + l \in DOMAIN ob2[p]
                               /\ ob2[p][Len(ob[p]) + l] = cmds[l]
    BY <1>1, <1>2
  <1>6. \A q \in Part : q # p => ob2[q] = ob[q]
    BY DEF Outboxes
  <1>7. QED
    BY <1>1, <1>3, <1>4, <1>5, <1>6 DEF Appended

LEMMA AppendOther ==
  ASSUME NEW ob \in Outboxes, NEW p \in Part, NEW cmds \in Seq(Command),
         NEW ob2, ob2 = [ob EXCEPT ![p] = @ \o cmds], NEW i,
         \A k \in DOMAIN cmds : ~About(cmds[k], i)
  PROVE  Kept(ob, ob2, i)
  <1>0. Appended(ob, p, cmds, ob2)
    BY AppendedParts
  <1>1. PendIn(ob2, i) = PendIn(ob, i)
    <2>1. ASSUME NEW m \in PendIn(ob, i) PROVE m \in PendIn(ob2, i)
      <3>1. PICK q \in Part : \E k \in DOMAIN ob[q] : m = ob[q][k]
        BY DEF PendIn
      <3>2. PICK k \in DOMAIN ob[q] : m = ob[q][k]
        BY <3>1
      <3>3. \E l \in DOMAIN ob2[q] : m = ob2[q][l]
        BY <3>2, <1>0 DEF Appended, PendIn
      <3>4. QED
        BY <3>3 DEF PendIn
    <2>2. ASSUME NEW m \in PendIn(ob2, i) PROVE m \in PendIn(ob, i)
      <3>1. PICK q \in Part : \E k \in DOMAIN ob2[q] : m = ob2[q][k]
        BY DEF PendIn
      <3>2. PICK k \in DOMAIN ob2[q] : m = ob2[q][k]
        BY <3>1
      <3>3. \E l \in DOMAIN ob[q] : m = ob[q][l]
        BY <3>2, <1>0 DEF Appended, PendIn
      <3>4. QED
        BY <3>3 DEF PendIn
    <2>3. QED
      BY <2>1, <2>2
  <1>2. ASSUME OnceIn(ob, i), NEW q \in Part, NEW r \in Part,
               NEW k \in DOMAIN ob2[q], NEW l \in DOMAIN ob2[r],
               About(ob2[q][k], i), About(ob2[r][l], i)
        PROVE  q = r /\ k = l
    <2>1. k \in DOMAIN ob[q] /\ ob2[q][k] = ob[q][k]
      BY <1>2, <1>0 DEF Appended
    <2>2. l \in DOMAIN ob[r] /\ ob2[r][l] = ob[r][l]
      BY <1>2, <1>0 DEF Appended
    <2>3. QED
      BY <1>2, <2>1, <2>2 DEF OnceIn
  <1>3. QED
    BY <1>1, <1>2 DEF Kept, OnceIn

(* Of the commands appended, only the first is about i.                    *)
LEMMA AppendFirst ==
  ASSUME NEW ob \in Outboxes, NEW p \in Part, NEW cmds,
         NEW ob2, Appended(ob, p, cmds, ob2), NEW m \in Command, NEW i,
         1 \in DOMAIN cmds, cmds[1] = m, \A l \in DOMAIN cmds : About(cmds[l], i) => l = 1,
         About(m, i), PendIn(ob, i) = {}
  PROVE  PendIn(ob2, i) = {m} /\ OnceIn(ob2, i)
  <1>1. \A q \in Part : \A k \in DOMAIN ob[q] : ~About(ob[q][k], i)
    BY DEF PendIn, Outboxes
  <1>2. \A q \in Part : \A k \in DOMAIN ob2[q] :
          About(ob2[q][k], i) => q = p /\ k = Len(ob[p]) + 1 /\ ob2[q][k] = m
    <2> SUFFICES ASSUME NEW q \in Part, NEW k \in DOMAIN ob2[q], About(ob2[q][k], i)
                 PROVE  q = p /\ k = Len(ob[p]) + 1 /\ ob2[q][k] = m
      OBVIOUS
    <2>1. q = p /\ k \notin DOMAIN ob[p]
      BY <1>1 DEF Appended
    <2>2. PICK l \in DOMAIN cmds : k = Len(ob[p]) + l /\ ob2[p][k] = cmds[l]
      BY <2>1 DEF Appended
    <2>3. l = 1
      BY <2>1, <2>2
    <2>4. QED
      BY <2>1, <2>2, <2>3
  <1>3. Len(ob[p]) + 1 \in DOMAIN ob2[p] /\ ob2[p][Len(ob[p]) + 1] = m
    BY DEF Appended
  <1>4. PendIn(ob2, i) = {m}
    <2>1. m \in PendIn(ob2, i)
      BY <1>3 DEF PendIn
    <2>2. \A x \in PendIn(ob2, i) : x = m
      BY <1>2 DEF PendIn
    <2>3. QED
      BY <2>1, <2>2
  <1>5. OnceIn(ob2, i)
    BY <1>2 DEF OnceIn
  <1>6. QED
    BY <1>4, <1>5

LEMMA TailParts ==
  ASSUME NEW S, NEW s \in Seq(S), s # <<>>
  PROVE  /\ \A k \in DOMAIN s : k # 1 =>
              k - 1 \in DOMAIN Tail(s) /\ Tail(s)[k - 1] = s[k]
         /\ \A k \in DOMAIN Tail(s) :
              k \in Nat /\ k + 1 \in DOMAIN s /\ Tail(s)[k] = s[k + 1] /\ k + 1 # 1
  <1>1. /\ Len(s) \in Nat /\ DOMAIN s = 1 .. Len(s) /\ Len(s) # 0
        /\ DOMAIN Tail(s) = 1 .. Len(s) - 1
    OBVIOUS
  <1>2. \A k \in 1 .. Len(s) - 1 : Tail(s)[k] = s[k + 1]
    OBVIOUS
  <1>3. ASSUME NEW k \in DOMAIN s, k # 1
        PROVE  k - 1 \in DOMAIN Tail(s) /\ Tail(s)[k - 1] = s[k]
    <2>1. k - 1 \in 1 .. Len(s) - 1 /\ (k - 1) + 1 = k
      BY <1>1, <1>3
    <2>2. QED
      BY <1>1, <1>2, <2>1
  <1>4. ASSUME NEW k \in DOMAIN Tail(s)
        PROVE  k \in Nat /\ k + 1 \in DOMAIN s /\ Tail(s)[k] = s[k + 1] /\ k + 1 # 1
    <2>1. k \in Nat /\ k + 1 \in 1 .. Len(s) /\ k + 1 # 1
      BY <1>1, <1>4
    <2>2. QED
      BY <1>1, <1>2, <1>4, <2>1
  <1>5. QED
    BY <1>3, <1>4

Popped(ob, p, ob2) ==
  /\ ob2 \in Outboxes /\ Head(ob[p]) \in Command
  /\ 1 \in DOMAIN ob[p] /\ ob[p][1] = Head(ob[p])
  /\ \A q \in Part : q # p => ob2[q] = ob[q]
  /\ \A k \in DOMAIN ob[p] : k # 1 =>
       k - 1 \in DOMAIN ob2[p] /\ ob2[p][k - 1] = ob[p][k]
  /\ \A k \in DOMAIN ob2[p] :
       k \in Nat /\ k + 1 \in DOMAIN ob[p] /\ ob2[p][k] = ob[p][k + 1] /\ k + 1 # 1

LEMMA PoppedParts ==
  ASSUME NEW ob \in Outboxes, NEW p \in Part, ob[p] # <<>>,
         NEW ob2, ob2 = [ob EXCEPT ![p] = Tail(@)]
  PROVE  Popped(ob, p, ob2)
  <1>1. ob2 \in Outboxes /\ ob2[p] = Tail(ob[p])
    BY DEF Outboxes
  <1>2. ob[p] \in Seq(Command)
    BY DEF Outboxes
  <1>3. \A q \in Part : q # p => ob2[q] = ob[q]
    BY DEF Outboxes
  <1>4. Head(ob[p]) \in Command /\ 1 \in DOMAIN ob[p] /\ ob[p][1] = Head(ob[p])
    BY <1>2
  <1>5. /\ \A k \in DOMAIN ob[p] : k # 1 =>
             k - 1 \in DOMAIN Tail(ob[p]) /\ Tail(ob[p])[k - 1] = ob[p][k]
        /\ \A k \in DOMAIN Tail(ob[p]) :
             k \in Nat /\ k + 1 \in DOMAIN ob[p] /\ Tail(ob[p])[k] = ob[p][k + 1] /\ k + 1 # 1
    BY <1>2, TailParts
  <1>6. QED
    BY <1>1, <1>3, <1>4, <1>5 DEF Popped

LEMMA PopOther ==
  ASSUME NEW ob \in Outboxes, NEW p \in Part, ob[p] # <<>>,
         NEW ob2, ob2 = [ob EXCEPT ![p] = Tail(@)], NEW i,
         ~About(Head(ob[p]), i)
  PROVE  Kept(ob, ob2, i)
  <1>0. Popped(ob, p, ob2)
    BY PoppedParts
  <1>1. PendIn(ob2, i) = PendIn(ob, i)
    <2>1. ASSUME NEW m \in PendIn(ob, i) PROVE m \in PendIn(ob2, i)
      <3>1. PICK q \in Part : \E k \in DOMAIN ob[q] : m = ob[q][k]
        BY DEF PendIn
      <3>2. PICK k \in DOMAIN ob[q] : m = ob[q][k]
        BY <3>1
      <3>3. \E l \in DOMAIN ob2[q] : m = ob2[q][l]
        <4>1. CASE q = p
          <5>1. k # 1
            <6>1. About(m, i)
              BY DEF PendIn
            <6>2. m # Head(ob[p])
              BY <6>1 DEF About
            <6>3. QED
              BY <3>2, <4>1, <6>2, <1>0 DEF Popped
          <5>2. k - 1 \in DOMAIN ob2[q] /\ ob2[q][k - 1] = m
            BY <3>2, <4>1, <5>1, <1>0 DEF Popped
          <5>3. QED
            BY <5>2
        <4>2. CASE q # p
          BY <3>2, <4>2, <1>0 DEF Popped
        <4>3. QED
          BY <4>1, <4>2
      <3>4. QED
        BY <3>3 DEF PendIn
    <2>2. ASSUME NEW m \in PendIn(ob2, i) PROVE m \in PendIn(ob, i)
      <3>1. PICK q \in Part : \E k \in DOMAIN ob2[q] : m = ob2[q][k]
        BY DEF PendIn
      <3>2. PICK k \in DOMAIN ob2[q] : m = ob2[q][k]
        BY <3>1
      <3>3. \E l \in DOMAIN ob[q] : m = ob[q][l]
        BY <3>2, <1>0 DEF Popped, PendIn
      <3>4. QED
        BY <3>3 DEF PendIn
    <2>3. QED
      BY <2>1, <2>2
  <1>2. ASSUME OnceIn(ob, i), NEW q \in Part, NEW r \in Part,
               NEW k \in DOMAIN ob2[q], NEW l \in DOMAIN ob2[r],
               About(ob2[q][k], i), About(ob2[r][l], i)
        PROVE  q = r /\ k = l
    <2> DEFINE Was(t, j) == IF t = p THEN j + 1 ELSE j
    <2>1. Was(q, k) \in DOMAIN ob[q] /\ ob2[q][k] = ob[q][Was(q, k)]
      <3>1. CASE q = p
        BY <3>1, <1>0 DEF Popped
      <3>2. CASE q # p
        BY <3>2, <1>0 DEF Popped
      <3>3. QED
        BY <3>1, <3>2
    <2>2. Was(r, l) \in DOMAIN ob[r] /\ ob2[r][l] = ob[r][Was(r, l)]
      <3>1. CASE r = p
        BY <3>1, <1>0 DEF Popped
      <3>2. CASE r # p
        BY <3>2, <1>0 DEF Popped
      <3>3. QED
        BY <3>1, <3>2
    <2>3. q = r /\ Was(q, k) = Was(r, l)
      BY <1>2, <2>1, <2>2 DEF OnceIn
    <2>4. k \in Nat /\ l \in Nat
      BY <1>0 DEF Popped, Outboxes
    <2>5. QED
      BY <2>3, <2>4
  <1>3. QED
    BY <1>1, <1>2 DEF Kept, OnceIn

LEMMA PopLast ==
  ASSUME NEW ob \in Outboxes, NEW p \in Part, ob[p] # <<>>,
         NEW ob2, ob2 = [ob EXCEPT ![p] = Tail(@)], NEW i,
         About(Head(ob[p]), i), OnceIn(ob, i)
  PROVE  PendIn(ob, i) = {Head(ob[p])} /\ PendIn(ob2, i) = {}
  <1>0. Popped(ob, p, ob2)
    BY PoppedParts
  <1>1. \A q \in Part : \A k \in DOMAIN ob[q] : About(ob[q][k], i) => q = p /\ k = 1
    BY <1>0 DEF Popped, OnceIn
  <1>2. PendIn(ob, i) = {Head(ob[p])}
    BY <1>1, <1>0 DEF Popped, PendIn
  <1>3. ASSUME NEW m \in PendIn(ob2, i) PROVE FALSE
    <2>1. PICK q \in Part : \E k \in DOMAIN ob2[q] : m = ob2[q][k]
      BY DEF PendIn
    <2>2. PICK k \in DOMAIN ob2[q] : m = ob2[q][k]
      BY <2>1
    <2>3. About(m, i)
      BY DEF PendIn
    <2>4. CASE q = p
      <3>1. k + 1 \in DOMAIN ob[p] /\ m = ob[p][k + 1] /\ k + 1 # 1
        BY <2>2, <2>4, <1>0 DEF Popped
      <3>2. QED
        BY <1>1, <2>3, <3>1
    <2>5. CASE q # p
      BY <1>1, <2>2, <2>3, <2>5, <1>0 DEF Popped
    <2>6. QED
      BY <2>4, <2>5
  <1>4. QED
    BY <1>2, <1>3

LEMMA BusyIsInFlight ==
  ASSUME outbox \in Outboxes, NEW i
  PROVE  Busy(i) <=> InFlight(i)
  BY PendIsRecorded DEF Busy, InFlight

(* A step that leaves, dies or goes on with i in flight taints it.         *)
LEMMA TaintBusy ==
  ASSUME outbox \in Outboxes, NEW j, Taint(j), NEW i, i \notin tainted'
  PROVE  i \notin tainted /\ (i = j => ~Busy(i))
  BY BusyIsInFlight DEF Taint

-----------------------------------------------------------------------------
(* The grid after Added, Removed and Moved, seen from one id.              *)
LEMMA WhereAdded ==
  ASSUME grid \in [Sector -> SUBSET Id], NEW j, NEW s \in Sector,
         grid' = Added(grid, j, s), NEW i
  PROVE  Where(i)' = IF i = j THEN Where(i) \cup {s} ELSE Where(i)
  BY DEF Added, Where

LEMMA WhereRemoved ==
  ASSUME grid \in [Sector -> SUBSET Id], NEW j, NEW s \in Sector,
         grid' = Removed(grid, j, s), NEW i
  PROVE  Where(i)' = IF i = j THEN Where(i) \ {s} ELSE Where(i)
  BY DEF Removed, Where

LEMMA WhereMoved ==
  ASSUME grid \in [Sector -> SUBSET Id], NEW j, NEW a \in Sector, NEW b \in Sector,
         grid' = Moved(grid, j, a, b), NEW i
  PROVE  /\ i # j => Where(i)' = Where(i)
         /\ i = j /\ Where(i) = {a} => Where(i)' = {b}
  BY DEF Moved, Added, Removed, Where

-----------------------------------------------------------------------------
(* The parts of the invariant that are not about one id.                   *)

LEMMA InitMember == Init => MemberInv
  <1> SUFFICES ASSUME Init PROVE MemberInv
    OBVIOUS
  <1>1. TypeInv
    BY InitTypeInv
  <1>2. SlotInv /\ OwnerInv
    BY WorldAssumption DEF Init, SlotInv, OwnerInv, Obj
  <1>3. \A i : Pend(i) = {}
    BY DEF Init, Pend, PendIn
  <1>4. PhaseInv
    BY <1>3 DEF Init, PhaseInv
  <1>5. ASSUME NEW i \in PlayerId PROVE PlayerInv(i)
    <2>1. Held(i) = {} /\ slot[i] = None /\ \A p \in Part : i \notin batch[p]
      BY DEF Init, Held, Idle
    <2>2. Where(i) = {}
      BY WorldAssumption DEF Init, Where
    <2>3. QED
      BY <1>3, <2>1, <2>2 DEF PlayerInv, TokenInv, PlaceInv, Present, Busy
  <1>6. QED
    BY <1>1, <1>2, <1>4, <1>5 DEF MemberInv

LEMMA TickKeepsConn ==
  ASSUME Tick
  PROVE  UNCHANGED connVars
  BY DEF Tick, TickStart, RunWave, EndParallel, Simulate, CopyObjects, SimulateStay,
         SimulateRead, SimulateWrite, MonsterStay, MonsterMove, MonsterArrive, Strike,
         EndCombat, RespawnNpc, RespawnRead, RespawnWrite, EndRespawn, Flush,
         DamagePlayer, WoundNpc, KillNpc, MigrateNpc, MigrateResolve, MigrateApply,
         AddNpc, EndFlush

LEMMA SlotStep ==
  ASSUME TypeInv, SlotInv, Next
  PROVE  SlotInv'
  <1>1. CASE Tick
    BY <1>1, TickKeepsConn DEF SlotInv, connVars
  <1>2. ASSUME NEW c \in Conn, Session(c) PROVE SlotInv'
    <2> USE WorldAssumption DEF TypeInv, TypeOK, SlotsKnown, SlotInv
    <2>1. ASSUME NEW i \in PlayerId, Accept(c, i) PROVE SlotInv'
      BY <2>1 DEF Accept
    <2>2. ASSUME NEW s \in LoginSpot, LoginPlaying(c, s) PROVE SlotInv'
      BY <2>2 DEF LoginPlaying
    <2>3. CASE LoginAdd(c)
      BY <2>3 DEF LoginAdd
    <2>4. CASE LoginOwn(c)
      BY <2>4 DEF LoginOwn
    <2>5. CASE Disconnect(c)
      BY <2>5 DEF Disconnect
    <2>6. CASE CleanupGrid(c)
      BY <2>6 DEF CleanupGrid
    <2>7. CASE Release(c)
      BY <2>7 DEF Release
    <2>8. QED
      BY <1>2, <2>1, <2>2, <2>3, <2>4, <2>5, <2>6, <2>7 DEF Session
  <1>3. QED
    BY <1>1, <1>2 DEF Next

(* The steps of the tick that touch neither owner nor cur, and the rest.   *)
Owning ==
  \/ \E p \in Part, i \in PlayerId, c \in Conn, to \in Sector : SimulateRead(p, i, c, to)
  \/ \E p \in Part : SimulateWrite(p)
  \/ \E i \in PlayerId, c \in Conn : RespawnRead(i, c)
  \/ RespawnWrite
  \/ \E p \in Part, n \in Npc : KillNpc(p, n) \/ MigrateNpc(p, n) \/ AddNpc(p, n)
  \/ \E p \in Part, i \in PlayerId : MigrateResolve(p, i)
  \/ MigrateApply

LEMMA TickOwns ==
  ASSUME Tick
  PROVE  Owning \/ UNCHANGED <<owner, cur>>
  BY DEF Tick, TickStart, RunWave, EndParallel, Simulate, CopyObjects, SimulateStay,
         MonsterStay, MonsterMove, MonsterArrive, Strike, EndCombat, RespawnNpc,
         EndRespawn, Flush, DamagePlayer, WoundNpc, EndFlush, objVars, Owning

LEMMA OwnerStep ==
  ASSUME TypeInv, TypeInv', OwnerInv, Next
  PROVE  OwnerInv'
  <1>0. 0 \in Part /\ Idle \notin Step
    BY WorldAssumption, IdleIsNoStep DEF Part
  <1>1. ASSUME NEW c \in Conn, Session(c) PROVE OwnerInv'
    <2> USE WorldAssumption DEF TypeInv, TypeOK, SlotsKnown, OwnerInv, tickVars, objVars
    <2>0. cur' = cur /\ \A p \in Part : cur[p] # Idle => cur[p].obj \in Conn
      BY <1>1, HeldStep DEF Session, Accept, LoginPlaying, LoginAdd, LoginOwn,
         Disconnect, CleanupGrid, Release
    <2>1. ASSUME NEW i \in PlayerId, Accept(c, i) PROVE OwnerInv'
      BY <2>0, <2>1 DEF Accept
    <2>2. ASSUME NEW s \in LoginSpot, LoginPlaying(c, s) PROVE OwnerInv'
      BY <2>0, <2>2 DEF LoginPlaying
    <2>3. CASE LoginAdd(c)
      BY <2>0, <2>3 DEF LoginAdd
    <2>4. CASE LoginOwn(c)
      BY <2>0, <2>4 DEF LoginOwn, Obj
    <2>5. CASE Disconnect(c)
      BY <2>0, <2>5 DEF Disconnect
    <2>6. CASE CleanupGrid(c)
      BY <2>0, <2>6 DEF CleanupGrid, Obj
    <2>7. CASE Release(c)
      BY <2>0, <2>7 DEF Release
    <2>8. QED
      BY <1>1, <2>1, <2>2, <2>3, <2>4, <2>5, <2>6, <2>7 DEF Session
  <1>2. CASE Tick
    <2>0. pc' = pc /\ slot' = slot /\ id' = id
      BY <1>2, TickKeepsConn DEF connVars
    <2>1. CASE UNCHANGED <<owner, cur>>
      BY <2>0, <2>1 DEF OwnerInv
    <2> USE DEF TypeInv, TypeOK, objVars
    <2>2. ASSUME NEW p \in Part, NEW i \in PlayerId, NEW c \in Conn, NEW to \in Sector,
                 SimulateRead(p, i, c, to)
          PROVE  OwnerInv'
      BY <2>0, <2>2 DEF SimulateRead, OwnerInv
    <2>3. ASSUME NEW p \in Part, SimulateWrite(p) PROVE OwnerInv'
      BY <2>0, <2>3 DEF SimulateWrite, OwnerInv
    <2>4. ASSUME NEW i \in PlayerId, NEW c \in Conn, RespawnRead(i, c) PROVE OwnerInv'
      BY <1>0, <2>0, <2>4 DEF RespawnRead, OwnerInv
    <2>5. CASE RespawnWrite
      BY <1>0, <2>0, <2>5 DEF RespawnWrite, OwnerInv
    <2>6. ASSUME NEW p \in Part, NEW n \in Npc,
                 KillNpc(p, n) \/ MigrateNpc(p, n) \/ AddNpc(p, n)
          PROVE  OwnerInv'
      <3>1. cur' = cur /\ \A c \in Conn : owner'[c] = owner[c]
        BY <2>6, WorldAssumption DEF KillNpc, MigrateNpc, AddNpc, Obj
      <3>2. \A q \in Part : cur[q] # Idle => cur[q].obj \in Conn
        BY HeldStep
      <3>3. QED
        BY <2>0, <3>1, <3>2 DEF OwnerInv
    <2>7. ASSUME NEW p \in Part, NEW i \in PlayerId, MigrateResolve(p, i) PROVE OwnerInv'
      <3>1. owner' = owner
        BY <2>7 DEF MigrateResolve
      <3>2. CASE cur' = cur
        BY <2>0, <3>1, <3>2 DEF OwnerInv
      <3>3. ASSUME NEW c \in PlayingIn(i), NEW x, NEW y,
                   cur' = [cur EXCEPT ![0] = [obj |-> c, from |-> x, to |-> y]]
            PROVE  OwnerInv'
        <4>1. pc[c] # "accepted" /\ pc[c] # "closing"
          BY DEF PlayingIn, Playing
        <4>2. \A q \in Part : cur'[q] = cur[q] \/ cur'[q].obj = c
          BY <1>0, <3>3
        <4>3. QED
          BY <2>0, <3>1, <4>1, <4>2 DEF OwnerInv
      <3>4. QED
        BY <2>7, <3>2, <3>3 DEF MigrateResolve
    <2>8. CASE MigrateApply
      <3>1. cur[0] \in Step /\ cur[0].obj \in Conn /\ cur[0].to \in Sector
        BY <1>0, <2>8, HeldStep DEF MigrateApply
      <3>2. owner' = [owner EXCEPT ![cur[0].obj] = cur[0].to] /\ cur[0].to # None
        BY <2>8, <3>1, WorldAssumption DEF MigrateApply
      <3>3. \A q \in Part : cur'[q] = Idle \/ cur'[q] = cur[q]
        BY <1>0, <2>8 DEF MigrateApply
      <3>4. pc[cur[0].obj] \notin {"new", "accepted"}
        BY <1>0, <2>8, HeldStep DEF MigrateApply, OwnerInv, SlotsKnown
      <3>5. \A q \in Part : cur[q] # Idle => cur[q].obj \in Conn
        BY HeldStep
      <3>6. QED
        BY <2>0, <3>1, <3>2, <3>3, <3>4, <3>5 DEF OwnerInv, Obj
    <2>9. QED
      BY <1>2, <2>1, <2>2, <2>3, <2>4, <2>5, <2>6, <2>7, <2>8, TickOwns DEF Owning
  <1>3. QED
    BY <1>1, <1>2 DEF Next

(* A monster records nothing about others but blows, and nothing about     *)
(* itself as long as it stays in its sector.                               *)
LEMMA MonsterEmits ==
  ASSUME TypeInv, NEW p \in Part, NEW n \in Npc, NEW i,
         MonsterStay(p, n) \/ (i # n /\ \E to \in Sector : MonsterMove(p, n, to))
  PROVE  Kept(outbox, outbox', i)
  <1>0. outbox \in Outboxes
    BY DEF TypeInv, TypeOK, Outboxes
  <1>1. ASSUME NEW s \in Sector, NEW blow \in Blows(p, s)
        PROVE  blow \in Seq(Command) /\ \A k \in DOMAIN blow : ~About(blow[k], i)
    <2>1. CASE blow = <<>>
      BY <2>1
    <2>2. ASSUME NEW j \in PlayerId, blow = <<Damage(j)>>
          PROVE  blow \in Seq(Command) /\ \A k \in DOMAIN blow : ~About(blow[k], i)
      BY <2>2, CommandTypes, WorldAssumption DEF Id, Damage, About
    <2>3. QED
      BY <1>1, <2>1, <2>2 DEF Blows
  <1>2. CASE MonsterStay(p, n)
    <2>1. <<>> \in Blows(p, pos[n]) /\ pos[n] \in Sector
      BY DEF Blows, TypeInv, TypeOK, Obj
    <2>2. PICK blow \in Blows(p, pos[n]) : Emit(p, blow)
      BY <1>2, <2>1 DEF MonsterStay
    <2>3. QED
      BY <1>0, <1>1, <2>1, <2>2, AppendOther DEF Emit
  <1>3. ASSUME i # n, NEW to \in Sector, MonsterMove(p, n, to)
        PROVE  Kept(outbox, outbox', i)
    <2>1. PICK blow \in Blows(p, to) : Emit(p, <<Migrate(n, pos[n], to)>> \o blow)
      BY <1>3 DEF MonsterMove
    <2>2. Migrate(n, pos[n], to) \in Command /\ ~About(Migrate(n, pos[n], to), i)
      BY <1>3, CommandTypes DEF TypeInv, TypeOK, Obj, Id, Migrate, About
    <2>3. blow \in Seq(Command) /\ \A k \in DOMAIN blow : ~About(blow[k], i)
      BY <1>1
    <2> DEFINE cmds == <<Migrate(n, pos[n], to)>> \o blow
    <2>4. cmds \in Seq(Command) /\ \A k \in DOMAIN cmds : ~About(cmds[k], i)
      <3>1. cmds \in Seq(Command)
        BY <2>2, <2>3
      <3>2. \A k \in DOMAIN cmds :
              cmds[k] = Migrate(n, pos[n], to) \/ \E l \in DOMAIN blow : cmds[k] = blow[l]
        <4> SUFFICES ASSUME NEW k \in DOMAIN cmds, k # 1
                     PROVE  \E l \in DOMAIN blow : cmds[k] = blow[l]
          BY <2>2, <2>3
        <4>1. k - 1 \in DOMAIN blow /\ cmds[k] = blow[k - 1]
          BY <2>2, <2>3
        <4>2. QED
          BY <4>1
      <3>3. QED
        BY <2>2, <2>3, <3>1, <3>2
    <2>5. QED
      BY <1>0, <2>1, <2>4, AppendOther DEF Emit
  <1>4. QED
    BY <1>2, <1>3

LEMMA PhaseStep ==
  ASSUME TypeInv, PhaseInv, Next
  PROVE  PhaseInv'
  <1>0. 0 \in Part
    BY WorldAssumption DEF Part
  <1>a. outbox \in Outboxes
    BY DEF TypeInv, TypeOK, Outboxes
  <1>b. outbox' = outbox => \A i : Pend(i)' = Pend(i)
    BY DEF Pend
  <1>1. ASSUME NEW c \in Conn, Session(c) PROVE PhaseInv'
    <2>1. UNCHANGED tickVars
      BY <1>1 DEF Session, Accept, LoginPlaying, LoginAdd, LoginOwn,
         Disconnect, CleanupGrid, Release
    <2>2. QED
      BY <1>b, <2>1 DEF tickVars, PhaseInv
  <1> USE DEF TypeInv, TypeOK, PhaseInv
  <1>2. CASE TickStart
    BY <1>b, <1>2 DEF TickStart
  <1>3. CASE RunWave
    <2>1. PICK S \in SUBSET left : left' = left \ S /\ todo' \in Strides(S)
      <3>1. PICK w \in 0 .. 3 : left' = left \ {s \in left : Wave[s] = w}
                              /\ todo' \in Strides({s \in left : Wave[s] = w})
        BY <1>3 DEF RunWave
      <3>2. QED
        BY <3>1
    <2>2. \A p \in Part : /\ todo'[p] \subseteq S
                          /\ \A q \in Part : p # q => todo'[p] \cap todo'[q] = {}
      BY <2>1 DEF Strides
    <2>3. QED
      BY <1>b, <1>3, <2>1, <2>2 DEF RunWave
  <1>4. CASE EndParallel
    BY <1>b, <1>4 DEF EndParallel, Joined
  <1>5. ASSUME NEW p \in Part, NEW s \in Sector, CopyObjects(p, s) PROVE PhaseInv'
    BY <1>b, <1>5, WorldAssumption DEF CopyObjects
  <1>6. ASSUME NEW p \in Part, NEW i \in PlayerId, SimulateStay(p, i) PROVE PhaseInv'
    BY <1>b, <1>6 DEF SimulateStay
  <1>7. CASE \E p \in Part, i \in PlayerId, c \in Conn, to \in Sector :
               SimulateRead(p, i, c, to)
    <2>1. phase' = "simulate" /\ left' = left /\ todo' = todo /\ phase = "simulate"
      BY <1>7 DEF SimulateRead
    <2>2. QED
      BY <2>1
  <1>8. ASSUME NEW p \in Part, SimulateWrite(p) PROVE PhaseInv'
    BY <1>8 DEF SimulateWrite
  <1>9. ASSUME NEW p \in Part, NEW n \in Npc,
               MonsterStay(p, n) \/ \E to \in Sector : MonsterMove(p, n, to)
        PROVE  PhaseInv'
    <2>1. ASSUME NEW i \in PlayerId PROVE Pend(i)' = Pend(i)
      <3>1. i # n
        BY WorldAssumption
      <3>2. Kept(outbox, outbox', i)
        BY <1>9, <3>1, MonsterEmits
      <3>3. QED
        BY <3>2 DEF Kept, Pend
    <2>2. /\ phase = "ai" /\ phase' = phase /\ cur' = cur
          /\ batch' = [batch EXCEPT ![p] = @ \ {n}]
      BY <1>9 DEF MonsterStay, MonsterMove, Monster
    <2>3. QED
      BY <2>1, <2>2
  <1>10. ASSUME NEW p \in Part, NEW n \in Npc, MonsterArrive(p, n) PROVE PhaseInv'
    BY <1>b, <1>10 DEF MonsterArrive, Monster
  <1>11. ASSUME NEW n \in Npc, Strike(n) PROVE PhaseInv'
    <2>1. ASSUME NEW i \in PlayerId PROVE Pend(i)' = Pend(i)
      <3>1. /\ <<Damage(n)>> \in Seq(Command)
            /\ \A k \in DOMAIN <<Damage(n)>> : ~About(<<Damage(n)>>[k], i)
        BY CommandTypes, WorldAssumption DEF Id, Damage, About
      <3>2. Kept(outbox, outbox', i)
        BY <1>0, <1>a, <1>11, <3>1, AppendOther DEF Strike, Emit
      <3>3. QED
        BY <3>2 DEF Kept, Pend
    <2>2. QED
      BY <1>11, <2>1 DEF Strike
  <1>12. CASE EndCombat
    BY <1>b, <1>12 DEF EndCombat
  <1>13. ASSUME NEW n \in Npc, RespawnNpc(n) PROVE PhaseInv'
    BY <1>13 DEF RespawnNpc
  <1>14. ASSUME NEW i \in PlayerId, NEW c \in Conn, RespawnRead(i, c) PROVE PhaseInv'
    BY <1>14 DEF RespawnRead
  <1>15. CASE RespawnWrite
    BY <1>15 DEF RespawnWrite
  <1>16. CASE EndRespawn
    BY <1>16 DEF EndRespawn
  <1>17. CASE Flush /\ ~EndFlush
    <2>1. /\ phase \in {"flush", "flush2"} /\ phase' = phase
          /\ todo' = todo /\ batch' = batch
          /\ \A q \in Part : q # 0 => cur'[q] = cur[q]
      BY <1>0, <1>17 DEF Flush, Flushing, DamagePlayer, WoundNpc, KillNpc, MigrateNpc,
         MigrateResolve, MigrateApply, AddNpc, objVars
    <2>2. QED
      BY <2>1
  <1>18. CASE EndFlush
    <2>1. \A i : Pend(i)' = {}
      BY <1>18 DEF EndFlush, Pend, PendIn
    <2>2. QED
      BY <1>18, <2>1 DEF EndFlush, Flushing
  <1>19. QED
    BY <1>1, <1>2, <1>3, <1>4, <1>5, <1>6, <1>7, <1>8, <1>9, <1>10, <1>11, <1>12,
       <1>13, <1>14, <1>15, <1>16, <1>17, <1>18 DEF Next, Tick, Simulate

-----------------------------------------------------------------------------
(* The part about one id.                                                  *)

LEMMA BusyIsPresent ==
  ASSUME NEW i, PlayerInv(i), Busy(i)
  PROVE  Present(i)
  <1>1. ASSUME NEW p \in Held(i) PROVE slot[i] # None /\ pc[slot[i]] = "in"
    BY DEF PlayerInv, TokenInv, Held
  <1>2. QED
    BY <1>1 DEF PlayerInv, TokenInv, Busy, Present, Entered

(* An id for which nothing stands is where its session is.                 *)
LEMMA IdleIsInPlace ==
  ASSUME NEW i, PlayerInv(i), ~Busy(i)
  PROVE  Where(i) = IF Present(i) THEN {pos[slot[i]]} ELSE {}
  BY DEF PlayerInv, PlaceInv, Busy

LEMMA InPlaceIsIdle ==
  ASSUME NEW i, ~Busy(i)', Where(i)' = IF Present(i)' THEN {pos'[slot'[i]]} ELSE {}
  PROVE  PlayerInv(i)'
  BY DEF PlayerInv, PlaceInv, TokenInv, Busy

(* A step that concerns others: i, its session, its place and its token    *)
(* are what they were.                                                     *)
Undisturbed(i) ==
  /\ phase' = phase
  /\ slot'[i] = slot[i]
  /\ slot[i] # None => /\ pc[slot[i]] = "in" => pc'[slot[i]] = "in"
                       /\ pos'[slot[i]] = pos[slot[i]]
  /\ Present(i)' <=> Present(i)
  /\ Where(i)' = Where(i)
  /\ Kept(outbox, outbox', i)
  /\ Held(i)' = Held(i)
  /\ \A p \in Held(i) : cur'[p] = cur[p]
  /\ \A p \in Part : i \in batch'[p] => i \in batch[p]
  /\ \A s \in Sector : (s \in left' \/ \E p \in Part : s \in todo'[p]) =>
                       (s \in left \/ \E p \in Part : s \in todo[p])
  /\ respawn' \cap Conn \subseteq respawn \/ phase # "respawn"

LEMMA Frame ==
  ASSUME TypeInv, NEW i \in PlayerId, PlayerInv(i), Undisturbed(i)
  PROVE  PlayerInv(i)'
  <1>1. /\ Pend(i)' = Pend(i) /\ (AtMostOne(i) => AtMostOne(i)')
        /\ Where(i)' = Where(i) /\ Held(i)' = Held(i)
    BY DEF Undisturbed, Kept, Pend, AtMostOne
  <1>2. Present(i)' <=> Present(i)
    BY DEF Undisturbed
  <1>3. Busy(i)' => Busy(i)
    BY <1>1 DEF Busy, Undisturbed
  <1>4. \A s \in Where(i) : s \in Sector
    BY DEF Where
  <1>5. slot[i] # None => slot[i] \in Conn
    BY DEF TypeInv, TypeOK
  <1>6. Busy(i) => slot[i] # None
    BY BusyIsPresent DEF Present
  <1>7. TokenInv(i)'
    <2>1. \A p \in Part : i \in batch'[p] =>
            /\ Present(i)' /\ Held(i)' = {} /\ Pend(i)' = {}
            /\ \A q \in Part : i \in batch'[q] => p = q
      BY <1>1, <1>2 DEF PlayerInv, TokenInv, Undisturbed
    <2>2. \A p \in Held(i)' :
            /\ cur'[p].obj = slot'[i] /\ pc'[slot'[i]] = "in" /\ Pend(i)' = {}
            /\ \A q \in Held(i)' : p = q
      BY <1>1, <1>6 DEF PlayerInv, TokenInv, Undisturbed, Busy
    <2>3. Pend(i)' # {} => slot'[i] # None /\ pc'[slot'[i]] = "in" /\ AtMostOne(i)'
      BY <1>1 DEF PlayerInv, TokenInv, Undisturbed
    <2>4. phase' = "simulate" /\ Busy(i)' =>
            \A s \in Where(i)', p \in Part : s \notin left' /\ s \notin todo'[p]
      BY <1>1, <1>3, <1>4 DEF PlayerInv, TokenInv, Undisturbed
    <2>5. phase' = "respawn" /\ Busy(i)' => slot'[i] \notin respawn'
      BY <1>3, <1>5, <1>6 DEF PlayerInv, TokenInv, Undisturbed
    <2>6. QED
      BY <2>1, <2>2, <2>3, <2>4, <2>5 DEF TokenInv
  <1>8. PlaceInv(i)'
    <2>1. ~Present(i)' => Where(i)' = {}
      BY <1>1, <1>2 DEF PlayerInv, PlaceInv
    <2>2. Present(i)' /\ Pend(i)' = {} /\ (phase' \in Flushes => Held(i)' = {}) =>
            Where(i)' = {pos'[slot'[i]]}
      BY <1>1, <1>2 DEF PlayerInv, PlaceInv, Undisturbed, Present
    <2>3. \A m \in Pend(i)' :
            m.type = "Migrate" /\ Where(i)' = {m.from} /\ pos'[slot'[i]] = m.to
      BY <1>1, <1>6 DEF PlayerInv, PlaceInv, Undisturbed, Busy
    <2>4. \A p \in Held(i)' :
            IF phase' \in Flushes
            THEN Where(i)' = {cur'[p].from} /\ pos'[slot'[i]] = cur'[p].to
            ELSE cur'[p].from = pos'[slot'[i]]
      BY <1>1, <1>6 DEF PlayerInv, PlaceInv, Undisturbed, Busy
    <2>5. QED
      BY <2>1, <2>2, <2>3, <2>4 DEF PlaceInv, Flushes
  <1>9. QED
    BY <1>7, <1>8 DEF PlayerInv

LEMMA SessionPlayer ==
  ASSUME MemberInv, NEW c \in Conn, Session(c), NEW i \in PlayerId, i \notin tainted'
  PROVE  PlayerInv(i)'
  <1> USE DEF MemberInv
  <1>1. /\ UNCHANGED tickVars /\ UNCHANGED respawn
        /\ i \notin tainted /\ PlayerInv(i) /\ outbox \in Outboxes
    <2>1. UNCHANGED tickVars /\ UNCHANGED respawn /\ tainted \subseteq tainted'
      BY DEF Session, Accept, LoginPlaying, LoginAdd, LoginOwn,
         Disconnect, CleanupGrid, Release, objVars, history, Taint
    <2>2. QED
      BY <2>1 DEF TypeInv, TypeOK, Outboxes
  <1>2. /\ Kept(outbox, outbox', i) /\ Pend(i)' = Pend(i)
        /\ \A p \in Part : cur'[p] = cur[p] /\ batch'[p] = batch[p] /\ todo'[p] = todo[p]
        /\ phase' = phase /\ left' = left
    BY <1>1 DEF tickVars, Kept, Pend
  <1>3. Held(i)' = Held(i)
    <2>1. CASE id' = id
      BY <1>1, <2>1 DEF tickVars, Held
    <2>2. ASSUME NEW j \in PlayerId, Accept(c, j) PROVE Held(i)' = Held(i)
      <3>1. \A p \in Part : cur[p] # Idle => cur[p].obj \in Conn /\ cur[p].obj # c
        BY <2>2, HeldStep DEF Accept, TypeInv, SlotsKnown
      <3>2. \A p \in Part : cur[p] = Idle => cur[p].obj = None
        BY DEF Idle
      <3>3. QED
        BY <1>2, <2>2, <3>1, <3>2 DEF Accept, Held, TypeInv, TypeOK
    <2>3. QED
      BY <2>1, <2>2 DEF Session, LoginPlaying, LoginAdd, LoginOwn,
         Disconnect, CleanupGrid, Release
  <1>4. Busy(i)' <=> Busy(i)
    BY <1>2, <1>3 DEF Busy
  <1>5. /\ slot[i] # None => slot[i] \in Conn /\ id[slot[i]] = i
        /\ pc[c] \notin {"new", "ended"} => slot[id[c]] = c /\ id[c] \in PlayerId
    BY DEF SlotInv, TypeInv, TypeOK, SlotsKnown
  (* Nothing changes for i but its session's progress.                     *)
  <1>6. ASSUME slot'[i] = slot[i], Where(i)' = Where(i), Present(i)' <=> Present(i),
               slot[i] # None => /\ pc[slot[i]] = "in" => pc'[slot[i]] = "in"
                                 /\ pos'[slot[i]] = pos[slot[i]]
        PROVE  PlayerInv(i)'
    <2>1. \A s \in Sector : (s \in left' \/ \E p \in Part : s \in todo'[p]) =>
                            (s \in left \/ \E p \in Part : s \in todo[p])
      BY <1>2
    <2>a. respawn' \cap Conn \subseteq respawn
      BY <1>1
    <2>b. /\ \A p \in Held(i) : cur'[p] = cur[p]
          /\ \A p \in Part : i \in batch'[p] => i \in batch[p]
      BY <1>2 DEF Held
    <2>2. Undisturbed(i)
      BY <1>2, <1>3, <1>6, <2>1, <2>a, <2>b DEF Undisturbed
    <2>3. QED
      BY <1>1, <2>2, Frame
  <1>7. ASSUME ~Busy(i), Where(i)' = IF Present(i)' THEN {pos'[slot'[i]]} ELSE {}
        PROVE  PlayerInv(i)'
    BY <1>4, <1>7, InPlaceIsIdle
  <1>8. ~Present(i) => ~Busy(i) /\ Where(i) = {}
    BY <1>1, BusyIsPresent DEF PlayerInv, PlaceInv
  <1> USE DEF TypeInv, TypeOK
  <1>9. ASSUME NEW j \in PlayerId, Accept(c, j) PROVE PlayerInv(i)'
    <2>1. Where(i)' = Where(i)
      BY <1>9 DEF Accept, objVars, Where
    <2>2. CASE i = j
      <3>1. ~Present(i) /\ ~Present(i)'
        BY <1>9, <2>2 DEF Accept, Present, Entered
      <3>2. QED
        BY <1>7, <1>8, <2>1, <3>1
    <2>3. CASE i # j
      <3>1. slot'[i] = slot[i] /\ slot[i] # c
        BY <1>5, <1>9, <2>3, WorldAssumption DEF Accept, SlotInv
      <3>2. slot[i] # None => /\ pc'[slot[i]] = pc[slot[i]]
                              /\ owner'[slot[i]] = owner[slot[i]]
                              /\ pos'[slot[i]] = pos[slot[i]]
        BY <1>5, <1>9, <3>1 DEF Accept, objVars
      <3>3. QED
        BY <1>6, <2>1, <3>1, <3>2 DEF Present, Entered
    <2>4. QED
      BY <2>2, <2>3
  (* The later steps concern the slot of c.                                *)
  <1>10. ASSUME pc[c] \notin {"new", "ended"}, i # id[c], slot'[i] = slot[i],
                \A d \in Conn \ {c} : /\ pc'[d] = pc[d] /\ owner'[d] = owner[d]
                                      /\ pos'[d] = pos[d],
                Where(i)' = Where(i)
         PROVE  PlayerInv(i)'
    <2>1. slot[i] # None => slot[i] \in Conn \ {c}
      BY <1>5, <1>10
    <2>2. Present(i)' <=> Present(i)
      BY <1>10, <2>1 DEF Present, Entered
    <2>3. QED
      BY <1>6, <1>10, <2>1, <2>2
  <1>11. ASSUME NEW s \in LoginSpot, LoginPlaying(c, s) PROVE PlayerInv(i)'
    <2>1. Where(i)' = Where(i) /\ slot'[i] = slot[i]
      BY <1>11 DEF LoginPlaying, Where
    <2>2. CASE i = id[c]
      <3>1. slot[i] = c /\ ~Present(i) /\ ~Present(i)'
        BY <1>5, <1>11, <2>1, <2>2 DEF LoginPlaying, Present, Entered
      <3>2. QED
        BY <1>7, <1>8, <2>1, <3>1
    <2>3. QED
      BY <1>10, <1>11, <2>1, <2>2 DEF LoginPlaying
  <1>12. CASE LoginAdd(c)
    <2>1. Where(i)' = IF i = id[c] THEN Where(i) \cup {pos[c]} ELSE Where(i)
      BY <1>12, WhereAdded DEF LoginAdd, Obj
    <2>2. CASE i = id[c]
      <3>1. slot[i] = c /\ ~Present(i) /\ Present(i)' /\ pos' = pos /\ slot' = slot
        BY <1>5, <1>12, <2>2, WorldAssumption DEF LoginAdd, Present, Entered
      <3>2. QED
        BY <1>7, <1>8, <2>1, <2>2, <3>1
    <2>3. QED
      BY <1>10, <1>12, <2>1, <2>2 DEF LoginAdd
  <1>13. CASE LoginOwn(c)
    <2>1. Where(i)' = Where(i) /\ slot'[i] = slot[i] /\ pos' = pos
      BY <1>13 DEF LoginOwn, Where
    <2>2. CASE i = id[c]
      <3>1. slot[i] = c /\ Present(i) /\ Present(i)' /\ pc'[c] = "in"
        BY <1>5, <1>13, <2>1, <2>2, WorldAssumption DEF LoginOwn, Present, Entered
      <3>2. QED
        BY <1>6, <2>1, <3>1
    <2>3. QED
      BY <1>10, <1>13, <2>1, <2>2 DEF LoginOwn
  <1>14. CASE Disconnect(c)
    <2>1. Where(i)' = Where(i) /\ slot'[i] = slot[i] /\ pos' = pos
      BY <1>14 DEF Disconnect, objVars, Where
    <2>2. CASE i = id[c]
      <3>1. ~Busy(i)
        BY <1>1, <1>14, <2>2, TaintBusy DEF Disconnect
      <3>2. slot[i] = c /\ (Present(i)' <=> Present(i))
        BY <1>5, <1>14, <2>1, <2>2, WorldAssumption
        DEF Disconnect, Present, Entered, OwnerInv, objVars
      <3>3. QED
        BY <1>1, <1>7, <2>1, <3>1, <3>2, IdleIsInPlace
    <2>3. QED
      BY <1>10, <1>14, <2>1, <2>2 DEF Disconnect, objVars
  <1>15. CASE CleanupGrid(c)
    <2>1. Where(i)' = IF i = id[c] THEN Where(i) \ {pos[c]} ELSE Where(i)
      BY <1>15, WhereRemoved DEF CleanupGrid, Obj
    <2>2. CASE i = id[c]
      <3>1. ~Busy(i)
        BY <1>1, <1>15, <2>2, TaintBusy DEF CleanupGrid
      <3>2. slot[i] = c /\ ~Present(i)'
        BY <1>5, <1>15, <2>2 DEF CleanupGrid, Present, Entered
      <3>3. Where(i)' = {}
        BY <1>1, <2>1, <2>2, <3>1, <3>2, IdleIsInPlace
      <3>4. QED
        BY <1>7, <3>1, <3>2, <3>3
    <2>3. QED
      BY <1>10, <1>15, <2>1, <2>2 DEF CleanupGrid, Obj
  <1>16. CASE Release(c)
    <2>1. Where(i)' = Where(i)
      BY <1>16 DEF Release, objVars, Where
    <2>2. CASE i = id[c]
      <3>1. slot[i] = c /\ ~Present(i) /\ ~Present(i)'
        BY <1>5, <1>16, <2>2 DEF Release, Present, Entered
      <3>2. QED
        BY <1>7, <1>8, <2>1, <3>1
    <2>3. QED
      BY <1>10, <1>16, <2>1, <2>2 DEF Release, objVars
  <1>17. QED
    BY <1>9, <1>11, <1>12, <1>13, <1>14, <1>15, <1>16 DEF Session

(* A step of the tick that concerns others.                                *)
Elsewhere(i) ==
  /\ phase' = phase
  /\ slot[i] # None => owner'[slot[i]] = owner[slot[i]] /\ pos'[slot[i]] = pos[slot[i]]
  /\ Where(i)' = Where(i)
  /\ Kept(outbox, outbox', i)
  /\ \A p \in Part : p \in Held(i)' <=> p \in Held(i)
  /\ \A p \in Held(i) : cur'[p] = cur[p]
  /\ \A p \in Part : i \in batch'[p] => i \in batch[p]
  /\ \A s \in Sector : (s \in left' \/ \E p \in Part : s \in todo'[p]) =>
                       (s \in left \/ \E p \in Part : s \in todo[p])
  /\ respawn' \cap Conn \subseteq respawn \/ phase # "respawn"

LEMMA TickFrame ==
  ASSUME MemberInv, Tick, NEW i \in PlayerId, i \notin tainted, Elsewhere(i)
  PROVE  PlayerInv(i)'
  <1>1. pc' = pc /\ slot' = slot
    BY TickKeepsConn DEF connVars
  <1>2. Held(i)' = Held(i)
    BY DEF Elsewhere, Held
  <1>3. Present(i)' <=> Present(i)
    BY <1>1 DEF Elsewhere, Present, Entered
  <1>4. Undisturbed(i)
    <2>1. slot'[i] = slot[i] /\ (slot[i] # None => /\ pc[slot[i]] = "in" => pc'[slot[i]] = "in"
                                                   /\ pos'[slot[i]] = pos[slot[i]])
      BY <1>1 DEF Elsewhere
    <2>2. QED
      BY <1>2, <1>3, <2>1 DEF Undisturbed, Elsewhere
  <1>5. QED
    BY <1>4, Frame DEF MemberInv

(* Nothing stands for i outside the phases.                                *)
LEMMA PhaseFrame ==
  ASSUME MemberInv, Tick, NEW i \in PlayerId, i \notin tainted,
         UNCHANGED <<objVars, batch, cur, outbox>>,
         Held(i) = {}, \A p \in Part : i \notin batch[p],
         phase' \notin {"simulate", "respawn"} \/ Pend(i) = {}
  PROVE  PlayerInv(i)'
  <1>1. pc' = pc /\ slot' = slot /\ id' = id /\ pos' = pos /\ owner' = owner
    BY TickKeepsConn DEF connVars, objVars
  <1>2. /\ Held(i)' = {} /\ Pend(i)' = Pend(i) /\ (AtMostOne(i)' <=> AtMostOne(i))
        /\ Where(i)' = Where(i) /\ \A p \in Part : i \notin batch'[p]
    BY <1>1 DEF Held, Pend, AtMostOne, Where, objVars
  <1>3. Present(i)' <=> Present(i)
    BY <1>1 DEF Present, Entered
  <1>4. PlayerInv(i)
    BY DEF MemberInv
  <1>5. TokenInv(i)'
    BY <1>1, <1>2, <1>4 DEF PlayerInv, TokenInv, Busy
  <1>6. PlaceInv(i)'
    BY <1>1, <1>2, <1>3, <1>4 DEF PlayerInv, PlaceInv
  <1>7. QED
    BY <1>5, <1>6 DEF PlayerInv

LEMMA WavePlayer ==
  ASSUME MemberInv, TypeInv', NEW i \in PlayerId, i \notin tainted,
         \/ TickStart \/ RunWave \/ EndParallel \/ EndCombat \/ EndRespawn \/ EndFlush
  PROVE  PlayerInv(i)'
  <1>0. Tick /\ 0 \in Part
    BY WorldAssumption DEF Tick, Flush, Part
  <1>1. \A p \in Part : cur[p] = Idle => p \notin Held(i)
    BY DEF Held, Idle
  <1> USE DEF MemberInv, TypeInv, TypeOK
  <1>2. CASE TickStart
    <2>1. Held(i) = {} /\ Pend(i) = {} /\ \A p \in Part : i \notin batch[p]
      BY <1>1, <1>2 DEF TickStart, PhaseInv, Held
    <2>2. QED
      BY <1>0, <1>2, <2>1, PhaseFrame DEF TickStart
  <1>3. CASE RunWave
    <2>1. /\ UNCHANGED <<phase, objVars, batch, cur, outbox, id>>
          /\ left' \subseteq left /\ \A p \in Part : todo'[p] \subseteq left
      <3>1. PICK w \in 0 .. 3 : left' = left \ {s \in left : Wave[s] = w}
                              /\ todo' \in Strides({s \in left : Wave[s] = w})
        BY <1>3 DEF RunWave
      <3>2. QED
        BY <1>3, <3>1 DEF RunWave, Strides, connVars
    <2>2. /\ Where(i)' = Where(i) /\ Held(i)' = Held(i) /\ Kept(outbox, outbox', i)
      BY <2>1 DEF Where, Held, Kept, objVars
    <2>3. Elsewhere(i)
      BY <2>1, <2>2 DEF Elsewhere, objVars
    <2>4. QED
      BY <1>0, <2>3, TickFrame
  <1>4. CASE EndParallel
    <2>1. Held(i) = {} /\ \A p \in Part : i \notin batch[p]
      BY <1>1, <1>4 DEF EndParallel, Joined, Held
    <2>2. QED
      BY <1>0, <1>4, <2>1, PhaseFrame DEF EndParallel
  <1>5. CASE EndCombat
    <2>1. Held(i) = {} /\ Pend(i) = {} /\ \A p \in Part : i \notin batch[p]
      BY <1>1, <1>5 DEF EndCombat, PhaseInv, Held
    <2>2. QED
      BY <1>0, <1>5, <2>1, PhaseFrame DEF EndCombat
  <1>6. CASE EndRespawn
    <2>1. Held(i) = {} /\ \A p \in Part : i \notin batch[p]
      BY <1>1, <1>6 DEF EndRespawn, PhaseInv, Held
    <2>2. QED
      BY <1>0, <1>6, <2>1, PhaseFrame DEF EndRespawn
  <1>7. CASE EndFlush
    <2>1. Held(i) = {} /\ \A p \in Part : i \notin batch[p]
      BY <1>1, <1>7 DEF EndFlush, Flushing, PhaseInv, Held
    <2>2. QED
      BY <1>0, <1>7, <2>1, PhaseFrame DEF EndFlush, Flushing
  <1>8. QED
    BY <1>2, <1>3, <1>4, <1>5, <1>6, <1>7

LEMMA CopyPlayer ==
  ASSUME MemberInv, NEW p \in Part, NEW s \in Sector, CopyObjects(p, s),
         NEW i \in PlayerId, i \notin tainted
  PROVE  PlayerInv(i)'
  <1> USE DEF MemberInv, TypeInv, TypeOK
  <1>0. Tick
    BY DEF Tick, Simulate
  <1>1. /\ pc' = pc /\ slot' = slot /\ id' = id /\ UNCHANGED objVars
        /\ phase' = phase /\ left' = left /\ cur' = cur /\ outbox' = outbox
        /\ todo' = [todo EXCEPT ![p] = @ \ {s}] /\ s \in todo[p]
        /\ \A q \in Part : q # p => batch'[q] = batch[q]
        /\ batch[p] = {}
    BY DEF CopyObjects, connVars
  <1>2. /\ Where(i)' = Where(i) /\ Held(i)' = Held(i) /\ Pend(i)' = Pend(i)
        /\ Kept(outbox, outbox', i)
    BY <1>1 DEF Where, Held, Pend, Kept, objVars
  <1>3. CASE i \notin batch'[p]
    <2>1. Elsewhere(i)
      <3>1. \A t \in Sector : (t \in left' \/ \E q \in Part : t \in todo'[q]) =>
                              (t \in left \/ \E q \in Part : t \in todo[q])
        BY <1>1
      <3>2. QED
        BY <1>1, <1>2, <1>3, <3>1 DEF Elsewhere, objVars
    <2>2. QED
      BY <1>0, <2>1, TickFrame
  <1>4. CASE i \in batch'[p]
    <2>1. phase = "simulate" /\ i \in grid[s]
      BY <1>4, WorldAssumption DEF CopyObjects
    <2>2. s \in Where(i)
      BY <2>1 DEF Where
    <2>3. ~Busy(i)
      BY <1>1, <2>1, <2>2 DEF PlayerInv, TokenInv
    <2>4. Present(i) /\ Where(i) = {pos[slot[i]]} /\ Where(i) = {s}
      BY <2>2, <2>3, IdleIsInPlace
    <2>5. Present(i)' /\ pos' = pos
      BY <1>1, <2>4 DEF Present, Entered, objVars
    <2>6. \A q \in Part : s \notin left' /\ s \notin todo'[q]
      BY <1>1, <2>1 DEF PhaseInv
    <2>a. \A q \in Part : i \in batch'[q] => p = q
      BY <1>1, <2>3 DEF Busy
    <2>7. Held(i)' = {} /\ Pend(i)' = {}
      BY <1>2, <2>3 DEF Busy
    <2>8. phase' = "simulate"
      BY <1>1, <2>1
    <2>9. TokenInv(i)'
      <3>1. ASSUME NEW q \in Part, NEW r \in Part, i \in batch'[q], i \in batch'[r]
            PROVE  q = r
        <4>1. p = q
          BY <2>a, <3>1
        <4>2. p = r
          BY <2>a, <3>1
        <4>3. QED
          BY <4>1, <4>2
      <3>2. ASSUME NEW t \in Where(i)', NEW q \in Part
            PROVE  t \notin left' /\ t \notin todo'[q]
        <4>1. t = s
          BY <1>2, <2>4
        <4>2. QED
          BY <2>6, <4>1
      <3>3. QED
        BY <2>5, <2>7, <2>8, <3>1, <3>2 DEF TokenInv
    <2>10. PlaceInv(i)'
      BY <1>1, <1>2, <2>4, <2>5, <2>7 DEF PlaceInv
    <2>11. QED
      BY <2>9, <2>10 DEF PlayerInv
  <1>5. QED
    BY <1>3, <1>4

(* A worker takes up a step of the session in slot j.                      *)
LEMMA TakeUp ==
  ASSUME MemberInv, Tick, NEW p \in Part, NEW j \in PlayerId, NEW c \in Conn, NEW to \in Sector,
         slot[j] = c, pc[c] = "in", cur[p] = Idle,
         cur' = [cur EXCEPT ![p] = [obj |-> c, from |-> pos[c], to |-> to]],
         UNCHANGED <<pos, owner, grid, phase, left, todo, outbox>>,
         phase \in {"simulate", "respawn"},
         j \notin tainted => /\ Pend(j) = {} /\ Held(j) = {}
                             /\ \A q \in Part : j \notin batch'[q]
                             /\ phase = "simulate" => Busy(j),
         phase = "respawn" => c \notin respawn' /\ respawn' \subseteq respawn,
         NEW i \in PlayerId, i \notin tainted,
         \A q \in Part : i \in batch'[q] => i \in batch[q]
  PROVE  PlayerInv(i)'
  <1> USE DEF MemberInv, TypeInv, TypeOK
  <1>1. pc' = pc /\ slot' = slot /\ id' = id
    BY TickKeepsConn DEF connVars
  <1>2. Where(i)' = Where(i) /\ Pend(i)' = Pend(i) /\ Kept(outbox, outbox', i)
    BY DEF Where, Pend, Kept
  <1>3. id[c] = j /\ c # None
    BY WorldAssumption DEF SlotInv
  <1>4. \A q \in Part : q # p => cur'[q] = cur[q]
    OBVIOUS
  <1>5. cur'[p] = [obj |-> c, from |-> pos[c], to |-> to]
    OBVIOUS
  <1>6. p \notin Held(i)
    BY DEF Held, Idle
  <1>7. CASE i # j
    <2>1. \A q \in Part : q \in Held(i)' <=> q \in Held(i)
      BY <1>1, <1>3, <1>4, <1>5, <1>6, <1>7 DEF Held
    <2>2. \A q \in Held(i) : cur'[q] = cur[q]
      BY <1>4, <1>6 DEF Held
    <2>3. respawn' \cap Conn \subseteq respawn \/ phase # "respawn"
      OBVIOUS
    <2>4. Elsewhere(i)
      BY <1>2, <2>1, <2>2, <2>3 DEF Elsewhere
    <2>5. QED
      BY <2>4, TickFrame
  <1>8. CASE i = j
    <2>1. Held(i)' = {p} /\ Pend(i)' = {} /\ \A q \in Part : i \notin batch'[q]
      BY <1>1, <1>2, <1>3, <1>4, <1>5, <1>8 DEF Held
    <2>2. Present(i) /\ Present(i)'
      BY <1>1, <1>3, <1>8 DEF Present, Entered
    <2>3. Where(i) = {pos[c]}
      BY <1>8, <2>2 DEF PlayerInv, PlaceInv, Flushes
    <2>4. TokenInv(i)'
      <3>1. cur'[p].obj = slot'[i] /\ pc'[slot'[i]] = "in"
        BY <1>1, <1>5, <1>8
      <3>2. phase' = "simulate" =>
              \A s \in Where(i)', q \in Part : s \notin left' /\ s \notin todo'[q]
        BY <1>2, <1>8 DEF PlayerInv, TokenInv
      <3>3. phase' = "respawn" => slot'[i] \notin respawn'
        BY <1>1, <1>8
      <3>4. QED
        BY <2>1, <3>1, <3>2, <3>3 DEF TokenInv
    <2>5. PlaceInv(i)'
      BY <1>1, <1>2, <1>5, <1>8, <2>1, <2>2, <2>3 DEF PlaceInv, Flushes
    <2>6. QED
      BY <2>4, <2>5 DEF PlayerInv
  <1>9. QED
    BY <1>7, <1>8

(* A worker, or the tick thread, stores a step and records its migration.  *)
LEMMA PutDown ==
  ASSUME MemberInv, Tick, NEW p \in Part, cur[p] # Idle, NEW to \in Sector,
         cur' = [cur EXCEPT ![p] = Idle],
         pos' = [pos EXCEPT ![cur[p].obj] = to],
         Emit(p, <<Migrate(id[cur[p].obj], cur[p].from, to)>>),
         UNCHANGED <<owner, respawn, grid, phase, left, todo, batch>>,
         phase \in {"simulate", "respawn"},
         NEW i \in PlayerId, i \notin tainted
  PROVE  PlayerInv(i)'
  <1> USE DEF MemberInv, TypeInv, TypeOK
  <1>1. pc' = pc /\ slot' = slot /\ id' = id
    BY TickKeepsConn DEF connVars
  <1>2. Where(i)' = Where(i)
    BY DEF Where
  <1> DEFINE c == cur[p].obj
             m == Migrate(id[c], cur[p].from, to)
  <1>3. c \in Conn /\ c # None /\ id[c] \in PlayerId /\ cur[p].from \in Sector
    BY HeldStep, WorldAssumption
  <1>4. m \in Command /\ m.target = id[c] /\ m.type = "Migrate"
        /\ m.from = cur[p].from /\ m.to = to
    BY <1>3, CommandTypes DEF Migrate, Id
  <1>5. outbox \in Outboxes /\ outbox' = [outbox EXCEPT ![p] = @ \o <<m>>]
    BY DEF Outboxes, Emit
  <1>6. \A q \in Part : (q # p => cur'[q] = cur[q]) /\ cur'[p] = Idle
    OBVIOUS
  <1>7. p \notin Held(i)'
    BY <1>6 DEF Held, Idle
  <1>8. CASE i # id[c]
    <2>1. p \notin Held(i)
      BY <1>8 DEF Held
    <2>2. \A q \in Part : q \in Held(i)' <=> q \in Held(i)
      BY <1>1, <1>6, <1>7, <2>1 DEF Held
    <2>3. \A q \in Held(i) : cur'[q] = cur[q]
      BY <1>6, <2>1 DEF Held
    <2>4. Kept(outbox, outbox', i)
      <3>1. <<m>> \in Seq(Command) /\ \A k \in DOMAIN <<m>> : ~About(<<m>>[k], i)
        BY <1>4, <1>8 DEF About
      <3>2. QED
        BY <1>5, <3>1, AppendOther
    <2>5. slot[i] # None => pos'[slot[i]] = pos[slot[i]]
      BY <1>3, <1>8 DEF SlotInv, Obj
    <2>6. Elsewhere(i)
      BY <1>2, <2>2, <2>3, <2>4, <2>5 DEF Elsewhere
    <2>7. QED
      BY <2>6, TickFrame
  <1>9. CASE i = id[c]
    <2>1. p \in Held(i)
      BY <1>3, <1>9 DEF Held
    <2>2. /\ c = slot[i] /\ pc[c] = "in" /\ Pend(i) = {} /\ Held(i) = {p} /\ Busy(i)
          /\ \A q \in Part : i \notin batch[q]
      BY <2>1 DEF PlayerInv, TokenInv, Busy, Held
    <2>3. Present(i) /\ Present(i)'
      BY <1>1, <1>3, <2>2 DEF Present, Entered
    <2>4. Where(i) = {pos[c]} /\ cur[p].from = pos[c]
      BY <2>1, <2>2, <2>3 DEF PlayerInv, PlaceInv, Flushes
    <2>5. About(m, i)
      BY <1>4, <1>9 DEF About
    <2>6. Pend(i)' = {m} /\ AtMostOne(i)'
      <3>1. PendIn(outbox, i) = {}
        BY <2>2 DEF Pend
      <3> HIDE DEF m, MemberInv, TypeInv, TypeOK
      <3>2. PendIn(outbox', i) = {m} /\ OnceIn(outbox', i)
        <4>1. PICK x \in Command : x = m
          BY <1>4
        <4>a. <<x>> \in Seq(Command)
          OBVIOUS
        <4>2. PICK cmds \in Seq(Command) : cmds = <<x>>
          BY <4>a
        <4>3. /\ 1 \in DOMAIN cmds /\ cmds[1] = x
              /\ \A l \in DOMAIN cmds : About(cmds[l], i) => l = 1
          BY <4>2
        <4>4. Appended(outbox, p, cmds, outbox')
          BY <1>5, <4>1, <4>2, AppendedParts
        <4>b. About(x, i)
          BY <2>5, <4>1
        <4>5. PendIn(outbox', i) = {x} /\ OnceIn(outbox', i)
          <5>1. outbox \in Outboxes
            BY <1>5
          <5>2. QED
            BY <3>1, <4>3, <4>4, <4>b, <5>1, AppendFirst
        <4>6. QED
          BY <4>1, <4>5
      <3>3. QED
        BY <3>2 DEF Pend, AtMostOne
    <2>7. Held(i)' = {}
      BY <1>1, <1>6, <1>7, <2>2 DEF Held
    <2>8. pos'[slot'[i]] = to
      BY <1>1, <1>3, <2>2 DEF Obj
    <2>9. TokenInv(i)'
      <3>1. phase' = "simulate" =>
              \A s \in Where(i)', q \in Part : s \notin left' /\ s \notin todo'[q]
        BY <1>2, <2>2 DEF PlayerInv, TokenInv
      <3>2. phase' = "respawn" => slot'[i] \notin respawn'
        BY <1>1, <2>2 DEF PlayerInv, TokenInv
      <3>3. QED
        BY <1>1, <1>3, <2>2, <2>6, <2>7, <3>1, <3>2 DEF TokenInv
    <2>10. PlaceInv(i)'
      BY <1>2, <1>4, <2>3, <2>4, <2>6, <2>7, <2>8 DEF PlaceInv
    <2>11. QED
      BY <2>9, <2>10 DEF PlayerInv
  <1>10. QED
    BY <1>8, <1>9

LEMMA SimulatePlayer ==
  ASSUME MemberInv, NEW p \in Part, Simulate(p),
         NEW i \in PlayerId, i \notin tainted'
  PROVE  PlayerInv(i)'
  <1>0. Tick
    BY DEF Tick
  <1>a. i \notin tainted
    BY DEF Simulate, CopyObjects, SimulateStay, SimulateRead, SimulateWrite,
       MonsterStay, MonsterMove, MonsterArrive, history
  <1>b. TypeInv /\ outbox \in Outboxes /\ (slot[i] # None => slot[i] \in Conn)
    BY DEF MemberInv, TypeInv, TypeOK, Outboxes
  <1>c. id' = id
    BY <1>0, TickKeepsConn DEF connVars
  (* A step that only takes an id from the batch of p.                     *)
  <1>1. ASSUME UNCHANGED <<owner, respawn, grid, phase, left, todo, cur>>,
               Kept(outbox, outbox', i),
               slot[i] # None => pos'[slot[i]] = pos[slot[i]],
               \A q \in Part : i \in batch'[q] => i \in batch[q]
        PROVE  PlayerInv(i)'
    <2>1. Where(i)' = Where(i) /\ Held(i)' = Held(i)
      BY <1>1, <1>c DEF Where, Held
    <2>2. Elsewhere(i)
      BY <1>1, <2>1 DEF Elsewhere
    <2>3. QED
      BY <1>0, <1>a, <2>2, TickFrame
  <1>d. \A j : batch' = [batch EXCEPT ![p] = @ \ {j}] =>
               \A q \in Part : i \in batch'[q] => i \in batch[q]
    BY <1>b DEF TypeInv, TypeOK
  <1>e. \A n \in Npc : \A to :
         pos' = [pos EXCEPT ![n] = to] /\ slot[i] # None =>
                           pos'[slot[i]] = pos[slot[i]]
    BY <1>b, WorldAssumption DEF TypeInv, TypeOK
  <1>f. outbox' = outbox => Kept(outbox, outbox', i)
    BY DEF Kept
  <1>2. ASSUME NEW s \in Sector, CopyObjects(p, s) PROVE PlayerInv(i)'
    BY <1>2, <1>a, CopyPlayer
  <1>3. ASSUME NEW j \in PlayerId, SimulateStay(p, j) PROVE PlayerInv(i)'
    BY <1>1, <1>3, <1>d, <1>f DEF SimulateStay, objVars
  <1>4. ASSUME NEW j \in PlayerId, NEW c \in Conn, NEW to \in Sector,
               SimulateRead(p, j, c, to)
        PROVE  PlayerInv(i)'
    <2>1. /\ phase = "simulate" /\ j \in batch[p] /\ cur[p] = Idle
          /\ slot[j] = c /\ pc[c] = "in"
          /\ batch' = [batch EXCEPT ![p] = @ \ {j}]
          /\ cur' = [cur EXCEPT ![p] = [obj |-> c, from |-> pos[c], to |-> to]]
          /\ UNCHANGED <<pos, owner, grid, phase, left, todo, outbox>>
      BY <1>4 DEF SimulateRead, objVars
    <2>2. \A q \in Part : batch'[q] = IF q = p THEN batch[q] \ {j} ELSE batch[q]
      BY <1>b, <2>1 DEF TypeInv, TypeOK
    <2>3. j \notin tainted => /\ Pend(j) = {} /\ Held(j) = {}
                              /\ \A q \in Part : j \notin batch'[q]
                              /\ phase = "simulate" => Busy(j)
      BY <2>1, <2>2 DEF MemberInv, PlayerInv, TokenInv, Busy
    <2>4. \A q \in Part : i \in batch'[q] => i \in batch[q]
      BY <2>2
    <2>5. QED
      BY <1>0, <1>a, <2>1, <2>3, <2>4, TakeUp
  <1>5. CASE SimulateWrite(p)
    <2>1. cur[p] # Idle /\ cur[p].to \in Sector
      BY <1>5, <1>b, HeldStep DEF SimulateWrite
    <2>2. QED
      BY <1>0, <1>5, <1>a, <2>1, PutDown DEF SimulateWrite
  <1>6. ASSUME NEW n \in Npc, MonsterStay(p, n) PROVE PlayerInv(i)'
    <2>1. Kept(outbox, outbox', i)
      BY <1>6, <1>b, MonsterEmits
    <2>2. QED
      BY <1>1, <1>6, <1>d, <2>1 DEF MonsterStay, Monster, objVars
  <1>7. ASSUME NEW n \in Npc, NEW to \in Sector, MonsterMove(p, n, to)
        PROVE  PlayerInv(i)'
    <2>1. Kept(outbox, outbox', i)
      BY <1>7, <1>b, MonsterEmits, WorldAssumption
    <2>2. QED
      BY <1>1, <1>7, <1>d, <1>e, <2>1 DEF MonsterMove, Monster
  <1>8. ASSUME NEW n \in Npc, MonsterArrive(p, n) PROVE PlayerInv(i)'
    BY <1>1, <1>8, <1>d, <1>e, <1>f DEF MonsterArrive, Monster
  <1>9. QED
    BY <1>2, <1>3, <1>4, <1>5, <1>6, <1>7, <1>8 DEF Simulate

LEMMA CombatPlayer ==
  ASSUME MemberInv,
         \/ \E n \in Npc : Strike(n) \/ RespawnNpc(n)
         \/ \E j \in PlayerId, c \in Conn : RespawnRead(j, c)
         \/ RespawnWrite,
         NEW i \in PlayerId, i \notin tainted
  PROVE  PlayerInv(i)'
  <1>0. Tick /\ 0 \in Part
    BY WorldAssumption DEF Tick, Part
  <1>b. TypeInv /\ outbox \in Outboxes /\ (slot[i] # None => slot[i] \in Conn)
    BY DEF MemberInv, TypeInv, TypeOK, Outboxes
  <1>c. id' = id
    BY <1>0, TickKeepsConn DEF connVars
  <1>1. ASSUME NEW n \in Npc, Strike(n) \/ RespawnNpc(n) PROVE PlayerInv(i)'
    <2>1. PICK m \in Command : Emit(0, <<m>>) /\ ~About(m, i)
      <3>1. CASE Strike(n)
        <4>1. Emit(0, <<Damage(n)>>) /\ Damage(n) \in Command /\ ~About(Damage(n), i)
          BY <3>1, CommandTypes, WorldAssumption DEF Strike, Damage, About, Id
        <4>2. QED
          BY <4>1
      <3>2. CASE RespawnNpc(n)
        <4>1. /\ Emit(0, <<GridAdd(n, Home[n])>>) /\ GridAdd(n, Home[n]) \in Command
              /\ ~About(GridAdd(n, Home[n]), i)
          BY <3>2, CommandTypes, WorldAssumption DEF RespawnNpc, GridAdd, About, Id
        <4>2. QED
          BY <4>1
      <3>3. QED
        BY <1>1, <3>1, <3>2
    <2>2. Kept(outbox, outbox', i)
      <3>1. <<m>> \in Seq(Command) /\ \A k \in DOMAIN <<m>> : ~About(<<m>>[k], i)
        BY <2>1
      <3>2. QED
        BY <1>0, <1>b, <2>1, <3>1, AppendOther DEF Emit
    <2>3. /\ UNCHANGED <<owner, grid, phase, left, todo, batch, cur>>
          /\ respawn' \subseteq respawn
          /\ slot[i] # None => pos'[slot[i]] = pos[slot[i]]
      <3>1. CASE Strike(n)
        BY <3>1 DEF Strike, objVars
      <3>2. CASE RespawnNpc(n)
        BY <1>b, <3>2, WorldAssumption DEF RespawnNpc, TypeInv, TypeOK
      <3>3. QED
        BY <1>1, <3>1, <3>2
    <2>4. Where(i)' = Where(i) /\ Held(i)' = Held(i)
      BY <1>c, <2>3 DEF Where, Held
    <2>5. Elsewhere(i)
      BY <2>2, <2>3, <2>4 DEF Elsewhere
    <2>6. QED
      BY <1>0, <2>5, TickFrame
  <1>2. ASSUME NEW j \in PlayerId, NEW c \in Conn, RespawnRead(j, c)
        PROVE  PlayerInv(i)'
    <2>1. /\ phase = "respawn" /\ cur[0] = Idle
          /\ slot[j] = c /\ pc[c] = "in" /\ c \in respawn
          /\ cur' = [cur EXCEPT ![0] = [obj |-> c, from |-> pos[c], to |-> Village]]
          /\ respawn' = respawn \ {c}
          /\ UNCHANGED <<pos, owner, grid, phase, left, todo, outbox>>
          /\ batch' = batch
      BY <1>2 DEF RespawnRead
    <2>2. j \notin tainted => ~Busy(j)
      BY <2>1 DEF MemberInv, PlayerInv, TokenInv
    <2>3. j \notin tainted => /\ Pend(j) = {} /\ Held(j) = {}
                              /\ \A q \in Part : j \notin batch'[q]
                              /\ phase = "simulate" => Busy(j)
      BY <2>1, <2>2 DEF Busy
    <2>4. phase = "respawn" => c \notin respawn' /\ respawn' \subseteq respawn
      BY <2>1
    <2>5. QED
      BY <1>0, <2>1, <2>3, <2>4, TakeUp, WorldAssumption
  <1>3. CASE RespawnWrite
    BY <1>0, <1>3, PutDown, WorldAssumption DEF RespawnWrite
  <1>4. QED
    BY <1>1, <1>2, <1>3

(* The flush, one command at a time.                                       *)
LEMMA FlushPlayer ==
  ASSUME MemberInv, Flush, ~EndFlush, NEW i \in PlayerId, i \notin tainted'
  PROVE  PlayerInv(i)'
  <1>0. Tick /\ 0 \in Part
    BY WorldAssumption DEF Tick, Part
  <1>b. TypeInv /\ outbox \in Outboxes /\ (slot[i] # None => slot[i] \in Conn)
        /\ grid \in [Sector -> SUBSET Id]
    BY DEF MemberInv, TypeInv, TypeOK, Outboxes
  <1>c. id' = id /\ slot' = slot /\ pc' = pc
    BY <1>0, TickKeepsConn DEF connVars
  <1>d. /\ phase \in Flushes /\ UNCHANGED <<pos, phase, left, todo, batch>>
        /\ i \notin tainted
    BY DEF Flush, Flushes, Flushing, DamagePlayer, WoundNpc, KillNpc, MigrateNpc,
       MigrateResolve, MigrateApply, AddNpc, objVars, history, Taint
  <1>e. /\ PlayerInv(i)
        /\ \A c \in Conn : pc[c] \notin {"new", "ended"} => slot[id[c]] = c
        /\ slot[i] # None => id[slot[i]] = i
    BY <1>d DEF MemberInv, SlotInv
  <1>f. \A c \in Conn : Playing(c) => slot[id[c]] = c
    BY <1>e DEF Playing
  (* The step of the tick concerns somebody else.                          *)
  <1>1. ASSUME Where(i)' = Where(i), Kept(outbox, outbox', i),
               \A p \in Part : p \in Held(i)' <=> p \in Held(i),
               \A p \in Held(i) : cur'[p] = cur[p],
               slot[i] # None => owner'[slot[i]] = owner[slot[i]]
        PROVE  PlayerInv(i)'
    <2>1. Elsewhere(i)
      BY <1>1, <1>d DEF Elsewhere, Flushes
    <2>2. QED
      BY <1>0, <1>d, <2>1, TickFrame
  (* A command about somebody else is popped.                              *)
  <1>2. ASSUME NEW p \in Part, NextIn(p), Pop(p), ~About(Head(outbox[p]), i)
        PROVE  Kept(outbox, outbox', i)
    BY <1>2, <1>b, PopOther DEF NextIn, Pop
  <1>3. ASSUME NEW p \in Part, NEW j \in PlayerId, NEW k \in BOOLEAN,
               DamagePlayer(p, j, k)
        PROVE  PlayerInv(i)'
    <2>1. ~About(Head(outbox[p]), i)
      BY <1>3 DEF DamagePlayer, Damage, About
    <2>2. Kept(outbox, outbox', i)
      BY <1>2, <1>3, <2>1 DEF DamagePlayer
    <2>3. UNCHANGED <<grid, owner, cur>>
      BY <1>3 DEF DamagePlayer
    <2>4. Where(i)' = Where(i) /\ Held(i)' = Held(i)
      BY <1>c, <2>3 DEF Where, Held
    <2>5. QED
      BY <1>1, <2>2, <2>3, <2>4
  <1>4. ASSUME NEW p \in Part, NEW n \in Npc, WoundNpc(p, n)
        PROVE  PlayerInv(i)'
    <2>1. ~About(Head(outbox[p]), i)
      BY <1>4 DEF WoundNpc, Damage, About
    <2>2. Kept(outbox, outbox', i)
      BY <1>2, <1>4, <2>1 DEF WoundNpc
    <2>3. UNCHANGED <<grid, owner, cur>>
      BY <1>4 DEF WoundNpc, objVars
    <2>4. Where(i)' = Where(i) /\ Held(i)' = Held(i)
      BY <1>c, <2>3 DEF Where, Held
    <2>5. QED
      BY <1>1, <2>2, <2>3, <2>4
  <1>5. ASSUME NEW p \in Part, NEW n \in Npc,
               KillNpc(p, n) \/ MigrateNpc(p, n) \/ AddNpc(p, n)
        PROVE  PlayerInv(i)'
    <2>1. /\ NextIn(p) /\ Pop(p) /\ cur' = cur /\ n # i
          /\ \A c \in Conn : owner'[c] = owner[c]
      BY <1>5, <1>b, WorldAssumption DEF KillNpc, MigrateNpc, AddNpc, TypeInv, TypeOK, Obj
    <2>2. ~About(Head(outbox[p]), i)
      BY <1>5, <2>1 DEF KillNpc, MigrateNpc, AddNpc, Damage, About
    <2>3. Kept(outbox, outbox', i)
      BY <1>2, <2>1, <2>2
    <2>4. Where(i)' = Where(i)
      <3>1. CASE KillNpc(p, n)
        BY <1>b, <2>1, <3>1, WhereRemoved DEF KillNpc, TypeInv, TypeOK, Obj
      <3>2. Head(outbox[p]) \in Command
        BY <1>b, <2>1 DEF NextIn, Outboxes
      <3>3. CASE MigrateNpc(p, n)
        <4>1. Head(outbox[p]).from \in Sector /\ Head(outbox[p]).to \in Sector
          BY <3>2, <3>3, CommandFields DEF MigrateNpc
        <4>2. QED
          BY <1>b, <2>1, <3>3, <4>1, WhereMoved DEF MigrateNpc
      <3>4. CASE AddNpc(p, n)
        <4>1. Head(outbox[p]).to \in Sector
          BY <3>2, <3>4, CommandFields DEF AddNpc
        <4>2. QED
          BY <1>b, <2>1, <3>4, <4>1, WhereAdded DEF AddNpc
      <3>5. QED
        BY <1>5, <3>1, <3>3, <3>4
    <2>5. Held(i)' = Held(i)
      BY <1>c, <2>1 DEF Held
    <2>6. QED
      BY <1>1, <1>b, <2>1, <2>3, <2>4, <2>5
  <1>6. ASSUME NEW p \in Part, NEW j \in PlayerId, MigrateResolve(p, j)
        PROVE  PlayerInv(i)'
    <2> DEFINE m == Head(outbox[p])
    <2>1. /\ NextIn(p) /\ Pop(p) /\ cur[0] = Idle
          /\ m.type = "Migrate" /\ m.target = j
          /\ UNCHANGED <<grid, owner>>
      BY <1>6 DEF MigrateResolve, Flushing, objVars
    <2>2. Where(i)' = Where(i)
      BY <2>1 DEF Where
    <2>3. 0 \notin Held(i)
      BY <2>1 DEF Held, Idle
    <2>4. \A q \in Part : q # 0 => cur'[q] = cur[q]
      BY <1>6, <1>b DEF MigrateResolve, TypeInv, TypeOK
    <2>5. CASE i # j
      <3>1. Kept(outbox, outbox', i)
        BY <1>2, <2>1, <2>5 DEF About
      <3>2. 0 \notin Held(i)'
        <4>1. CASE cur' = cur
          BY <1>c, <2>3, <4>1 DEF Held
        <4>2. ASSUME NEW c \in PlayingIn(j),
                     cur' = [cur EXCEPT ![0] = [obj |-> c, from |-> m.from, to |-> m.to]]
              PROVE  0 \notin Held(i)'
          <5>1. c \in Conn /\ slot[j] = c
            BY DEF PlayingIn
          <5>2. id[c] = j
            BY <5>1, WorldAssumption DEF MemberInv, SlotInv
          <5>3. cur'[0].obj = c
            BY <1>0, <1>b, <4>2 DEF TypeInv, TypeOK
          <5>4. QED
            BY <1>c, <2>5, <5>2, <5>3 DEF Held
        <4>3. QED
          BY <1>6, <4>1, <4>2 DEF MigrateResolve
      <3>3. \A q \in Part : q \in Held(i)' <=> q \in Held(i)
        BY <1>c, <2>3, <2>4, <3>2 DEF Held
      <3>4. \A q \in Held(i) : cur'[q] = cur[q]
        BY <2>3, <2>4 DEF Held
      <3>5. QED
        BY <1>1, <2>1, <2>2, <3>1, <3>3, <3>4
    <2>6. CASE i = j
      <3>1. m \in Command /\ About(m, i)
        BY <1>b, <2>1, <2>6 DEF NextIn, Outboxes, About
      <3>2. m \in Pend(i)
        <4>1. 1 \in DOMAIN outbox[p] /\ outbox[p][1] = m
          BY <1>b, <2>1 DEF NextIn, Outboxes
        <4>2. QED
          BY <3>1, <4>1 DEF Pend, PendIn
      <3>3. /\ slot[i] \in Conn /\ pc[slot[i]] = "in" /\ AtMostOne(i) /\ Held(i) = {}
            /\ \A q \in Part : i \notin batch[q]
        BY <1>b, <1>e, <3>2 DEF PlayerInv, TokenInv
      <3>4. Pend(i)' = {}
        <4>1. PendIn(outbox', i) = {}
          BY <1>b, <2>1, <3>1, <3>3, PopLast DEF NextIn, Pop, AtMostOne
        <4>2. QED
          BY <4>1 DEF Pend
      <3>5. PlayingIn(i) = {slot[i]}
        BY <3>3 DEF PlayingIn, Playing
      <3>6. cur'[0] = [obj |-> slot[i], from |-> m.from, to |-> m.to]
        BY <1>0, <1>6, <1>b, <2>6, <3>5 DEF MigrateResolve, TypeInv, TypeOK
      <3>7. Held(i)' = {0}
        <4>1. slot[i] # None /\ id[slot[i]] = i
          BY <1>e, <3>3, WorldAssumption
        <4>2. \A q \in Part : q # 0 => q \notin Held(i)'
          BY <1>c, <2>4, <3>3 DEF Held
        <4>3. 0 \in Held(i)'
          BY <1>0, <1>c, <3>6, <4>1 DEF Held
        <4>4. \A q \in Held(i)' : q \in Part
          BY DEF Held
        <4>5. QED
          BY <4>2, <4>3, <4>4
      <3>8. Where(i) = {m.from} /\ pos[slot[i]] = m.to
        BY <1>e, <3>2 DEF PlayerInv, PlaceInv
      <3>9. Present(i)'
        BY <1>b, <1>c, <3>3, WorldAssumption DEF Present, Entered
      <3>10. TokenInv(i)'
        <4>1. cur'[0].obj = slot'[i] /\ pc'[slot'[i]] = "in"
          BY <1>c, <3>3, <3>6
        <4>2. phase' \notin {"simulate", "respawn"} /\ batch' = batch
          BY <1>d DEF Flushes
        <4>3. QED
          BY <3>3, <3>4, <3>7, <4>1, <4>2 DEF TokenInv
      <3>11. PlaceInv(i)'
        <4>1. cur'[0].from = m.from /\ cur'[0].to = m.to
          BY <3>6
        <4>2. phase' \in Flushes /\ pos' = pos
          BY <1>d
        <4>3. QED
          BY <1>c, <2>2, <3>4, <3>7, <3>8, <3>9, <4>1, <4>2 DEF PlaceInv, Flushes
      <3>12. QED
        BY <3>10, <3>11 DEF PlayerInv
    <2>7. QED
      BY <2>5, <2>6
  <1>7. CASE MigrateApply
    <2> DEFINE c == cur[0].obj
    <2>1. /\ cur[0] # Idle /\ outbox' = outbox
          /\ cur' = [cur EXCEPT ![0] = Idle]
          /\ grid' = Moved(grid, id[c], cur[0].from, cur[0].to)
          /\ owner' = [owner EXCEPT ![c] = cur[0].to]
      BY <1>7 DEF MigrateApply
    <2>2. c \in Conn /\ cur[0].from \in Sector /\ cur[0].to \in Sector
      BY <1>0, <1>b, <2>1, HeldStep
    <2>3. \A q \in Part : (q # 0 => cur'[q] = cur[q]) /\ cur'[0] = Idle
      BY <1>0, <1>b, <2>1 DEF TypeInv, TypeOK
    <2>4. 0 \notin Held(i)' /\ Pend(i)' = Pend(i) /\ Kept(outbox, outbox', i)
      BY <2>1, <2>3, <1>0 DEF Held, Idle, Pend, Kept
    <2>5. CASE i # id[c]
      <3>1. Where(i)' = Where(i)
        BY <1>b, <2>1, <2>2, <2>5, WhereMoved
      <3>2. 0 \notin Held(i)
        BY <2>5 DEF Held
      <3>3. \A q \in Part : q \in Held(i)' <=> q \in Held(i)
        BY <1>c, <2>3, <2>4, <3>2 DEF Held
      <3>4. \A q \in Held(i) : cur'[q] = cur[q]
        BY <2>3, <3>2 DEF Held
      <3>5. slot[i] # None => owner'[slot[i]] = owner[slot[i]]
        BY <1>b, <1>e, <2>1, <2>2, <2>5 DEF TypeInv, TypeOK, Obj
      <3>6. QED
        BY <1>1, <2>4, <3>1, <3>3, <3>4, <3>5
    <2>6. CASE i = id[c]
      <3>1. 0 \in Held(i)
        BY <1>0, <2>2, <2>6, WorldAssumption DEF Held
      <3>2. /\ c = slot[i] /\ pc[c] = "in" /\ Pend(i) = {}
            /\ \A q \in Held(i) : q = 0
            /\ \A q \in Part : i \notin batch[q]
        BY <1>e, <3>1 DEF PlayerInv, TokenInv
      <3>3. Where(i) = {cur[0].from} /\ pos[c] = cur[0].to
        BY <1>d, <1>e, <3>1, <3>2 DEF PlayerInv, PlaceInv
      <3>4. Where(i)' = {cur[0].to}
        BY <1>b, <2>1, <2>2, <2>6, <3>3, WhereMoved
      <3>5. Held(i)' = {}
        <4>1. \A q \in Part : q # 0 => q \notin Held(i)'
          BY <1>c, <2>3, <3>2 DEF Held
        <4>2. \A q \in Held(i)' : q \in Part
          BY DEF Held
        <4>3. QED
          BY <2>4, <4>1, <4>2
      <3>6. ~Busy(i)'
        BY <1>d, <2>4, <3>2, <3>5 DEF Busy
      <3>7. Present(i)'
        BY <1>c, <2>2, <3>2, WorldAssumption DEF Present, Entered
      <3>8. pos'[slot'[i]] = cur[0].to
        BY <1>c, <1>d, <3>2, <3>3
      <3>9. QED
        BY <3>4, <3>6, <3>7, <3>8, InPlaceIsIdle
    <2>7. QED
      BY <2>5, <2>6
  <1>8. QED
    BY <1>3, <1>4, <1>5, <1>6, <1>7 DEF Flush

-----------------------------------------------------------------------------
LEMMA MemberStep ==
  ASSUME MemberInv, TypeInv', [Next]_vars
  PROVE  MemberInv'
  <1>1. CASE Next
    <2>1. SlotInv' /\ OwnerInv' /\ PhaseInv'
      BY <1>1, SlotStep, OwnerStep, PhaseStep DEF MemberInv
    <2>2. ASSUME NEW i \in PlayerId, i \notin tainted' PROVE PlayerInv(i)'
      <3>1. ASSUME NEW c \in Conn, Session(c) PROVE PlayerInv(i)'
        BY <2>2, <3>1, SessionPlayer
      <3>2. CASE TickStart \/ RunWave \/ EndParallel \/ EndCombat \/ EndRespawn \/ EndFlush
        <4>1. i \notin tainted
          BY <2>2, <3>2 DEF TickStart, RunWave, EndParallel, EndCombat, EndRespawn,
             EndFlush, history
        <4>2. QED
          BY <3>2, <4>1, WavePlayer
      <3>3. ASSUME NEW p \in Part, Simulate(p) PROVE PlayerInv(i)'
        BY <2>2, <3>3, SimulatePlayer
      <3>4. CASE \/ \E n \in Npc : Strike(n) \/ RespawnNpc(n)
                 \/ \E j \in PlayerId, c \in Conn : RespawnRead(j, c)
                 \/ RespawnWrite
        <4>1. i \notin tainted
          BY <2>2, <3>4 DEF Strike, RespawnNpc, RespawnRead, RespawnWrite, history
        <4>2. QED
          BY <3>4, <4>1, CombatPlayer
      <3>5. CASE Flush /\ ~EndFlush
        BY <2>2, <3>5, FlushPlayer
      <3>6. QED
        BY <1>1, <3>1, <3>2, <3>3, <3>4, <3>5 DEF Next, Tick
    <2>3. QED
      BY <2>1, <2>2 DEF MemberInv
  <1>2. CASE UNCHANGED vars
    <2>1. SlotInv' /\ OwnerInv' /\ PhaseInv'
      BY <1>2 DEF MemberInv, SlotInv, OwnerInv, PhaseInv, vars, connVars, objVars, tickVars,
         Pend
    <2>2. ASSUME NEW i \in PlayerId, i \notin tainted' PROVE PlayerInv(i)'
      BY <1>2, <2>2 DEF MemberInv, PlayerInv, TokenInv, PlaceInv, vars, connVars, objVars,
         tickVars, history, Pend, Held, Where, Present, Entered, Busy, AtMostOne
    <2>3. QED
      BY <2>1, <2>2 DEF MemberInv
  <1>3. QED
    BY <1>1, <1>2

LEMMA MemberInvImplies == MemberInv => PlayerMembership
  <1> SUFFICES ASSUME MemberInv, NEW i \in PlayerId \ tainted
               PROVE  LET here == {c \in Conn : /\ slot[i] = c
                                                /\ \/ pc[c] \in {"added", "in"}
                                                   \/ pc[c] = "closing" /\ owner[c] # None} IN
                      IF here = {} THEN Where(i) = {}
                      ELSE \E c \in here : Where(i) = Expected(i, c)
    BY DEF PlayerMembership
  <1> DEFINE here == {c \in Conn : slot[i] = c /\ Entered(c)}
  <1>1. PlayerInv(i) /\ outbox \in Outboxes /\ (slot[i] # None => slot[i] \in Conn)
    BY DEF MemberInv, TypeInv, TypeOK, Outboxes
  <1>2. CASE ~Present(i)
    <2>1. here = {}
      BY <1>2, WorldAssumption DEF Present
    <2>2. Where(i) = {}
      BY <1>1, <1>2 DEF PlayerInv, PlaceInv
    <2>3. QED
      BY <2>1, <2>2 DEF Entered
  <1>3. CASE Present(i)
    <2>1. slot[i] \in here
      BY <1>1, <1>3 DEF Present
    <2>2. Where(i) = Expected(i, slot[i])
      <3>1. /\ Pend(i) = {} <=> Recorded(i) = {}
            /\ {outbox[x[1]][x[2]].from : x \in Recorded(i)} = {m.from : m \in Pend(i)}
        BY <1>1, PendIsRecorded
      <3>2. CASE Pend(i) # {}
        <4>1. Held(i) = {}
          BY <1>1, <3>2 DEF PlayerInv, TokenInv
        <4>2. \A m \in Pend(i) : Where(i) = {m.from}
          BY <1>1 DEF PlayerInv, PlaceInv
        <4>3. {m.from : m \in Pend(i)} = Where(i)
          BY <3>2, <4>2
        <4>4. Registered(i, slot[i]) = Where(i)
          BY <3>1, <4>1, <4>3 DEF Registered
        <4>5. Where(i) # {}
          BY <3>2, <4>2
        <4>6. QED
          BY <4>4, <4>5 DEF Expected
      <3>3. CASE Pend(i) = {}
        <4>1. {outbox[x[1]][x[2]].from : x \in Recorded(i)} = {}
          BY <3>1, <3>3
        <4>2. CASE phase \in Flushes /\ Held(i) # {}
          <5>1. \A p \in Held(i) : Where(i) = {cur[p].from}
            BY <1>1, <4>2 DEF PlayerInv, PlaceInv
          <5>2. {cur[p].from : p \in Held(i)} = Where(i) /\ Where(i) # {}
            BY <4>2, <5>1
          <5>3. Registered(i, slot[i]) = Where(i)
            BY <4>1, <4>2, <5>2 DEF Registered, Flushes
          <5>4. QED
            BY <5>2, <5>3 DEF Expected
        <4>3. CASE ~(phase \in Flushes /\ Held(i) # {})
          <5>1. Where(i) = {pos[slot[i]]}
            BY <1>1, <1>3, <3>3, <4>3 DEF PlayerInv, PlaceInv
          <5>2. Registered(i, slot[i]) = {}
            BY <4>1, <4>3 DEF Registered, Flushes
          <5>3. QED
            BY <5>1, <5>2 DEF Expected
        <4>4. QED
          BY <4>2, <4>3
      <3>4. QED
        BY <3>2, <3>3
    <2>3. QED
      BY <2>1, <2>2 DEF Entered
  <1>4. QED
    BY <1>2, <1>3

(* A player is registered in the grid exactly where it is expected, though *)
(* logins and disconnections change the grid at any moment of the tick and *)
(* the tick moves players by commands that it applies later.               *)
THEOREM PlayersPlaced == Spec => []PlayerMembership
  <1>1. Init => MemberInv
    BY InitMember
  <1>2. TypeInv /\ [Next]_vars => TypeInv'
    BY TypeStep
  <1>3. MemberInv /\ [Next]_vars => MemberInv'
    BY <1>2, MemberStep DEF MemberInv
  <1>4. MemberInv => PlayerMembership
    BY MemberInvImplies
  <1>5. QED
    BY <1>1, <1>3, <1>4, PTL DEF Spec

-----------------------------------------------------------------------------
(* NPCs.  Only the AI phase copies them and moves them, and the commands   *)
(* about them are applied by the second flush.                             *)

NpcPhaseInv ==
  /\ phase \in {"idle", "simulate", "flush"} => \A n \in Npc : Pend(n) = {}
  /\ phase # "ai" => \A p \in Part, n \in Npc : n \notin batch[p]
  /\ phase = "ai" =>
       \A p \in Part : /\ left \cap todo[p] = {}
                       /\ \A q \in Part : p # q => todo[p] \cap todo[q] = {}
  /\ \A n \in Npc : n \in respawn => ~alive[n]

(* The running AI phase has copied n, or is done with it.                  *)
Engaged(n) == Pend(n) # {} \/ n \in stepped \/ \E p \in Part : n \in batch[p]

(* The token of an NPC, where n is registered as the token knows it, and   *)
(* that the owner is always the sector in which n is registered.           *)
NpcInv(n) ==
  /\ \A p \in Part : n \in batch[p] => alive[n] /\ Pend(n) = {} /\ n \notin stepped
  /\ \A p, q \in Part : n \in batch[p] /\ n \in batch[q] => p = q
  /\ Pend(n) # {} => alive[n] /\ AtMostOne(n)
  /\ phase = "ai" /\ Engaged(n) =>
       \A s \in Where(n), p \in Part : s \notin left /\ s \notin todo[p]
  /\ Pend(n) = {} => Where(n) = IF alive[n] THEN {pos[n]} ELSE {}
  /\ \A m \in Pend(n) : m.to = pos[n] /\ Where(n) = {m.from} \ {None}
  /\ Where(n) = {owner[n]} \ {None}

(* A step that concerns others.                                            *)
NpcApart(n) ==
  /\ phase' = "ai" => phase = "ai"
  /\ alive'[n] = alive[n] /\ pos'[n] = pos[n] /\ owner'[n] = owner[n]
  /\ Where(n)' = Where(n)
  /\ Kept(outbox, outbox', n)
  /\ \A p \in Part : n \in batch'[p] => n \in batch[p]
  /\ n \in stepped' => n \in stepped
  /\ phase = "ai" => \A s \in Sector : (s \in left' \/ \E p \in Part : s \in todo'[p]) =>
                                       (s \in left \/ \E p \in Part : s \in todo[p])

LEMMA NpcFrame ==
  ASSUME NEW n \in Npc, NpcInv(n), NpcApart(n)
  PROVE  NpcInv(n)'
  <1>1. Pend(n)' = Pend(n) /\ (AtMostOne(n) => AtMostOne(n)') /\ Where(n)' = Where(n)
    BY DEF NpcApart, Kept, Pend, AtMostOne
  <1>2. Engaged(n)' => Engaged(n)
    BY <1>1 DEF NpcApart, Engaged
  <1>3. \A s \in Where(n) : s \in Sector
    BY DEF Where
  <1>4. phase' = "ai" /\ Engaged(n)' =>
          \A s \in Where(n)', p \in Part : s \notin left' /\ s \notin todo'[p]
    BY <1>1, <1>2, <1>3 DEF NpcApart, NpcInv
  <1>5. \A p \in Part : n \in batch'[p] => alive'[n] /\ Pend(n)' = {} /\ n \notin stepped'
    BY <1>1 DEF NpcApart, NpcInv
  <1>6. \A p, q \in Part : n \in batch'[p] /\ n \in batch'[q] => p = q
    BY DEF NpcApart, NpcInv
  <1>7. Pend(n)' # {} => alive'[n] /\ AtMostOne(n)'
    BY <1>1 DEF NpcApart, NpcInv
  <1>8. /\ Pend(n)' = {} => Where(n)' = IF alive'[n] THEN {pos'[n]} ELSE {}
        /\ \A m \in Pend(n)' : m.to = pos'[n] /\ Where(n)' = {m.from} \ {None}
        /\ Where(n)' = {owner'[n]} \ {None}
    BY <1>1 DEF NpcApart, NpcInv
  <1>9. QED
    BY <1>4, <1>5, <1>6, <1>7, <1>8 DEF NpcInv

(* Nothing stands for n any more, and it is in its place.                  *)
LEMMA NpcAtRest ==
  ASSUME NEW n \in Npc, Pend(n)' = {}, \A p \in Part : n \notin batch'[p],
         phase' = "ai" => n \notin stepped',
         Where(n)' = IF alive'[n] THEN {pos'[n]} ELSE {},
         Where(n)' = {owner'[n]} \ {None}
  PROVE  NpcInv(n)'
  BY DEF NpcInv, Engaged

LEMMA InitNpc ==
  ASSUME Init
  PROVE  NpcPhaseInv /\ \A n \in Npc : NpcInv(n)
  <1>1. \A i : Pend(i) = {}
    BY DEF Init, Pend, PendIn
  <1>2. NpcPhaseInv
    BY <1>1 DEF Init, NpcPhaseInv
  <1>3. ASSUME NEW n \in Npc PROVE NpcInv(n)
    <2>1. Where(n) = {Home[n]} /\ Home[n] # None
      BY WorldAssumption DEF Init, Where
    <2>2. pos[n] = Home[n] /\ owner[n] = Home[n] /\ alive[n] = TRUE /\ phase = "idle"
      BY DEF Init, Obj
    <2>3. \A p \in Part : n \notin batch[p]
      BY DEF Init
    <2>4. QED
      BY <1>1, <2>1, <2>2, <2>3 DEF NpcInv
  <1>4. QED
    BY <1>2, <1>3

(* Popping a command leaves no more of them.                               *)
LEMMA PopNone ==
  ASSUME NEW ob \in Outboxes, NEW p \in Part, ob[p] # <<>>,
         NEW ob2, ob2 = [ob EXCEPT ![p] = Tail(@)], NEW i, PendIn(ob, i) = {}
  PROVE  PendIn(ob2, i) = {}
  <1>1. Popped(ob, p, ob2)
    BY PoppedParts
  <1>2. ~About(Head(ob[p]), i)
    <2>1. /\ Head(ob[p]) \in Command
          /\ \E k \in DOMAIN ob[p] : Head(ob[p]) = ob[p][k]
      BY <1>1 DEF Popped
    <2>2. About(Head(ob[p]), i) => Head(ob[p]) \in PendIn(ob, i)
      BY <2>1 DEF PendIn
    <2>3. QED
      BY <2>2
  <1>3. Kept(ob, ob2, i)
    BY <1>2, PopOther
  <1>4. QED
    BY <1>3 DEF Kept

LEMMA SessionNpc ==
  ASSUME TypeInv, NEW c \in Conn, Session(c), NEW n \in Npc, NpcInv(n)
  PROVE  NpcInv(n)'
  <1>1. UNCHANGED tickVars /\ alive' = alive /\ stepped' = stepped
    <2>1. UNCHANGED tickVars
      BY DEF Session, Accept, LoginPlaying, LoginAdd, LoginOwn,
         Disconnect, CleanupGrid, Release
    <2>2. alive' = alive
      BY DEF Session, Accept, LoginPlaying, LoginAdd, LoginOwn,
         Disconnect, CleanupGrid, Release, objVars
    <2>3. stepped' = stepped
      BY DEF Session, Accept, LoginPlaying, LoginAdd, LoginOwn,
         Disconnect, CleanupGrid, Release, history
    <2>4. QED
      BY <2>1, <2>2, <2>3
  <1>2. pos'[n] = pos[n] /\ owner'[n] = owner[n]
    <2>1. pos' = pos \/ \E s : pos' = [pos EXCEPT ![c] = s]
      BY DEF Session, Accept, LoginPlaying, LoginAdd, LoginOwn,
         Disconnect, CleanupGrid, Release, objVars
    <2>2. owner' = owner \/ \E s : owner' = [owner EXCEPT ![c] = s]
      BY DEF Session, Accept, LoginPlaying, LoginAdd, LoginOwn,
         Disconnect, CleanupGrid, Release, objVars
    <2>3. n # c
      BY WorldAssumption
    <2>4. QED
      BY <2>1, <2>2, <2>3 DEF TypeInv, TypeOK, Obj
  <1>3. Where(n)' = Where(n)
    <2>1. CASE grid' = grid
      BY <2>1 DEF Where
    <2>2. ASSUME pc[c] # "new", NEW s \in Sector,
                 grid' = Added(grid, id[c], s) \/ grid' = Removed(grid, id[c], s)
          PROVE  Where(n)' = Where(n)
      <3>1. id[c] # n
        BY <2>2, WorldAssumption DEF TypeInv, SlotsKnown
      <3>2. QED
        BY <2>2, <3>1, WhereAdded, WhereRemoved DEF TypeInv, TypeOK
    <2>3. pos[c] \in Sector
      BY DEF TypeInv, TypeOK, Obj
    <2>4. QED
      BY <2>1, <2>2, <2>3 DEF Session, Accept, LoginPlaying, LoginAdd, LoginOwn,
         Disconnect, CleanupGrid, Release, objVars
  <1>4. NpcApart(n)
    BY <1>1, <1>2, <1>3 DEF tickVars, NpcApart, Kept
  <1>5. QED
    BY <1>4, NpcFrame

LEMMA WaveNpc ==
  ASSUME TypeInv, PhaseInv, NpcPhaseInv, NEW n \in Npc, NpcInv(n),
         TickStart \/ RunWave \/ EndParallel \/ EndCombat \/ EndRespawn \/ EndFlush
  PROVE  NpcInv(n)'
  <1>1. UNCHANGED <<objVars, batch, outbox>>
    BY DEF TickStart, RunWave, EndParallel, EndCombat, EndRespawn, EndFlush
  <1>2. /\ Where(n)' = Where(n) /\ Pend(n)' = Pend(n) /\ Kept(outbox, outbox', n)
        /\ alive' = alive /\ pos' = pos /\ owner' = owner
    BY <1>1 DEF objVars, Where, Pend, Kept
  <1>3. CASE ~EndFlush
    <2>1. /\ phase' = "ai" => phase = "ai"
          /\ n \in stepped' => n \in stepped
      BY <1>3 DEF TickStart, RunWave, EndParallel, EndCombat, EndRespawn, history
    <2>2. /\ left' \subseteq left \/ phase # "ai"
          /\ \A p \in Part : todo'[p] \subseteq todo[p] \cup left \/ phase # "ai"
      BY <1>3 DEF TickStart, RunWave, EndParallel, EndCombat, EndRespawn, Strides
    <2>3. NpcApart(n)
      BY <1>1, <1>2, <2>1, <2>2 DEF NpcApart
    <2>4. QED
      BY <2>3, NpcFrame
  <1>4. CASE EndFlush
    <2>1. Pend(n) = {}
      BY <1>4 DEF EndFlush, Pend, PendIn
    <2>2. \A p \in Part : n \notin batch'[p]
      BY <1>1, <1>4 DEF EndFlush, Flushing, NpcPhaseInv
    <2>3. phase' = "ai" => n \notin stepped'
      BY <1>4 DEF EndFlush
    <2>4. QED
      BY <1>2, <2>1, <2>2, <2>3, NpcAtRest DEF NpcInv
  <1>5. QED
    BY <1>3, <1>4

(* CopyObjects finds only what stands nowhere else.                        *)
LEMMA CopyNpc ==
  ASSUME TypeInv, NpcPhaseInv, NEW p \in Part, NEW s \in Sector, CopyObjects(p, s),
         NEW n \in Npc, NpcInv(n)
  PROVE  NpcInv(n)'
  <1> USE DEF TypeInv, TypeOK
  <1>1. /\ UNCHANGED objVars /\ UNCHANGED <<phase, left, outbox, stepped>>
        /\ todo' = [todo EXCEPT ![p] = @ \ {s}] /\ s \in todo[p]
        /\ \A q \in Part : q # p => batch'[q] = batch[q]
        /\ batch[p] = {}
    BY DEF CopyObjects, history
  <1>2. /\ Where(n)' = Where(n) /\ Pend(n)' = Pend(n) /\ Kept(outbox, outbox', n)
        /\ alive' = alive /\ pos' = pos /\ owner' = owner
    BY <1>1 DEF Where, Pend, Kept, objVars
  <1>3. \A t \in Sector : (t \in left' \/ \E q \in Part : t \in todo'[q]) =>
                          (t \in left \/ \E q \in Part : t \in todo[q])
    BY <1>1
  <1>4. CASE n \notin batch'[p]
    <2>1. NpcApart(n)
      BY <1>1, <1>2, <1>3, <1>4 DEF NpcApart
    <2>2. QED
      BY <2>1, NpcFrame
  <1>5. CASE n \in batch'[p]
    <2>1. phase = "ai" /\ n \in grid[s]
      BY <1>5, WorldAssumption DEF CopyObjects
    <2>2. s \in Where(n)
      BY <2>1 DEF Where
    <2>3. ~Engaged(n)
      BY <1>1, <2>1, <2>2 DEF NpcInv
    <2>4. alive[n] /\ Where(n) = {pos[n]} /\ Where(n) = {s} /\ Pend(n) = {}
      BY <2>2, <2>3 DEF NpcInv, Engaged
    <2>5. \A q \in Part : s \notin left' /\ s \notin todo'[q]
      BY <1>1, <2>1 DEF NpcPhaseInv
    <2>6. \A q \in Part : n \in batch'[q] => q = p
      BY <1>1, <2>3 DEF Engaged
    <2>7. \A q, r \in Part : n \in batch'[q] /\ n \in batch'[r] => q = r
      BY <2>6
    <2>8. \A t \in Where(n)', q \in Part : t \notin left' /\ t \notin todo'[q]
      <3> SUFFICES ASSUME NEW t \in Where(n)', NEW q \in Part
                   PROVE  t \notin left' /\ t \notin todo'[q]
        OBVIOUS
      <3>1. t = s
        BY <1>2, <2>4
      <3>2. QED
        BY <2>5, <3>1
    <2>9. n \notin stepped'
      BY <1>1, <2>3 DEF Engaged
    <2>10. Where(n)' = {owner'[n]} \ {None}
      BY <1>2 DEF NpcInv
    <2>11. QED
      BY <1>2, <2>4, <2>7, <2>8, <2>9, <2>10 DEF NpcInv
  <1>6. QED
    BY <1>4, <1>5

(* The monster takes its turn: it leaves the copied list for good.         *)
LEMMA TurnNpc ==
  ASSUME TypeInv, NEW p \in Part, NEW n \in Npc, NpcInv(n), n \in batch[p],
         MonsterStay(p, n) \/ \E to \in Sector : MonsterMove(p, n, to)
  PROVE  NpcInv(n)'
  <1>0. outbox \in Outboxes
    BY DEF TypeInv, TypeOK, Outboxes
  <1>1. /\ alive[n] /\ Pend(n) = {} /\ phase = "ai" /\ phase' = "ai"
        /\ UNCHANGED <<grid, owner, alive, left, todo>>
        /\ \A q \in Part : n \notin batch'[q]
    <2>1. /\ phase = "ai" /\ phase' = "ai"
          /\ UNCHANGED <<grid, owner, alive, left, todo>>
          /\ batch' = [batch EXCEPT ![p] = @ \ {n}]
      BY DEF MonsterStay, MonsterMove, Monster, objVars
    <2>2. \A q \in Part : batch'[q] = IF q = p THEN batch[q] \ {n} ELSE batch[q]
      BY <2>1 DEF TypeInv, TypeOK
    <2>3. QED
      BY <2>1, <2>2 DEF NpcInv
  <1>2. Where(n)' = Where(n) /\ Where(n) = {pos[n]}
    BY <1>1 DEF Where, NpcInv
  <1>3. \A s \in Where(n)', q \in Part : s \notin left' /\ s \notin todo'[q]
    BY <1>1, <1>2 DEF NpcInv, Engaged
  <1>4. Where(n)' = {owner'[n]} \ {None}
    BY <1>1, <1>2 DEF NpcInv
  <1>5. CASE MonsterStay(p, n)
    <2>1. Pend(n)' = {}
      <3>1. Kept(outbox, outbox', n)
        BY <1>5, MonsterEmits
      <3>2. QED
        BY <1>1, <3>1 DEF Kept, Pend
    <2>2. pos' = pos
      BY <1>5 DEF MonsterStay, objVars
    <2>3. QED
      BY <1>1, <1>2, <1>3, <1>4, <2>1, <2>2 DEF NpcInv
  <1>6. ASSUME NEW to \in Sector, MonsterMove(p, n, to) PROVE NpcInv(n)'
    <2>0. pos[n] \in Sector /\ pos[n] # None /\ pos'[n] = to
      BY <1>6, WorldAssumption DEF MonsterMove, TypeInv, TypeOK, Obj
    <2>1. PICK m \in Command : m = Migrate(n, pos[n], to)
      BY <2>0, CommandTypes DEF Id
    <2>2. About(m, n) /\ m.from = pos[n] /\ m.to = to
      BY <2>1 DEF About, Migrate
    <2>3. PICK blow \in Blows(p, to) : Emit(p, <<m>> \o blow)
      BY <1>6, <2>1 DEF MonsterMove
    <2>4. blow \in Seq(Command) /\ \A k \in DOMAIN blow : ~About(blow[k], n)
      <3>1. CASE blow = <<>>
        BY <3>1
      <3>2. ASSUME NEW j \in PlayerId, blow = <<Damage(j)>>
            PROVE  blow \in Seq(Command) /\ \A k \in DOMAIN blow : ~About(blow[k], n)
        BY <3>2, CommandTypes, WorldAssumption DEF Id, Damage, About
      <3>3. QED
        BY <2>3, <3>1, <3>2 DEF Blows
    <2>a. <<m>> \o blow \in Seq(Command)
      BY <2>4
    <2>5. PICK cmds \in Seq(Command) : cmds = <<m>> \o blow
      BY <2>a
    <2>6. 1 \in DOMAIN cmds /\ cmds[1] = m
      BY <2>4, <2>5
    <2>7. ASSUME NEW l \in DOMAIN cmds, l # 1 PROVE ~About(cmds[l], n)
      <3>1. l - 1 \in DOMAIN blow /\ cmds[l] = blow[l - 1]
        BY <2>4, <2>5, <2>7
      <3>2. QED
        BY <2>4, <3>1
    <2>8. PendIn(outbox', n) = {m} /\ OnceIn(outbox', n)
      <3>1. Appended(outbox, p, cmds, outbox')
        BY <1>0, <2>3, <2>5, AppendedParts DEF Emit
      <3>2. PendIn(outbox, n) = {}
        BY <1>1 DEF Pend
      <3>3. \A l \in DOMAIN cmds : About(cmds[l], n) => l = 1
        BY <2>7
      <3>4. QED
        BY <1>0, <2>2, <2>6, <3>1, <3>2, <3>3, AppendFirst
    <2>9. Pend(n)' = {m} /\ AtMostOne(n)'
      BY <2>8 DEF Pend, AtMostOne
    <2>10. Where(n)' = {m.from} \ {None}
      BY <1>2, <2>0, <2>2
    <2>11. QED
      BY <1>1, <1>3, <1>4, <2>0, <2>2, <2>9, <2>10 DEF NpcInv
  <1>7. QED
    BY <1>5, <1>6

LEMMA SimulateNpc ==
  ASSUME TypeInv, NpcPhaseInv, NEW p \in Part, Simulate(p),
         NEW n \in Npc, n \notin tainted', NpcInv(n)
  PROVE  NpcInv(n)'
  <1>0. outbox \in Outboxes
    BY DEF TypeInv, TypeOK, Outboxes
  (* A step of somebody else.                                              *)
  <1>1. ASSUME UNCHANGED <<alive, owner, grid, phase, left, todo>>,
               pos'[n] = pos[n], Kept(outbox, outbox', n),
               \A q \in Part : n \in batch'[q] => n \in batch[q],
               phase = "ai" => (n \in stepped' => n \in stepped)
        PROVE  NpcInv(n)'
    <2>1. CASE phase = "ai"
      <3>1. Where(n)' = Where(n)
        BY <1>1 DEF Where
      <3>2. NpcApart(n)
        BY <1>1, <2>1, <3>1 DEF NpcApart
      <3>3. QED
        BY <3>2, NpcFrame
    <2>2. CASE phase # "ai"
      <3>1. Pend(n)' = Pend(n) /\ (AtMostOne(n) => AtMostOne(n)') /\ Where(n)' = Where(n)
        BY <1>1 DEF Kept, Pend, AtMostOne, Where
      <3>2. \A q \in Part : n \notin batch'[q]
        BY <1>1, <2>2 DEF NpcPhaseInv
      <3>3. QED
        BY <1>1, <2>2, <3>1, <3>2 DEF NpcInv
    <2>3. QED
      BY <2>1, <2>2
  <1>2. \A j : batch' = [batch EXCEPT ![p] = @ \ {j}] =>
               \A q \in Part : n \in batch'[q] => n \in batch[q]
    BY DEF TypeInv, TypeOK
  <1>3. outbox' = outbox => Kept(outbox, outbox', n)
    BY DEF Kept
  <1>4. ASSUME NEW s \in Sector, CopyObjects(p, s) PROVE NpcInv(n)'
    BY <1>4, CopyNpc
  <1>5. ASSUME NEW i \in PlayerId, SimulateStay(p, i) PROVE NpcInv(n)'
    BY <1>1, <1>2, <1>3, <1>5 DEF SimulateStay, objVars
  <1>6. ASSUME NEW i \in PlayerId, NEW c \in Conn, NEW to \in Sector,
               SimulateRead(p, i, c, to)
        PROVE  NpcInv(n)'
    BY <1>1, <1>2, <1>3, <1>6 DEF SimulateRead, objVars
  <1>7. CASE SimulateWrite(p)
    <2>1. cur[p].obj \in Conn /\ id[cur[p].obj] \in PlayerId
          /\ cur[p].from \in Sector /\ cur[p].to \in Sector
      BY <1>7, HeldStep DEF SimulateWrite
    <2>2. PICK m \in Command : m = Migrate(id[cur[p].obj], cur[p].from, cur[p].to)
      BY <2>1, CommandTypes DEF Id
    <2>3. ~About(m, n)
      BY <2>1, <2>2, WorldAssumption DEF About, Migrate
    <2>4. Kept(outbox, outbox', n)
      <3>1. <<m>> \in Seq(Command) /\ \A k \in DOMAIN <<m>> : ~About(<<m>>[k], n)
        BY <2>3
      <3>2. outbox' = [outbox EXCEPT ![p] = @ \o <<m>>]
        BY <1>7, <2>2 DEF SimulateWrite, Emit
      <3>3. QED
        BY <1>0, <3>1, <3>2, AppendOther
    <2>5. pos'[n] = pos[n]
      BY <1>7, <2>1, WorldAssumption DEF SimulateWrite, TypeInv, TypeOK, Obj
    <2>6. QED
      BY <1>1, <1>7, <2>4, <2>5 DEF SimulateWrite, history
  <1>8. ASSUME NEW m \in Npc, MonsterStay(p, m) PROVE NpcInv(n)'
    <2>1. CASE m = n
      BY <1>8, <2>1, TurnNpc DEF MonsterStay, Monster
    <2>2. CASE m # n
      <3>1. Kept(outbox, outbox', n)
        BY <1>8, MonsterEmits
      <3>2. n \in stepped' => n \in stepped
        BY <1>8, <2>2 DEF MonsterStay
      <3>3. QED
        BY <1>1, <1>2, <1>8, <3>1, <3>2 DEF MonsterStay, Monster, objVars
    <2>3. QED
      BY <2>1, <2>2
  <1>9. ASSUME NEW m \in Npc, NEW to \in Sector, MonsterMove(p, m, to) PROVE NpcInv(n)'
    <2>1. CASE m = n
      BY <1>9, <2>1, TurnNpc DEF MonsterMove, Monster
    <2>2. CASE m # n
      <3>1. Kept(outbox, outbox', n)
        BY <1>9, <2>2, MonsterEmits
      <3>2. /\ n \in stepped' => n \in stepped
            /\ pos'[n] = pos[n]
        BY <1>9, <2>2 DEF MonsterMove, TypeInv, TypeOK, Obj
      <3>3. QED
        BY <1>1, <1>2, <1>9, <3>1, <3>2 DEF MonsterMove, Monster
    <2>3. QED
      BY <2>1, <2>2
  <1>10. ASSUME NEW m \in Npc, MonsterArrive(p, m) PROVE NpcInv(n)'
    <2>1. m # n
      BY <1>10 DEF MonsterArrive
    <2>2. /\ n \in stepped' => n \in stepped
          /\ pos'[n] = pos[n]
      BY <1>10, <2>1 DEF MonsterArrive, TypeInv, TypeOK, Obj
    <2>3. QED
      BY <1>1, <1>2, <1>3, <1>10, <2>2 DEF MonsterArrive, Monster
  <1>11. QED
    BY <1>4, <1>5, <1>6, <1>7, <1>8, <1>9, <1>10 DEF Simulate

LEMMA CombatNpc ==
  ASSUME TypeInv, PhaseInv, NpcPhaseInv, NEW n \in Npc, NpcInv(n),
         \/ \E m \in Npc : Strike(m) \/ RespawnNpc(m)
         \/ \E i \in PlayerId, c \in Conn : RespawnRead(i, c)
         \/ RespawnWrite
  PROVE  NpcInv(n)'
  <1>0. 0 \in Part /\ outbox \in Outboxes
    BY WorldAssumption DEF Part, TypeInv, TypeOK, Outboxes
  (* A command about somebody else, or none, is recorded.                  *)
  <1>1. ASSUME UNCHANGED <<owner, grid, batch, stepped>>, phase' # "ai",
               alive'[n] = alive[n], pos'[n] = pos[n], Kept(outbox, outbox', n)
        PROVE  NpcInv(n)'
    <2>1. Where(n)' = Where(n)
      BY <1>1 DEF Where
    <2>2. Pend(n)' = Pend(n) /\ (AtMostOne(n) => AtMostOne(n)')
      BY <1>1 DEF Kept, Pend, AtMostOne
    <2>3. QED
      BY <1>1, <2>1, <2>2 DEF NpcInv
  <1>2. ASSUME NEW x \in Command, ~About(x, n), Emit(0, <<x>>)
        PROVE  Kept(outbox, outbox', n)
    <2>1. <<x>> \in Seq(Command) /\ \A k \in DOMAIN <<x>> : ~About(<<x>>[k], n)
      BY <1>2
    <2>2. QED
      BY <1>0, <1>2, <2>1, AppendOther DEF Emit
  <1>3. ASSUME NEW m \in Npc, Strike(m) PROVE NpcInv(n)'
    <2>1. PICK x \in Command : x = Damage(m)
      BY CommandTypes, WorldAssumption DEF Id
    <2>a. ~About(x, n)
      BY <2>1 DEF Damage, About
    <2>b. Emit(0, <<x>>)
      BY <1>3, <2>1 DEF Strike
    <2>2. Kept(outbox, outbox', n)
      BY <1>2, <2>1, <2>a, <2>b
    <2>3. UNCHANGED <<owner, grid, batch, stepped, alive, pos>> /\ phase' # "ai"
      BY <1>3 DEF Strike, objVars, history
    <2>4. QED
      BY <1>1, <2>2, <2>3
  <1>4. ASSUME NEW m \in Npc, RespawnNpc(m) PROVE NpcInv(n)'
    <2>1. PICK x \in Command : x = GridAdd(m, Home[m])
      BY CommandTypes, WorldAssumption DEF Id
    <2>2. /\ Emit(0, <<x>>) /\ UNCHANGED <<owner, grid, batch, stepped>> /\ phase' = "respawn"
          /\ m \in respawn
          /\ alive' = [alive EXCEPT ![m] = TRUE] /\ pos' = [pos EXCEPT ![m] = Home[m]]
      BY <1>4, <2>1 DEF RespawnNpc, history
    <2>3. x.target = m /\ x.type = "GridAdd" /\ x.from = None /\ x.to = Home[m]
      BY <2>1 DEF GridAdd
    <2>4. CASE m # n
      <3>1. ~About(x, n)
        BY <2>3, <2>4 DEF About
      <3>2. Kept(outbox, outbox', n)
        BY <1>2, <2>2, <3>1
      <3>3. alive'[n] = alive[n] /\ pos'[n] = pos[n]
        BY <2>2, <2>4 DEF TypeInv, TypeOK, Obj
      <3>4. QED
        BY <1>1, <2>2, <3>2, <3>3
    <2>5. CASE m = n
      <3>1. ~alive[n] /\ \A p \in Part : n \notin batch'[p]
        BY <1>4, <2>2, <2>5 DEF NpcPhaseInv, RespawnNpc
      <3>2. Pend(n) = {} /\ Where(n) = {}
        BY <3>1 DEF NpcInv
      <3>3. PendIn(outbox', n) = {x} /\ OnceIn(outbox', n)
        <4>1. <<x>> \in Seq(Command)
          OBVIOUS
        <4>2. PICK cmds \in Seq(Command) : cmds = <<x>>
          BY <4>1
        <4>3. Appended(outbox, 0, cmds, outbox')
          BY <1>0, <2>2, <4>2, AppendedParts DEF Emit
        <4>4. /\ 1 \in DOMAIN cmds /\ cmds[1] = x
              /\ \A l \in DOMAIN cmds : About(cmds[l], n) => l = 1
          BY <4>2
        <4>5. About(x, n) /\ PendIn(outbox, n) = {}
          BY <2>3, <2>5, <3>2 DEF About, Pend
        <4>6. QED
          BY <1>0, <4>3, <4>4, <4>5, AppendFirst
      <3>4. Pend(n)' = {x} /\ AtMostOne(n)'
        BY <3>3 DEF Pend, AtMostOne
      <3>5. Where(n)' = {} /\ {x.from} \ {None} = {}
        BY <2>2, <2>3, <3>2 DEF Where
      <3>6. alive'[n] /\ pos'[n] = x.to
        BY <2>2, <2>3, <2>5 DEF TypeInv, TypeOK, Obj
      <3>7. Where(n)' = {owner'[n]} \ {None}
        BY <2>2, <3>2, <3>5 DEF NpcInv
      <3>8. QED
        BY <2>2, <3>1, <3>4, <3>5, <3>6, <3>7 DEF NpcInv
    <2>6. QED
      BY <2>4, <2>5
  <1>5. ASSUME NEW i \in PlayerId, NEW c \in Conn, RespawnRead(i, c) PROVE NpcInv(n)'
    <2>1. UNCHANGED <<owner, grid, batch, stepped, alive, pos, outbox>> /\ phase' # "ai"
      BY <1>5 DEF RespawnRead, history
    <2>2. QED
      BY <1>1, <2>1 DEF Kept
  <1>6. CASE RespawnWrite
    <2>1. cur[0].obj \in Conn /\ id[cur[0].obj] \in PlayerId /\ cur[0].from \in Sector
      BY <1>0, <1>6, HeldStep DEF RespawnWrite
    <2>2. PICK x \in Command : x = Migrate(id[cur[0].obj], cur[0].from, Village)
      BY <2>1, CommandTypes, WorldAssumption DEF Id
    <2>3. ~About(x, n)
      BY <2>1, <2>2, WorldAssumption DEF About, Migrate
    <2>4. Kept(outbox, outbox', n)
      BY <1>2, <1>6, <2>2, <2>3 DEF RespawnWrite
    <2>5. alive'[n] = alive[n] /\ pos'[n] = pos[n]
      BY <1>6, <2>1, WorldAssumption DEF RespawnWrite, TypeInv, TypeOK, Obj
    <2>6. UNCHANGED <<owner, grid, batch, stepped>> /\ phase' # "ai"
      BY <1>6 DEF RespawnWrite, history
    <2>7. QED
      BY <1>1, <2>4, <2>5, <2>6
  <1>7. QED
    BY <1>3, <1>4, <1>5, <1>6

(* The flush, one command at a time.                                       *)
LEMMA FlushNpc ==
  ASSUME TypeInv, NpcPhaseInv, Flush, ~EndFlush, NEW n \in Npc, n \notin tainted', NpcInv(n)
  PROVE  NpcInv(n)'
  <1>0. 0 \in Part /\ outbox \in Outboxes /\ grid \in [Sector -> SUBSET Id]
    BY WorldAssumption DEF Part, TypeInv, TypeOK, Outboxes
  <1>1. /\ phase # "ai" /\ phase' # "ai" /\ pos' = pos
        /\ \A p \in Part : n \notin batch'[p]
    <2>1. /\ phase \in {"flush", "flush2"} /\ phase' = phase /\ batch' = batch /\ pos' = pos
      BY DEF Flush, Flushing, DamagePlayer, WoundNpc, KillNpc, MigrateNpc,
         MigrateResolve, MigrateApply, AddNpc, objVars
    <2>2. QED
      BY <2>1 DEF NpcPhaseInv
  (* The command is about somebody else.                                   *)
  <1>2. ASSUME alive'[n] = alive[n], owner'[n] = owner[n], Where(n)' = Where(n),
               Kept(outbox, outbox', n)
        PROVE  NpcInv(n)'
    <2>1. Pend(n)' = Pend(n) /\ (AtMostOne(n) => AtMostOne(n)')
      BY <1>2 DEF Kept, Pend, AtMostOne
    <2>2. QED
      BY <1>1, <1>2, <2>1 DEF NpcInv
  <1>3. ASSUME NEW p \in Part, NextIn(p), Pop(p), ~About(Head(outbox[p]), n)
        PROVE  Kept(outbox, outbox', n)
    BY <1>0, <1>3, PopOther DEF NextIn, Pop
  (* The command is about n, which has no other.                           *)
  <1>4. ASSUME NEW p \in Part, NextIn(p), Pop(p), About(Head(outbox[p]), n)
        PROVE  /\ Pend(n) = {Head(outbox[p])} /\ Pend(n)' = {} /\ alive[n]
               /\ Head(outbox[p]) \in Command
    <2>1. Popped(outbox, p, outbox')
      BY <1>0, <1>4, PoppedParts DEF NextIn, Pop
    <2>2. Head(outbox[p]) \in Command /\ \E k \in DOMAIN outbox[p] : Head(outbox[p]) = outbox[p][k]
      BY <2>1 DEF Popped
    <2>3. Head(outbox[p]) \in Pend(n)
      BY <1>4, <2>2 DEF Pend, PendIn
    <2>4. AtMostOne(n) /\ alive[n]
      BY <2>3 DEF NpcInv
    <2>5. PendIn(outbox, n) = {Head(outbox[p])} /\ PendIn(outbox', n) = {}
      BY <1>0, <1>4, <2>4, PopLast DEF NextIn, Pop, AtMostOne
    <2>6. QED
      BY <2>2, <2>4, <2>5 DEF Pend
  <1>5. ASSUME NEW p \in Part, NEW i \in PlayerId, NEW k \in BOOLEAN, DamagePlayer(p, i, k)
        PROVE  NpcInv(n)'
    <2>1. ~About(Head(outbox[p]), n)
      BY <1>5 DEF DamagePlayer, Damage, About
    <2>2. Kept(outbox, outbox', n)
      BY <1>3, <1>5, <2>1 DEF DamagePlayer
    <2>3. owner' = owner /\ grid' = grid
      BY <1>5 DEF DamagePlayer
    <2>4. alive'[n] = alive[n]
      <3>1. PICK hit \in SUBSET Conn : alive' = [o \in Obj |-> alive[o] /\ o \notin hit]
        BY <1>5 DEF DamagePlayer, PlayingIn
      <3>2. n \in Obj /\ n \notin hit /\ alive[n] \in BOOLEAN
        BY <3>1, WorldAssumption DEF Obj, TypeInv, TypeOK
      <3>3. QED
        BY <3>1, <3>2
    <2>5. Where(n)' = Where(n)
      BY <2>3 DEF Where
    <2>6. QED
      BY <1>2, <2>2, <2>3, <2>4, <2>5
  <1>6. ASSUME NEW p \in Part, NEW m \in Npc, WoundNpc(p, m) PROVE NpcInv(n)'
    <2>1. ~About(Head(outbox[p]), n)
      BY <1>6 DEF WoundNpc, Damage, About
    <2>2. Kept(outbox, outbox', n)
      BY <1>3, <1>6, <2>1 DEF WoundNpc
    <2>3. owner' = owner /\ grid' = grid /\ alive' = alive
      BY <1>6 DEF WoundNpc, objVars
    <2>4. Where(n)' = Where(n)
      BY <2>3 DEF Where
    <2>5. QED
      BY <1>2, <2>2, <2>3, <2>4
  <1>7. ASSUME NEW p \in Part, NEW m \in Npc, KillNpc(p, m) PROVE NpcInv(n)'
    <2>1. /\ ~About(Head(outbox[p]), n) /\ NextIn(p) /\ Pop(p) /\ alive[m] /\ Taint(m)
          /\ alive' = [alive EXCEPT ![m] = FALSE] /\ owner' = [owner EXCEPT ![m] = None]
          /\ grid' = Removed(grid, m, pos[m])
      BY <1>7 DEF KillNpc, Damage, About
    <2>2. Kept(outbox, outbox', n)
      BY <1>3, <2>1
    <2>3. Where(n)' = IF n = m THEN Where(n) \ {pos[m]} ELSE Where(n)
      <3>1. pos[m] \in Sector
        BY DEF TypeInv, TypeOK, Obj
      <3>2. QED
        BY <1>0, <2>1, <3>1, WhereRemoved
    <2>4. CASE m # n
      <3>1. alive'[n] = alive[n] /\ owner'[n] = owner[n]
        BY <2>1, <2>4 DEF TypeInv, TypeOK, Obj
      <3>2. QED
        BY <1>2, <2>2, <2>3, <2>4, <3>1
    <2>5. CASE m = n
      <3>1. Pend(n) = {}
        BY <1>0, <2>1, <2>5, TaintBusy DEF Busy
      <3>2. Where(n) = {pos[n]}
        BY <2>1, <2>5, <3>1 DEF NpcInv
      <3>3. Where(n)' = {}
        BY <2>3, <2>5, <3>2
      <3>4. Pend(n)' = {}
        BY <2>2, <3>1 DEF Kept, Pend
      <3>5. ~alive'[n] /\ owner'[n] = None
        BY <2>1, <2>5 DEF TypeInv, TypeOK, Obj
      <3>6. QED
        BY <1>1, <3>3, <3>4, <3>5, NpcAtRest
    <2>6. QED
      BY <2>4, <2>5
  <1>8. ASSUME NEW p \in Part, NEW m \in Npc, MigrateNpc(p, m) PROVE NpcInv(n)'
    <2>1. /\ NextIn(p) /\ Pop(p) /\ alive' = alive
          /\ Head(outbox[p]).type = "Migrate" /\ Head(outbox[p]).target = m
          /\ grid' = Moved(grid, m, Head(outbox[p]).from, Head(outbox[p]).to)
          /\ owner' = [owner EXCEPT ![m] = Head(outbox[p]).to]
      BY <1>8 DEF MigrateNpc
    <2>2. PICK x \in Command : x = Head(outbox[p])
      BY <1>0, <2>1 DEF NextIn, Outboxes
    <2>3. x.from \in Sector /\ x.to \in Sector /\ x.from # None /\ x.to # None
      BY <2>1, <2>2, CommandFields, WorldAssumption
    <2>4. CASE m # n
      <3>1. ~About(Head(outbox[p]), n)
        BY <2>1, <2>4 DEF About
      <3>2. Kept(outbox, outbox', n)
        BY <1>3, <2>1, <3>1
      <3>3. Where(n)' = Where(n)
        BY <1>0, <2>1, <2>2, <2>3, <2>4, WhereMoved
      <3>4. owner'[n] = owner[n]
        BY <2>1, <2>4 DEF TypeInv, TypeOK, Obj
      <3>5. QED
        BY <1>2, <2>1, <3>2, <3>3, <3>4
    <2>5. CASE m = n
      <3>1. Pend(n) = {x} /\ Pend(n)' = {} /\ alive[n]
        <4>1. About(Head(outbox[p]), n)
          BY <2>1, <2>5 DEF About
        <4>2. QED
          BY <1>4, <2>1, <2>2, <4>1
      <3>2. Where(n) = {x.from} /\ x.to = pos[n]
        BY <2>3, <3>1 DEF NpcInv
      <3>3. Where(n)' = {x.to}
        BY <1>0, <2>1, <2>2, <2>3, <2>5, <3>2, WhereMoved
      <3>4. owner'[n] = x.to
        BY <2>1, <2>2, <2>5 DEF TypeInv, TypeOK, Obj
      <3>5. Where(n)' = {owner'[n]} \ {None}
        BY <2>3, <3>3, <3>4
      <3>6. Where(n)' = IF alive'[n] THEN {pos'[n]} ELSE {}
        BY <1>1, <2>1, <3>1, <3>2, <3>3
      <3>7. QED
        BY <1>1, <3>1, <3>5, <3>6, NpcAtRest
    <2>6. QED
      BY <2>4, <2>5
  <1>9. ASSUME NEW p \in Part, NEW i \in PlayerId, MigrateResolve(p, i) PROVE NpcInv(n)'
    <2>1. /\ NextIn(p) /\ Pop(p) /\ Head(outbox[p]).target = i
          /\ owner' = owner /\ grid' = grid /\ alive' = alive
      BY <1>9 DEF MigrateResolve, objVars
    <2>2. ~About(Head(outbox[p]), n)
      BY <2>1, WorldAssumption DEF About
    <2>3. Kept(outbox, outbox', n) /\ Where(n)' = Where(n)
      BY <1>3, <2>1, <2>2 DEF Where
    <2>4. QED
      BY <1>2, <2>1, <2>3
  <1>10. CASE MigrateApply
    <2>1. /\ cur[0].obj \in Conn /\ id[cur[0].obj] \in PlayerId
          /\ cur[0].from \in Sector /\ cur[0].to \in Sector
      BY <1>0, <1>10, HeldStep DEF MigrateApply
    <2>2. /\ outbox' = outbox /\ alive' = alive
          /\ grid' = Moved(grid, id[cur[0].obj], cur[0].from, cur[0].to)
          /\ owner' = [owner EXCEPT ![cur[0].obj] = cur[0].to]
      BY <1>10 DEF MigrateApply
    <2>3. n # id[cur[0].obj] /\ n # cur[0].obj
      BY <2>1, WorldAssumption
    <2>4. Where(n)' = Where(n)
      BY <1>0, <2>1, <2>2, <2>3, WhereMoved
    <2>5. owner'[n] = owner[n]
      BY <2>2, <2>3 DEF TypeInv, TypeOK, Obj
    <2>6. QED
      BY <1>2, <2>2, <2>4, <2>5 DEF Kept
  <1>11. ASSUME NEW p \in Part, NEW m \in Npc, AddNpc(p, m) PROVE NpcInv(n)'
    <2>1. /\ NextIn(p) /\ Pop(p) /\ alive' = alive
          /\ Head(outbox[p]).type = "GridAdd" /\ Head(outbox[p]).target = m
          /\ grid' = Added(grid, m, Head(outbox[p]).to)
          /\ owner' = [owner EXCEPT ![m] = Head(outbox[p]).to]
      BY <1>11 DEF AddNpc
    <2>2. PICK x \in Command : x = Head(outbox[p])
      BY <1>0, <2>1 DEF NextIn, Outboxes
    <2>3. x.to \in Sector /\ x.to # None /\ x.from = None
      <3>1. x.to \in Sector /\ x.to # None
        BY <2>1, <2>2, CommandFields, WorldAssumption
      <3>2. x.from = None
        BY <2>1, <2>2 DEF Command, Damage, Migrate, GridAdd
      <3>3. QED
        BY <3>1, <3>2
    <2>4. Where(n)' = IF n = m THEN Where(n) \cup {x.to} ELSE Where(n)
      BY <1>0, <2>1, <2>2, <2>3, WhereAdded
    <2>5. CASE m # n
      <3>1. ~About(Head(outbox[p]), n)
        BY <2>1, <2>5 DEF About
      <3>2. Kept(outbox, outbox', n)
        BY <1>3, <2>1, <3>1
      <3>3. owner'[n] = owner[n]
        BY <2>1, <2>5 DEF TypeInv, TypeOK, Obj
      <3>4. QED
        BY <1>2, <2>1, <2>4, <2>5, <3>2, <3>3
    <2>6. CASE m = n
      <3>1. Pend(n) = {x} /\ Pend(n)' = {} /\ alive[n]
        <4>1. About(Head(outbox[p]), n)
          BY <2>1, <2>6 DEF About
        <4>2. QED
          BY <1>4, <2>1, <2>2, <4>1
      <3>2. Where(n) = {} /\ x.to = pos[n]
        BY <2>3, <3>1 DEF NpcInv
      <3>3. Where(n)' = {x.to} /\ owner'[n] = x.to
        BY <2>1, <2>2, <2>4, <2>6, <3>2 DEF TypeInv, TypeOK, Obj
      <3>4. Where(n)' = {owner'[n]} \ {None}
        BY <2>3, <3>3
      <3>5. Where(n)' = IF alive'[n] THEN {pos'[n]} ELSE {}
        BY <1>1, <2>1, <3>1, <3>2, <3>3
      <3>6. QED
        BY <1>1, <3>1, <3>4, <3>5, NpcAtRest
    <2>7. QED
      BY <2>5, <2>6
  <1>12. QED
    BY <1>5, <1>6, <1>7, <1>8, <1>9, <1>10, <1>11 DEF Flush

LEMMA NpcPhaseStep ==
  ASSUME TypeInv, PhaseInv, NpcPhaseInv, Next
  PROVE  NpcPhaseInv'
  <1>0. 0 \in Part /\ outbox \in Outboxes
    BY WorldAssumption DEF Part, TypeInv, TypeOK, Outboxes
  <1>a. outbox' = outbox => \A i : Pend(i)' = Pend(i)
    BY DEF Pend
  <1>1. ASSUME NEW c \in Conn, Session(c) PROVE NpcPhaseInv'
    <2>1. UNCHANGED tickVars
      BY <1>1 DEF Session, Accept, LoginPlaying, LoginAdd, LoginOwn,
         Disconnect, CleanupGrid, Release
    <2>2. alive' = alive /\ respawn' = respawn
      BY <1>1 DEF Session, Accept, LoginPlaying, LoginAdd, LoginOwn,
         Disconnect, CleanupGrid, Release, objVars
    <2>3. QED
      BY <1>a, <2>1, <2>2 DEF tickVars, NpcPhaseInv
  <1> USE DEF TypeInv, TypeOK, NpcPhaseInv
  <1>2. CASE TickStart
    BY <1>a, <1>2 DEF TickStart, objVars
  <1>3. CASE RunWave
    <2>1. PICK S \in SUBSET left : left' = left \ S /\ todo' \in Strides(S)
      <3>1. PICK w \in 0 .. 3 : left' = left \ {s \in left : Wave[s] = w}
                              /\ todo' \in Strides({s \in left : Wave[s] = w})
        BY <1>3 DEF RunWave
      <3>2. QED
        BY <3>1
    <2>2. \A p \in Part : /\ todo'[p] \subseteq S
                          /\ \A q \in Part : p # q => todo'[p] \cap todo'[q] = {}
      BY <2>1 DEF Strides
    <2>3. UNCHANGED <<phase, batch, outbox, respawn, alive>>
      BY <1>3 DEF RunWave, objVars
    <2>4. QED
      BY <1>a, <2>1, <2>2, <2>3
  <1>4. CASE EndParallel
    <2>1. UNCHANGED <<batch, outbox, respawn, alive>> /\ \A p \in Part : batch[p] = {}
      BY <1>4 DEF EndParallel, Joined, objVars
    <2>2. (phase = "simulate" /\ phase' = "flush") \/ (phase = "ai" /\ phase' = "combat")
      BY <1>4 DEF EndParallel
    <2>3. QED
      BY <1>a, <2>1, <2>2
  <1>5. ASSUME NEW p \in Part, NEW s \in Sector, CopyObjects(p, s) PROVE NpcPhaseInv'
    <2>1. /\ UNCHANGED <<phase, left, outbox, respawn, alive>>
          /\ todo' = [todo EXCEPT ![p] = @ \ {s}]
      BY <1>5 DEF CopyObjects, objVars
    <2>2. ASSUME phase # "ai", NEW q \in Part, NEW n \in Npc PROVE n \notin batch'[q]
      BY <1>5, <2>2, WorldAssumption DEF CopyObjects
    <2>3. \A q \in Part : todo'[q] \subseteq todo[q]
      BY <2>1
    <2>4. QED
      BY <1>a, <2>1, <2>2, <2>3
  (* The phase goes on, and nothing is recorded about NPCs.                *)
  <1>6. ASSUME UNCHANGED <<phase, left, todo, respawn, alive>>,
               \A n \in Npc, q \in Part : n \in batch'[q] => n \in batch[q],
               phase = "simulate" => \A n \in Npc : Kept(outbox, outbox', n)
        PROVE  phase \in {"simulate", "ai"} => NpcPhaseInv'
    BY <1>6 DEF Kept, Pend
  <1>7. ASSUME NEW p \in Part, NEW i \in PlayerId, SimulateStay(p, i) PROVE NpcPhaseInv'
    BY <1>6, <1>7 DEF SimulateStay, objVars, Kept
  <1>8. ASSUME NEW p \in Part, NEW i \in PlayerId, NEW c \in Conn, NEW to \in Sector,
               SimulateRead(p, i, c, to)
        PROVE  NpcPhaseInv'
    BY <1>6, <1>8 DEF SimulateRead, objVars, Kept
  <1>9. ASSUME NEW p \in Part, SimulateWrite(p) PROVE NpcPhaseInv'
    <2>1. /\ id[cur[p].obj] \in PlayerId /\ cur[p].from \in Sector /\ cur[p].to \in Sector
      BY <1>9, HeldStep DEF SimulateWrite
    <2>2. PICK m \in Command : m = Migrate(id[cur[p].obj], cur[p].from, cur[p].to)
      BY <2>1, CommandTypes DEF Id
    <2>3. \A n \in Npc : Kept(outbox, outbox', n)
      <3> SUFFICES ASSUME NEW n \in Npc PROVE Kept(outbox, outbox', n)
        OBVIOUS
      <3>1. ~About(m, n)
        BY <2>1, <2>2, WorldAssumption DEF About, Migrate
      <3>2. <<m>> \in Seq(Command) /\ \A k \in DOMAIN <<m>> : ~About(<<m>>[k], n)
        BY <3>1
      <3>3. outbox' = [outbox EXCEPT ![p] = @ \o <<m>>]
        BY <1>9, <2>2 DEF SimulateWrite, Emit
      <3>4. QED
        BY <1>0, <3>2, <3>3, AppendOther
    <2>4. UNCHANGED <<phase, left, todo, respawn, alive, batch>> /\ phase = "simulate"
      BY <1>9 DEF SimulateWrite
    <2>5. QED
      BY <1>6, <2>3, <2>4
  <1>10. ASSUME NEW p \in Part, NEW m \in Npc,
                \/ MonsterStay(p, m) \/ MonsterArrive(p, m)
                \/ \E to \in Sector : MonsterMove(p, m, to)
         PROVE  NpcPhaseInv'
    <2>1. UNCHANGED <<phase, left, todo, respawn, alive>> /\ phase = "ai"
          /\ batch' = [batch EXCEPT ![p] = @ \ {m}]
      BY <1>10 DEF MonsterStay, MonsterArrive, MonsterMove, Monster, objVars
    <2>2. QED
      BY <1>6, <2>1
  <1>11. ASSUME NEW m \in Npc, Strike(m) PROVE NpcPhaseInv'
    BY <1>11 DEF Strike, objVars
  <1>12. CASE EndCombat
    BY <1>a, <1>12 DEF EndCombat, objVars
  <1>13. ASSUME NEW m \in Npc, RespawnNpc(m) PROVE NpcPhaseInv'
    BY <1>13 DEF RespawnNpc, Obj
  <1>14. ASSUME NEW i \in PlayerId, NEW c \in Conn, RespawnRead(i, c) PROVE NpcPhaseInv'
    BY <1>14 DEF RespawnRead
  <1>15. CASE RespawnWrite
    <2>1. cur[0].obj \in Conn
      BY <1>0, <1>15, HeldStep DEF RespawnWrite
    <2>2. \A n \in Npc : alive'[n] = alive[n]
      BY <1>15, <2>1, WorldAssumption DEF RespawnWrite, Obj
    <2>3. QED
      BY <1>15, <2>2 DEF RespawnWrite
  <1>16. CASE EndRespawn
    BY <1>a, <1>16 DEF EndRespawn, objVars
  <1>17. CASE Flush /\ ~EndFlush
    <2>1. /\ phase \in {"flush", "flush2"} /\ phase' = phase /\ batch' = batch
      BY <1>17 DEF Flush, Flushing, DamagePlayer, WoundNpc, KillNpc, MigrateNpc,
         MigrateResolve, MigrateApply, AddNpc, objVars
    <2>2. outbox' = outbox \/ \E p \in Part : NextIn(p) /\ Pop(p)
      BY <1>17 DEF Flush, DamagePlayer, WoundNpc, KillNpc, MigrateNpc,
         MigrateResolve, MigrateApply, AddNpc
    <2>3. ASSUME NEW n \in Npc, Pend(n) = {} PROVE Pend(n)' = {}
      <3>1. ASSUME NEW p \in Part, NextIn(p), Pop(p) PROVE Pend(n)' = {}
        <4>1. PendIn(outbox', n) = {}
          BY <1>0, <2>3, <3>1, PopNone DEF NextIn, Pop, Pend
        <4>2. QED
          BY <4>1 DEF Pend
      <3>2. QED
        BY <1>a, <2>2, <2>3, <3>1
    <2>4. ASSUME NEW n \in Npc, n \in respawn' PROVE ~alive'[n]
      <3>1. ASSUME NEW p \in Part, NEW i \in PlayerId, NEW k \in BOOLEAN, DamagePlayer(p, i, k)
            PROVE  ~alive'[n]
        <4>1. PICK hit \in SUBSET Conn : /\ alive' = [o \in Obj |-> alive[o] /\ o \notin hit]
                                         /\ respawn' = respawn \cup hit
          BY <3>1 DEF DamagePlayer, PlayingIn
        <4>2. n \in Obj /\ n \in respawn
          BY <2>4, <4>1, WorldAssumption DEF Obj
        <4>3. QED
          BY <4>1, <4>2
      <3>2. ASSUME NEW p \in Part, NEW m \in Npc, KillNpc(p, m)
            PROVE  ~alive'[n]
        BY <2>4, <3>2 DEF KillNpc, Obj
      <3>3. CASE alive' = alive /\ respawn' = respawn
        BY <2>4, <3>3
      <3>4. QED
        BY <1>17, <3>1, <3>2, <3>3 DEF Flush, WoundNpc, MigrateNpc,
           MigrateResolve, MigrateApply, AddNpc, objVars
    <2>5. QED
      BY <2>1, <2>3, <2>4
  <1>18. CASE EndFlush
    <2>1. \A i : Pend(i)' = {}
      BY <1>18 DEF EndFlush, Pend, PendIn
    <2>2. QED
      BY <1>18, <2>1 DEF EndFlush, Flushing, objVars, PhaseInv
  <1>19. QED
    BY <1>1, <1>2, <1>3, <1>4, <1>5, <1>7, <1>8, <1>9, <1>10, <1>11, <1>12,
       <1>13, <1>14, <1>15, <1>16, <1>17, <1>18 DEF Next, Tick, Simulate

-----------------------------------------------------------------------------
(* What the running phase has stepped, and the owner of a player.          *)

SteppedInv ==
  /\ phase = "simulate" => stepped \subseteq Conn
  /\ phase = "ai" => stepped \subseteq Npc
  /\ \A c \in stepped \cap Conn : pc[c] \in {"in", "closing", "removed", "ended"}

(* A player that was stepped is not met again: no worker holds its id, and *)
(* the sectors in which it is registered have been handed out.             *)
StepInv(i) ==
  phase = "simulate" /\ slot[i] \in stepped =>
    /\ \A p \in Part : i \notin batch[p]
    /\ \A s \in Where(i), p \in Part : s \notin left /\ s \notin todo[p]

(* The owner is the sector in which the player is registered.              *)
OwnedInv(i) ==
  slot[i] # None /\ pc[slot[i]] = "in" => Where(i) = {owner[slot[i]]}

LEMMA SteppedStep ==
  ASSUME TypeInv, SteppedInv, Next
  PROVE  SteppedInv'
  <1>1. ASSUME NEW c \in Conn, Session(c) PROVE SteppedInv'
    <2>1. phase' = phase /\ stepped' = stepped
      <3>1. phase' = phase
        BY <1>1 DEF Session, Accept, LoginPlaying, LoginAdd, LoginOwn,
           Disconnect, CleanupGrid, Release, tickVars
      <3>2. stepped' = stepped
        BY <1>1 DEF Session, Accept, LoginPlaying, LoginAdd, LoginOwn,
           Disconnect, CleanupGrid, Release, history
      <3>3. QED
        BY <3>1, <3>2
    <2>2. PICK x : /\ pc' = [pc EXCEPT ![c] = x]
                   /\ pc[c] \in {"in", "closing", "removed", "ended"} =>
                        x \in {"in", "closing", "removed", "ended"}
      BY <1>1 DEF Session, Accept, LoginPlaying, LoginAdd, LoginOwn,
         Disconnect, CleanupGrid, Release
    <2>3. \A d \in Conn : pc'[d] = IF d = c THEN x ELSE pc[d]
      BY <2>2 DEF TypeInv, TypeOK
    <2>4. QED
      BY <2>1, <2>2, <2>3 DEF SteppedInv
  <1>2. CASE Tick
    <2>0. pc' = pc
      BY <1>2, TickKeepsConn DEF connVars
    <2>1. ASSUME stepped' = {} PROVE SteppedInv'
      BY <2>1 DEF SteppedInv
    <2>2. ASSUME stepped' = stepped, phase' = phase \/ phase' \notin {"simulate", "ai"}
          PROVE  SteppedInv'
      BY <2>0, <2>2 DEF SteppedInv
    <2>3. ASSUME NEW S \in SUBSET Conn, phase = "simulate", phase' = phase,
                 \A c \in S : pc[c] = "in", stepped' = stepped \cup S
          PROVE  SteppedInv'
      BY <2>0, <2>3 DEF SteppedInv
    <2>4. ASSUME NEW S \in SUBSET Npc, phase = "ai", phase' = phase,
                 stepped' = stepped \cup S
          PROVE  SteppedInv'
      BY <2>0, <2>4, WorldAssumption DEF SteppedInv
    <2>5. CASE TickStart
      BY <2>1, <2>5 DEF TickStart
    <2>6. CASE RunWave \/ EndParallel \/ EndCombat \/ EndRespawn
      BY <2>2, <2>6 DEF RunWave, EndParallel, EndCombat, EndRespawn, history
    <2>7. ASSUME NEW p \in Part, Simulate(p) PROVE SteppedInv'
      <3>1. CASE \E s \in Sector : CopyObjects(p, s)
        BY <2>2, <3>1 DEF CopyObjects, history
      <3>2. ASSUME NEW i \in PlayerId, SimulateStay(p, i) PROVE SteppedInv'
        <4>1. PICK S \in SUBSET Conn : S = {c \in PlayingIn(i) : pc[c] = "in"}
          BY DEF PlayingIn
        <4>2. stepped' = stepped \cup S /\ phase = "simulate" /\ phase' = phase
          BY <3>2, <4>1 DEF SimulateStay
        <4>3. QED
          BY <2>3, <4>1, <4>2
      <3>3. ASSUME NEW i \in PlayerId, NEW c \in Conn, NEW to \in Sector,
                   SimulateRead(p, i, c, to)
            PROVE  SteppedInv'
        <4>1. phase = "simulate" /\ phase' = phase /\ stepped' = stepped \cup {c}
          BY <3>3 DEF SimulateRead
        <4>2. PICK S \in SUBSET Conn : S = {c}
          OBVIOUS
        <4>3. \A d \in S : pc[d] = "in"
          BY <3>3, <4>2 DEF SimulateRead
        <4>4. QED
          BY <2>3, <4>1, <4>2, <4>3
      <3>4. CASE SimulateWrite(p)
        BY <2>2, <3>4 DEF SimulateWrite, history
      <3>5. ASSUME NEW n \in Npc,
                   MonsterStay(p, n) \/ MonsterArrive(p, n)
                     \/ \E to \in Sector : MonsterMove(p, n, to)
            PROVE  SteppedInv'
        <4>1. phase = "ai" /\ phase' = phase
          BY <3>5 DEF MonsterStay, MonsterArrive, MonsterMove, Monster
        <4>2. \E S \in SUBSET {n} : stepped' = stepped \cup S
          BY <3>5 DEF MonsterStay, MonsterArrive, MonsterMove, Monster
        <4>3. QED
          BY <2>4, <4>1, <4>2
      <3>6. QED
        BY <2>7, <3>1, <3>2, <3>3, <3>4, <3>5 DEF Simulate
    <2>8. CASE \/ \E n \in Npc : Strike(n) \/ RespawnNpc(n)
               \/ \E i \in PlayerId, c \in Conn : RespawnRead(i, c)
               \/ RespawnWrite
      BY <2>2, <2>8 DEF Strike, RespawnNpc, RespawnRead, RespawnWrite, history
    <2>9. CASE Flush /\ ~EndFlush
      <3>1. stepped' = stepped
        BY <2>9 DEF Flush, DamagePlayer, WoundNpc, KillNpc, MigrateNpc,
           MigrateResolve, MigrateApply, AddNpc, history
      <3>2. phase' = phase
        BY <2>9 DEF Flush, DamagePlayer, WoundNpc, KillNpc, MigrateNpc,
           MigrateResolve, MigrateApply, AddNpc
      <3>3. QED
        BY <2>2, <3>1, <3>2
    <2>10. CASE EndFlush
      <3>1. stepped' = {} \/ (stepped' = stepped /\ phase' \notin {"simulate", "ai"})
        BY <2>10 DEF EndFlush
      <3>2. QED
        BY <2>1, <2>2, <3>1
    <2>11. QED
      BY <1>2, <2>5, <2>6, <2>7, <2>8, <2>9, <2>10 DEF Tick
  <1>3. QED
    BY <1>1, <1>2 DEF Next

LEMMA StepStep ==
  ASSUME MemberInv, SteppedInv, Next,
         NEW i \in PlayerId, i \notin tainted, StepInv(i)
  PROVE  StepInv(i)'
  <1>0. /\ TypeInv /\ SlotInv /\ PlayerInv(i)
        /\ \A j \in PlayerId : slot[j] # None => slot[j] \in Conn /\ id[slot[j]] = j
    BY DEF MemberInv, TypeInv, TypeOK, SlotInv
  <1>s. None \notin stepped
    BY <1>0, WorldAssumption DEF TypeInv, TypeOK, Obj
  (* Nothing new to meet, and i is met no more.                            *)
  <1>1. ASSUME phase = "simulate", slot[i] \in stepped,
               \A p \in Part : i \in batch'[p] => i \in batch[p],
               Where(i)' \subseteq Where(i),
               \A s \in Sector : (s \in left' \/ \E p \in Part : s \in todo'[p]) =>
                                 (s \in left \/ \E p \in Part : s \in todo[p])
        PROVE  StepInv(i)'
    <2>1. \A s \in Where(i)' : s \in Sector /\ s \in Where(i)
      BY <1>1 DEF Where
    <2>2. QED
      BY <1>1, <2>1 DEF StepInv
  <1>2. ASSUME NEW c \in Conn, Session(c) PROVE StepInv(i)'
    <2>1. UNCHANGED tickVars
      BY <1>2 DEF Session, Accept, LoginPlaying, LoginAdd, LoginOwn,
         Disconnect, CleanupGrid, Release
    <2>2. stepped' = stepped
      BY <1>2 DEF Session, Accept, LoginPlaying, LoginAdd, LoginOwn,
         Disconnect, CleanupGrid, Release, history
    <2>3. SUFFICES ASSUME phase = "simulate", slot'[i] \in stepped PROVE StepInv(i)'
      BY <2>1, <2>2 DEF tickVars, StepInv
    <2>4. slot'[i] = slot[i]
      <3>1. ASSUME NEW j \in PlayerId, Accept(c, j) PROVE slot'[i] = slot[i]
        <4>1. c \notin stepped
          BY <3>1 DEF Accept, SteppedInv
        <4>2. slot'[i] = IF i = j THEN c ELSE slot[i]
          BY <1>0, <3>1 DEF Accept, TypeInv, TypeOK
        <4>3. QED
          BY <2>3, <4>1, <4>2
      <3>2. CASE Release(c)
        BY <1>0, <1>s, <2>3, <3>2 DEF Release, TypeInv, TypeOK
      <3>3. CASE slot' = slot
        BY <3>3
      <3>4. QED
        BY <1>2, <3>1, <3>2, <3>3 DEF Session, LoginPlaying, LoginAdd, LoginOwn,
           Disconnect, CleanupGrid
    <2>5. Where(i)' \subseteq Where(i)
      <3>0. pos[c] \in Sector /\ grid \in [Sector -> SUBSET Id]
        BY <1>0 DEF TypeInv, TypeOK, Obj
      <3>1. CASE LoginAdd(c)
        <4>1. c \notin stepped
          BY <3>1 DEF LoginAdd, SteppedInv
        <4>2. slot[id[c]] = c
          BY <1>0, <3>1 DEF LoginAdd, SlotInv
        <4>3. i # id[c]
          BY <2>3, <2>4, <4>1, <4>2
        <4>4. QED
          BY <3>0, <3>1, <4>3, WhereAdded DEF LoginAdd
      <3>2. CASE CleanupGrid(c)
        BY <3>0, <3>2, WhereRemoved DEF CleanupGrid
      <3>3. CASE grid' = grid
        BY <3>3 DEF Where
      <3>4. QED
        BY <1>2, <3>1, <3>2, <3>3 DEF Session, Accept, LoginPlaying, LoginOwn,
           Disconnect, Release, objVars
    <2>6. QED
      BY <1>1, <2>1, <2>3, <2>4, <2>5 DEF tickVars
  <1>3. CASE Tick
    <2>0. pc' = pc /\ slot' = slot
      BY <1>3, TickKeepsConn DEF connVars
    <2>1. ASSUME phase' # "simulate" \/ stepped' = {} PROVE StepInv(i)'
      BY <2>1 DEF StepInv
    <2>2. ASSUME phase = "simulate", stepped' = stepped, grid' = grid,
                 \A p \in Part : i \in batch'[p] /\ slot[i] \in stepped => i \in batch[p],
                 \A s \in Sector : (s \in left' \/ \E p \in Part : s \in todo'[p]) =>
                                   (s \in left \/ \E p \in Part : s \in todo[p])
          PROVE  StepInv(i)'
      <3>1. CASE slot[i] \in stepped
        <4>1. Where(i)' \subseteq Where(i)
          BY <2>2 DEF Where
        <4>2. QED
          BY <1>1, <2>2, <3>1, <4>1
      <3>2. CASE slot[i] \notin stepped
        BY <2>0, <2>2, <3>2 DEF StepInv
      <3>3. QED
        BY <3>1, <3>2
    <2>3. CASE TickStart \/ EndParallel \/ EndCombat \/ EndRespawn \/ EndFlush
      BY <2>1, <2>3 DEF TickStart, EndParallel, EndCombat, EndRespawn, EndFlush
    <2>4. CASE RunWave
      <3>1. CASE phase # "simulate"
        BY <2>1, <2>4, <3>1 DEF RunWave
      <3>2. CASE phase = "simulate"
        <4>1. \A s \in Sector : (s \in left' \/ \E p \in Part : s \in todo'[p]) => s \in left
          BY <2>4 DEF RunWave, Strides
        <4>2. stepped' = stepped /\ grid' = grid /\ batch' = batch
          BY <2>4 DEF RunWave, objVars, history
        <4>3. QED
          BY <2>2, <3>2, <4>1, <4>2
      <3>3. QED
        BY <3>1, <3>2
    <2>5. ASSUME NEW p \in Part, Simulate(p) PROVE StepInv(i)'
      (* The id j is taken off the list of p, and c has been stepped.      *)
      <3>1. ASSUME NEW j \in PlayerId, NEW S \in SUBSET Conn, phase = "simulate", j \in batch[p],
                   batch' = [batch EXCEPT ![p] = @ \ {j}],
                   \A c \in S : slot[j] = c, stepped' = stepped \cup S,
                   UNCHANGED <<grid, left, todo>>
            PROVE  StepInv(i)'
        <4>1. \A q \in Part : batch'[q] = IF q = p THEN batch[q] \ {j} ELSE batch[q]
          BY <1>0, <3>1 DEF TypeInv, TypeOK
        <4>2. Where(i)' = Where(i)
          BY <3>1 DEF Where
        <4>3. CASE slot[i] \in stepped
          BY <1>1, <3>1, <4>1, <4>2, <4>3
        <4>4. CASE slot[i] \notin stepped /\ slot[i] \in S
          <5>1. slot[i] = slot[j]
            BY <3>1, <4>4
          <5>2. slot[j] # None
            BY <3>1, <4>4, <5>1, WorldAssumption
          <5>3. i = j
            BY <1>0, <5>1, <5>2
          <5>4. \A q \in Part : i \notin batch'[q]
            BY <1>0, <3>1, <4>1, <5>3 DEF PlayerInv, TokenInv
          <5>5. \A s \in Where(i), q \in Part : s \notin left /\ s \notin todo[q]
            BY <1>0, <3>1, <5>3 DEF PlayerInv, TokenInv, Busy
          <5>6. QED
            BY <3>1, <4>2, <5>4, <5>5 DEF StepInv
        <4>5. CASE slot[i] \notin stepped /\ slot[i] \notin S
          BY <2>0, <3>1, <4>5 DEF StepInv
        <4>6. QED
          BY <4>3, <4>4, <4>5
      <3>2. ASSUME NEW s \in Sector, CopyObjects(p, s) PROVE StepInv(i)'
        <4>1. CASE phase # "simulate"
          BY <2>1, <3>2, <4>1 DEF CopyObjects
        <4>2. CASE phase = "simulate"
          <5>1. /\ s \in todo[p] /\ UNCHANGED <<left, grid, stepped>>
                /\ todo' = [todo EXCEPT ![p] = @ \ {s}]
            BY <3>2 DEF CopyObjects, objVars, history
          <5>2. \A q \in Part : i \in batch'[q] => i \in batch[q] \/ i \in grid[s]
            BY <1>0, <3>2 DEF CopyObjects, TypeInv, TypeOK
          <5>3. slot[i] \in stepped => i \notin grid[s]
            BY <4>2, <5>1 DEF StepInv, Where
          <5>4. \A t \in Sector, q \in Part : t \in todo'[q] => t \in todo[q]
            BY <1>0, <5>1 DEF TypeInv, TypeOK
          <5>5. QED
            BY <2>2, <4>2, <5>1, <5>2, <5>3, <5>4
        <4>3. QED
          BY <4>1, <4>2
      <3>3. ASSUME NEW j \in PlayerId, SimulateStay(p, j) PROVE StepInv(i)'
        <4>1. PICK S \in SUBSET Conn : S = {c \in PlayingIn(j) : pc[c] = "in"}
          BY DEF PlayingIn
        <4>2. \A c \in S : slot[j] = c
          BY <4>1 DEF PlayingIn
        <4>3. QED
          BY <3>1, <3>3, <4>1, <4>2 DEF SimulateStay, objVars
      <3>4. ASSUME NEW j \in PlayerId, NEW c \in Conn, NEW to \in Sector,
                   SimulateRead(p, j, c, to)
            PROVE  StepInv(i)'
        <4>1. PICK S \in SUBSET Conn : S = {c}
          OBVIOUS
        <4>2. \A d \in S : slot[j] = d
          BY <3>4, <4>1 DEF SimulateRead
        <4>3. QED
          BY <3>1, <3>4, <4>1, <4>2 DEF SimulateRead, objVars
      <3>5. CASE SimulateWrite(p)
        BY <2>2, <3>5 DEF SimulateWrite, history
      <3>6. CASE \/ \E n \in Npc : MonsterStay(p, n) \/ MonsterArrive(p, n)
                 \/ \E n \in Npc, to \in Sector : MonsterMove(p, n, to)
        <4>1. phase' # "simulate"
          BY <3>6 DEF MonsterStay, MonsterArrive, MonsterMove, Monster
        <4>2. QED
          BY <2>1, <4>1
      <3>7. QED
        BY <2>5, <3>2, <3>3, <3>4, <3>5, <3>6 DEF Simulate
    <2>6. CASE \/ \E n \in Npc : Strike(n) \/ RespawnNpc(n)
               \/ \E j \in PlayerId, c \in Conn : RespawnRead(j, c)
               \/ RespawnWrite
      BY <2>1, <2>6 DEF Strike, RespawnNpc, RespawnRead, RespawnWrite
    <2>7. CASE Flush /\ ~EndFlush
      <3>1. phase \in {"flush", "flush2"} /\ phase' = phase
        BY <2>7 DEF Flush, Flushing, DamagePlayer, WoundNpc, KillNpc, MigrateNpc,
           MigrateResolve, MigrateApply, AddNpc
      <3>2. QED
        BY <2>1, <3>1
    <2>8. QED
      BY <1>3, <2>3, <2>4, <2>5, <2>6, <2>7 DEF Tick
  <1>4. QED
    BY <1>2, <1>3 DEF Next

LEMMA OwnedStep ==
  ASSUME MemberInv, Next, NEW i \in PlayerId, i \notin tainted, OwnedInv(i)
  PROVE  OwnedInv(i)'
  <1>0. /\ TypeInv /\ SlotInv /\ PlayerInv(i) /\ grid \in [Sector -> SUBSET Id]
        /\ \A j \in PlayerId : slot[j] # None => slot[j] \in Conn /\ id[slot[j]] = j
    BY DEF MemberInv, TypeInv, TypeOK, SlotInv
  <1>1. ASSUME NEW c \in Conn, Session(c) PROVE OwnedInv(i)'
    <2> USE DEF TypeInv, TypeOK
    <2>0. pos[c] \in Sector
      BY <1>0 DEF Obj
    <2>1. ASSUME NEW j \in PlayerId, Accept(c, j) PROVE OwnedInv(i)'
      <3>1. /\ slot' = [slot EXCEPT ![j] = c] /\ pc' = [pc EXCEPT ![c] = "accepted"]
            /\ UNCHANGED objVars
        BY <2>1 DEF Accept
      <3>2. QED
        BY <1>0, <3>1 DEF OwnedInv, Where, objVars
    <2>2. ASSUME NEW s \in LoginSpot, LoginPlaying(c, s) PROVE OwnedInv(i)'
      BY <1>0, <2>2 DEF LoginPlaying, OwnedInv, Where
    <2>3. CASE LoginAdd(c)
      <3>1. /\ slot' = slot /\ owner' = owner /\ pc' = [pc EXCEPT ![c] = "added"]
            /\ grid' = Added(grid, id[c], pos[c]) /\ pc[c] = "playing"
        BY <2>3 DEF LoginAdd
      <3>2. i # id[c] => Where(i)' = Where(i)
        BY <1>0, <2>0, <3>1, WhereAdded
      <3>3. i = id[c] => slot[i] = c
        BY <1>0, <3>1 DEF SlotInv
      <3>4. QED
        BY <1>0, <3>1, <3>2, <3>3 DEF OwnedInv
    <2>4. CASE LoginOwn(c)
      <3>1. /\ slot' = slot /\ grid' = grid /\ pc' = [pc EXCEPT ![c] = "in"]
            /\ owner' = [owner EXCEPT ![c] = pos[c]] /\ pc[c] = "added"
        BY <2>4 DEF LoginOwn
      <3>2. Where(i)' = Where(i)
        BY <3>1 DEF Where
      <3>3. CASE slot[i] = c
        <4>1. Present(i) /\ slot[i] # None
          BY <3>1, <3>3, WorldAssumption DEF Present, Entered
        <4>2. Pend(i) = {} /\ Held(i) = {}
          BY <1>0, <3>1, <3>3 DEF PlayerInv, TokenInv
        <4>3. Where(i) = {pos[c]}
          BY <1>0, <3>3, <4>1, <4>2 DEF PlayerInv, PlaceInv
        <4>4. owner'[c] = pos[c]
          BY <1>0, <3>1 DEF Obj
        <4>5. QED
          BY <3>1, <3>2, <3>3, <4>3, <4>4 DEF OwnedInv
      <3>4. CASE slot[i] # c
        BY <1>0, <3>1, <3>2, <3>4 DEF OwnedInv
      <3>5. QED
        BY <3>3, <3>4
    <2>5. CASE Disconnect(c)
      BY <1>0, <2>5 DEF Disconnect, OwnedInv, Where, objVars
    <2>6. CASE CleanupGrid(c)
      <3>1. /\ slot' = slot /\ owner' = [owner EXCEPT ![c] = None]
            /\ pc' = [pc EXCEPT ![c] = "removed"]
            /\ grid' = Removed(grid, id[c], pos[c]) /\ pc[c] = "closing"
        BY <2>6 DEF CleanupGrid
      <3>2. i # id[c] => Where(i)' = Where(i)
        BY <1>0, <2>0, <3>1, WhereRemoved
      <3>3. i = id[c] => slot[i] = c
        BY <1>0, <3>1 DEF SlotInv
      <3>4. QED
        BY <1>0, <3>1, <3>2, <3>3 DEF OwnedInv
    <2>7. CASE Release(c)
      <3>1. /\ slot' = [slot EXCEPT ![id[c]] = None] /\ UNCHANGED objVars
            /\ pc' = [pc EXCEPT ![c] = "ended"]
        BY <2>7 DEF Release
      <3>2. QED
        BY <1>0, <3>1 DEF OwnedInv, Where, objVars
    <2>8. QED
      BY <1>1, <2>1, <2>2, <2>3, <2>4, <2>5, <2>6, <2>7 DEF Session
  <1>2. CASE Tick
    <2>0. pc' = pc /\ slot' = slot /\ id' = id
      BY <1>2, TickKeepsConn DEF connVars
    <2>1. ASSUME Where(i)' = Where(i), slot[i] # None => owner'[slot[i]] = owner[slot[i]]
          PROVE  OwnedInv(i)'
      BY <2>0, <2>1 DEF OwnedInv
    <2>2. CASE UNCHANGED <<grid, owner>>
      BY <2>1, <2>2 DEF Where
    <2>3. ASSUME NEW n \in Npc, NEW o, owner' = [owner EXCEPT ![n] = o],
                 Where(i)' = Where(i)
          PROVE  OwnedInv(i)'
      BY <1>0, <2>1, <2>3, WorldAssumption DEF TypeInv, TypeOK, Obj
    <2>4. ASSUME NEW p \in Part, NEW n \in Npc,
                 KillNpc(p, n) \/ MigrateNpc(p, n) \/ AddNpc(p, n)
          PROVE  OwnedInv(i)'
      <3>1. i # n
        BY WorldAssumption
      <3>2. Where(i)' = Where(i)
        <4>0. \A s \in Sector : grid'[s] \ {n} = grid[s] \ {n}
          BY <1>0, <2>4 DEF KillNpc, MigrateNpc, AddNpc, Removed, Moved, Added
        <4>1. QED
          BY <3>1, <4>0 DEF Where
      <3>3. \E o : owner' = [owner EXCEPT ![n] = o]
        BY <2>4 DEF KillNpc, MigrateNpc, AddNpc
      <3>4. QED
        BY <2>3, <3>2, <3>3
    <2>5. CASE MigrateApply
      <3>0. 0 \in Part
        BY WorldAssumption DEF Part
      <3>1. /\ cur[0].obj \in Conn /\ id[cur[0].obj] \in PlayerId
            /\ cur[0].from \in Sector /\ cur[0].to \in Sector
        BY <1>0, <2>5, <3>0, HeldStep DEF MigrateApply
      <3>2. /\ grid' = Moved(grid, id[cur[0].obj], cur[0].from, cur[0].to)
            /\ owner' = [owner EXCEPT ![cur[0].obj] = cur[0].to]
            /\ phase \in Flushes
        BY <2>5 DEF MigrateApply, Flushes
      <3>3. CASE i = id[cur[0].obj]
        <4>1. 0 \in Held(i)
          BY <3>0, <3>1, <3>3, WorldAssumption DEF Held
        <4>2. cur[0].obj = slot[i] /\ Where(i) = {cur[0].from}
          BY <1>0, <3>2, <4>1 DEF PlayerInv, TokenInv, PlaceInv
        <4>3. Where(i)' = {cur[0].to}
          <5>1. PICK a \in Sector, b \in Sector : a = cur[0].from /\ b = cur[0].to
            BY <3>1
          <5>2. grid' = Moved(grid, i, a, b) /\ Where(i) = {a}
            BY <3>2, <3>3, <4>2, <5>1
          <5>3. QED
            BY <1>0, <5>1, <5>2, WhereMoved
        <4>4. owner'[slot[i]] = cur[0].to
          BY <1>0, <3>1, <3>2, <4>2 DEF TypeInv, TypeOK, Obj
        <4>5. QED
          BY <2>0, <4>3, <4>4 DEF OwnedInv
      <3>4. CASE i # id[cur[0].obj]
        <4>1. Where(i)' = Where(i)
          BY <1>0, <3>1, <3>2, <3>4, WhereMoved
        <4>2. slot[i] # None => slot[i] # cur[0].obj
          BY <1>0, <3>4
        <4>3. slot[i] # None => owner'[slot[i]] = owner[slot[i]]
          BY <1>0, <3>2, <4>2 DEF TypeInv, TypeOK, Obj
        <4>4. QED
          BY <2>1, <4>1, <4>3
      <3>5. QED
        BY <3>3, <3>4
    <2>6. QED
      <3>1. \/ UNCHANGED <<grid, owner>> \/ MigrateApply
            \/ \E p \in Part, n \in Npc : KillNpc(p, n) \/ MigrateNpc(p, n) \/ AddNpc(p, n)
        BY <1>2 DEF Tick, TickStart, RunWave, EndParallel, Simulate, CopyObjects,
           SimulateStay, SimulateRead, SimulateWrite, MonsterStay, MonsterMove,
           MonsterArrive, Strike, EndCombat, RespawnNpc, RespawnRead, RespawnWrite,
           EndRespawn, Flush, DamagePlayer, WoundNpc, MigrateResolve, EndFlush, objVars
      <3>2. QED
        BY <2>2, <2>4, <2>5, <3>1
  <1>3. QED
    BY <1>1, <1>2 DEF Next

-----------------------------------------------------------------------------
(* The whole invariant, and what follows from it.                          *)
FullInv ==
  /\ MemberInv /\ NpcPhaseInv /\ SteppedInv
  /\ \A n \in Npc \ tainted : NpcInv(n)
  /\ \A i \in PlayerId \ tainted : StepInv(i) /\ OwnedInv(i)

LEMMA InitFull == Init => FullInv
  <1> SUFFICES ASSUME Init PROVE FullInv
    OBVIOUS
  <1>1. MemberInv /\ NpcPhaseInv /\ \A n \in Npc : NpcInv(n)
    BY InitMember, InitNpc
  <1>2. phase = "idle" /\ stepped = {} /\ \A i \in PlayerId : slot[i] = None
    BY DEF Init
  <1>3. SteppedInv /\ \A i \in PlayerId : StepInv(i) /\ OwnedInv(i)
    BY <1>2 DEF SteppedInv, StepInv, OwnedInv
  <1>4. QED
    BY <1>1, <1>3 DEF FullInv

LEMMA TaintedGrows ==
  ASSUME Next
  PROVE  tainted \subseteq tainted'
  <1>1. ASSUME NEW c \in Conn, Session(c) PROVE tainted \subseteq tainted'
    BY <1>1 DEF Session, Accept, LoginPlaying, LoginAdd, LoginOwn,
       Disconnect, CleanupGrid, Release, Taint, history
  <1>2. CASE Tick
    BY <1>2 DEF Tick, TickStart, RunWave, EndParallel, Simulate, CopyObjects,
       SimulateStay, SimulateRead, SimulateWrite, MonsterStay, MonsterMove,
       MonsterArrive, Strike, EndCombat, RespawnNpc, RespawnRead, RespawnWrite,
       EndRespawn, Flush, DamagePlayer, WoundNpc, KillNpc, MigrateNpc,
       MigrateResolve, MigrateApply, AddNpc, EndFlush, Taint, history
  <1>3. QED
    BY <1>1, <1>2 DEF Next

LEMMA FullStep ==
  ASSUME FullInv, [Next]_vars
  PROVE  FullInv'
  <1>1. MemberInv'
    BY TypeStep, MemberStep DEF FullInv, MemberInv
  <1>2. CASE Next
    <2>1. NpcPhaseInv' /\ SteppedInv'
      BY <1>2, NpcPhaseStep, SteppedStep DEF FullInv, MemberInv
    <2>2. ASSUME NEW n \in Npc, n \notin tainted' PROVE NpcInv(n)'
      <3>1. TypeInv /\ PhaseInv /\ NpcPhaseInv /\ NpcInv(n)
        BY <1>2, <2>2, TaintedGrows DEF FullInv, MemberInv
      <3>2. ASSUME NEW c \in Conn, Session(c) PROVE NpcInv(n)'
        BY <3>1, <3>2, SessionNpc
      <3>3. CASE TickStart \/ RunWave \/ EndParallel \/ EndCombat \/ EndRespawn \/ EndFlush
        BY <3>1, <3>3, WaveNpc
      <3>4. ASSUME NEW p \in Part, Simulate(p) PROVE NpcInv(n)'
        BY <2>2, <3>1, <3>4, SimulateNpc
      <3>5. CASE \/ \E m \in Npc : Strike(m) \/ RespawnNpc(m)
                 \/ \E j \in PlayerId, c \in Conn : RespawnRead(j, c)
                 \/ RespawnWrite
        BY <3>1, <3>5, CombatNpc
      <3>6. CASE Flush /\ ~EndFlush
        BY <2>2, <3>1, <3>6, FlushNpc
      <3>7. QED
        BY <1>2, <3>2, <3>3, <3>4, <3>5, <3>6 DEF Next, Tick
    <2>3. ASSUME NEW i \in PlayerId, i \notin tainted' PROVE StepInv(i)' /\ OwnedInv(i)'
      BY <1>2, <2>3, TaintedGrows, StepStep, OwnedStep DEF FullInv
    <2>4. QED
      BY <1>1, <2>1, <2>2, <2>3 DEF FullInv
  <1>3. CASE UNCHANGED vars
    <2>1. NpcPhaseInv' /\ SteppedInv'
      BY <1>3 DEF FullInv, NpcPhaseInv, SteppedInv, vars, connVars, objVars, tickVars,
         history, Pend
    <2>2. ASSUME NEW n \in Npc, n \notin tainted' PROVE NpcInv(n)'
      BY <1>3, <2>2 DEF FullInv, NpcInv, Engaged, vars, objVars, tickVars, history,
         Pend, Where, AtMostOne
    <2>3. ASSUME NEW i \in PlayerId, i \notin tainted' PROVE StepInv(i)' /\ OwnedInv(i)'
      BY <1>3, <2>3 DEF FullInv, StepInv, OwnedInv, vars, connVars, objVars, tickVars,
         history, Where
    <2>4. QED
      BY <1>1, <2>1, <2>2, <2>3 DEF FullInv
  <1>4. QED
    BY <1>2, <1>3

LEMMA FullImpliesNpc ==
  ASSUME FullInv
  PROVE  NpcMembership
  <1> SUFFICES ASSUME NEW n \in Npc \ tainted
               PROVE  Where(n) = IF alive[n] THEN Expected(n, n) \ {None} ELSE {}
    BY DEF NpcMembership
  <1>1. NpcInv(n) /\ TypeInv /\ outbox \in Outboxes /\ pos[n] \in Sector
    BY DEF FullInv, MemberInv, TypeInv, TypeOK, Outboxes, Obj
  <1>2. Held(n) = {}
    BY <1>1, HeldStep, WorldAssumption DEF Held, Idle
  <1>3. /\ Pend(n) = {} <=> Recorded(n) = {}
        /\ {outbox[x[1]][x[2]].from : x \in Recorded(n)} = {m.from : m \in Pend(n)}
    BY <1>1, PendIsRecorded
  <1>4. Registered(n, n) = {m.from : m \in Pend(n)}
    BY <1>2, <1>3 DEF Registered
  <1>5. CASE Pend(n) = {}
    <2>1. Registered(n, n) = {}
      BY <1>4, <1>5
    <2>2. Expected(n, n) \ {None} = {pos[n]}
      BY <1>1, <2>1, WorldAssumption DEF Expected
    <2>3. QED
      BY <1>1, <1>5, <2>2 DEF NpcInv
  <1>6. CASE Pend(n) # {}
    <2>1. Registered(n, n) # {} /\ alive[n]
      BY <1>1, <1>4, <1>6 DEF NpcInv
    <2>2. Expected(n, n) = {m.from : m \in Pend(n)}
      BY <1>4, <2>1 DEF Expected
    <2>3. \A m \in Pend(n) : Where(n) = {m.from} \ {None}
      BY <1>1 DEF NpcInv
    <2>4. {m.from : m \in Pend(n)} \ {None} = Where(n)
      BY <1>6, <2>3
    <2>5. QED
      BY <2>1, <2>2, <2>4
  <1>7. QED
    BY <1>5, <1>6

LEMMA FullImpliesOwner ==
  ASSUME FullInv
  PROVE  OwnerAgrees
  <1> SUFFICES ASSUME phase = "idle"
               PROVE  /\ \A n \in Npc \ tainted : owner[n] = IF alive[n] THEN pos[n] ELSE None
                      /\ \A c \in Conn : pc[c] = "in" /\ id[c] \notin tainted =>
                           owner[c] = pos[c]
    BY DEF OwnerAgrees
  <1>1. ASSUME NEW n \in Npc \ tainted PROVE owner[n] = IF alive[n] THEN pos[n] ELSE None
    <2>1. Pend(n) = {} /\ NpcInv(n) /\ pos[n] \in Sector
      BY DEF FullInv, NpcPhaseInv, MemberInv, TypeInv, TypeOK, Obj
    <2>2. {owner[n]} \ {None} = IF alive[n] THEN {pos[n]} ELSE {}
      BY <2>1 DEF NpcInv
    <2>3. QED
      BY <2>2
  <1>2. ASSUME NEW c \in Conn, pc[c] = "in", id[c] \notin tainted PROVE owner[c] = pos[c]
    <2>1. id[c] \in PlayerId /\ slot[id[c]] = c
      BY <1>2 DEF FullInv, MemberInv, SlotInv, TypeInv, SlotsKnown
    <2>2. PICK i \in PlayerId \ tainted : i = id[c]
      BY <1>2, <2>1
    <2>3. PlayerInv(i) /\ OwnedInv(i) /\ slot[i] = c /\ c # None
      BY <2>1, <2>2, WorldAssumption DEF FullInv, MemberInv
    <2>4. Present(i) /\ Pend(i) = {}
      BY <1>2, <2>3 DEF Present, Entered, FullInv, MemberInv, PhaseInv
    <2>5. Where(i) = {pos[c]}
      BY <2>3, <2>4 DEF PlayerInv, PlaceInv, Flushes
    <2>6. Where(i) = {owner[c]}
      BY <1>2, <2>3 DEF OwnedInv
    <2>7. QED
      BY <2>5, <2>6
  <1>3. QED
    BY <1>1, <1>2

LEMMA FullImpliesOnce ==
  ASSUME FullInv
  PROVE  OncePerPhase
  <1> SUFFICES ASSUME NEW p \in Part
               PROVE  /\ \A q \in Part \ {p} : (batch[p] \cap batch[q]) \subseteq tainted
                      /\ \A i \in batch[p] \ tainted :
                           /\ i \notin stepped
                           /\ \A c \in stepped \cap Conn : slot[i] # c
    BY DEF OncePerPhase
  <1>0. \A q \in Part : batch[q] \subseteq PlayerId \cup Npc
    BY DEF FullInv, MemberInv, TypeInv, TypeOK, Id
  <1>1. ASSUME NEW q \in Part, q # p, NEW i \in PlayerId \cup Npc,
               i \in batch[p], i \in batch[q], i \notin tainted
        PROVE  FALSE
    <2>1. CASE i \in PlayerId
      BY <1>1, <2>1 DEF FullInv, MemberInv, PlayerInv, TokenInv
    <2>2. CASE i \in Npc
      BY <1>1, <2>2 DEF FullInv, NpcInv
    <2>3. QED
      BY <1>1, <2>1, <2>2
  <1>2. ASSUME NEW i \in PlayerId \cup Npc, i \in batch[p], i \notin tainted
        PROVE  i \notin stepped /\ \A c \in stepped \cap Conn : slot[i] # c
    <2>1. CASE i \in PlayerId
      <3>1. i \notin stepped
        BY <2>1, WorldAssumption DEF FullInv, MemberInv, TypeInv, TypeOK, Obj
      <3>2. phase = "simulate"
        BY <1>2, <2>1 DEF FullInv, MemberInv, PhaseInv
      <3>3. StepInv(i)
        BY <1>2, <2>1 DEF FullInv
      <3>4. slot[i] \notin stepped
        BY <1>2, <3>2, <3>3 DEF StepInv
      <3>5. QED
        BY <3>1, <3>4
    <2>2. CASE i \in Npc
      <3>1. phase = "ai"
        BY <1>2, <2>2 DEF FullInv, NpcPhaseInv
      <3>2. stepped \cap Conn = {}
        BY <3>1, WorldAssumption DEF FullInv, SteppedInv
      <3>3. NpcInv(i)
        BY <1>2, <2>2 DEF FullInv
      <3>4. i \notin stepped
        BY <1>2, <3>3 DEF NpcInv
      <3>5. QED
        BY <3>2, <3>4
    <2>3. QED
      BY <2>1, <2>2
  <1>3. QED
    BY <1>0, <1>1, <1>2

(* An NPC is registered in the grid exactly where it is expected while it  *)
(* lives, and nowhere while it is dead, though its moves, its death and    *)
(* its return are commands that the flushes apply one by one.              *)
THEOREM NpcsPlaced == Spec => []NpcMembership
  <1>1. FullInv /\ [Next]_vars => FullInv'
    BY FullStep
  <1>2. FullInv => NpcMembership
    BY FullImpliesNpc
  <1>3. QED
    BY InitFull, <1>1, <1>2, PTL DEF Spec

(* Between two ticks the owning sector of whatever lives in the world is   *)
(* the sector of its position, though a login records it while the tick    *)
(* may be migrating the same session.                                      *)
THEOREM OwnersAgree == Spec => []OwnerAgrees
  <1>1. FullInv /\ [Next]_vars => FullInv'
    BY FullStep
  <1>2. FullInv => OwnerAgrees
    BY FullImpliesOwner
  <1>3. QED
    BY InitFull, <1>1, <1>2, PTL DEF Spec

(* No phase hands an object to two workers, or to one worker twice, though *)
(* objects move between sectors while the waves run and no lock is held    *)
(* across a step.                                                          *)
THEOREM StepsOnce == Spec => []OncePerPhase
  <1>1. FullInv /\ [Next]_vars => FullInv'
    BY FullStep
  <1>2. FullInv => OncePerPhase
    BY FullImpliesOnce
  <1>3. QED
    BY InitFull, <1>1, <1>2, PTL DEF Spec
=============================================================================
