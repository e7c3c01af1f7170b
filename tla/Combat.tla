------------------------------- MODULE Combat -------------------------------
(***************************************************************************)
(* Skills: from C2S_USE_SKILL on an I/O thread to the damage that the tick *)
(* thread applies.                                                         *)
(*                                                                         *)
(* HandleUseSkill checks and pays on the thread of the session, reads the  *)
(* tick while the tick thread runs, and queues a PendingHit.  The combat   *)
(* phase of every tick collects what is queued, executes what is due,      *)
(* moves the projectiles and revives the dead; damage is recorded and      *)
(* applied after it.  Where things are is abstracted: a blow may strike    *)
(* any living monsters, a projectile may meet a wall at any step.          *)
(***************************************************************************)
EXTENDS Integers, Sequences, FiniteSets, SequencesExt

CONSTANTS
  Conn,      \* the sessions ever created
  Slot,      \* the slots of SessionManager
  SlotOf,    \* SlotOf[c]: the slot that session c gets
  Monster,   \* NPCs
  Mage,      \* the sessions whose skill is the projectile; else the cone
  Windup,    \* windup_ticks
  Cooldown,  \* cooldown_ticks
  Cost,      \* mp_cost of the mages' skill
  MaxMp,     \* m_max_mp
  Life,      \* life_ticks of a projectile
  MaxBolts,  \* MAX_PROJECTILES
  MaxHp,     \* blows a monster takes
  Rest,      \* respawn ticks, of players and of NPCs
  MaxTick,   \* bound: ticks
  MaxBlows,  \* bound: recorded damage before projectiles strike no more
  None

ASSUME CombatAssumption ==
  /\ {Cost, MaxMp, MaxTick, MaxBlows} \subseteq Nat
  /\ {Windup, Cooldown, Life, MaxBolts, MaxHp, Rest} \subseteq Nat \ {0}
  /\ SlotOf \in [Conn -> Slot] /\ Mage \subseteq Conn
  /\ IsFiniteSet(Monster) /\ Conn \cap Monster = {}
  /\ None \notin Conn \cup Nat

VARIABLES
  tick,      \* GameTickLoop::m_tick
  phase,     \* where the tick thread is
  who,       \* who[s]: the session that is Playing in slot s
  fresh,     \* the sessions that have not logged in yet
  alive,     \* alive[c]: m_hp > 0 of a session
  mp,        \* m_mp
  ready,     \* m_cooldown_until, 0 for never used
  back,      \* respawn tick of sessions and monsters, 0 for none
  pc,        \* how far HandleUseSkill of session c has come
  now,       \* its local `now`
  incoming,  \* CombatSystem::m_incoming
  pending,   \* CombatSystem::m_pending
  scan,      \* those of it that TakeDueHits has not come to
  due,       \* the hits of this phase that are not executed yet
  bolts,     \* the projectiles that are alive
  left,      \* those AdvanceProjectiles has not come to
  hp,        \* m_hp of the monsters
  damage,    \* the recorded Damage commands: their targets
  casts,     \* history: casts[c], how many skills c has cast
  done,      \* history: the casts that were executed
  last,      \* history: now of the last cast, None for none
  deaths,    \* history: how often a monster was killed
  births     \* history: how often it was revived

caster  == <<mp, ready, pc, now, casts, last>>
world   == <<who, fresh, alive>>
hits    == <<incoming, pending, scan, due, done>>
flights == <<bolts, left>>
targets == <<hp, deaths, births>>
vars    == <<tick, phase, world, caster, back, hits, flights, targets, damage>>

-----------------------------------------------------------------------------
Cast == Conn \X (1 .. MaxTick + 1)

(* PendingHit; heard is the tick in which the combat phase collected it.   *)
Hit  == [cast : Cast, slot : Slot, bolt : BOOLEAN, at : Nat, heard : Nat \cup {None}]
Bolt == [cast : Cast, expire : Nat, flown : Nat]

(* The living players and monsters.                                        *)
Fighting(s)  == who[s] # None /\ alive[who[s]]
Living       == {m \in Monster : hp[m] > 0}
IsPlaying(c) == who[SlotOf[c]] = c

Init ==
  /\ tick = 0 /\ phase = "idle"
  /\ who = [s \in Slot |-> None] /\ fresh = Conn
  /\ alive = [c \in Conn |-> TRUE] /\ mp = [c \in Conn |-> MaxMp]
  /\ ready = [c \in Conn |-> 0] /\ back = [o \in Conn \cup Monster |-> 0]
  /\ pc = [c \in Conn |-> "ready"] /\ now = [c \in Conn |-> 0]
  /\ incoming = <<>> /\ pending = <<>> /\ scan = <<>> /\ due = <<>>
  /\ bolts = {} /\ left = {}
  /\ hp = [m \in Monster |-> MaxHp] /\ damage = <<>>
  /\ casts = [c \in Conn |-> 0] /\ done = {} /\ last = [c \in Conn |-> None]
  /\ deaths = [m \in Monster |-> 0] /\ births = [m \in Monster |-> 0]

-----------------------------------------------------------------------------
(* I/O threads.                                                            *)

Join(c) ==
  /\ c \in fresh /\ who[SlotOf[c]] = None
  /\ who' = [who EXCEPT ![SlotOf[c]] = c]
  /\ fresh' = fresh \ {c}
  /\ UNCHANGED <<tick, phase, alive, caster, back, hits, flights, targets, damage>>

(* The session's own coroutine runs its handlers, so none is under way.    *)
Leave(c) ==
  /\ IsPlaying(c) /\ pc[c] = "ready"
  /\ who' = [who EXCEPT ![SlotOf[c]] = None]
  /\ UNCHANGED <<tick, phase, fresh, alive, caster, back, hits, flights, targets, damage>>

(* HandleUseSkill, access by access.                                       *)
CheckAlive(c) ==
  /\ pc[c] = "ready" /\ IsPlaying(c) /\ alive[c]
  /\ tick < MaxTick
  /\ pc' = [pc EXCEPT ![c] = "checked"]
  /\ UNCHANGED <<tick, phase, world, mp, ready, now, casts, last, back, hits, flights,
                 targets, damage>>

ReadTick(c) ==
  /\ pc[c] = "checked"
  /\ now' = [now EXCEPT ![c] = tick]
  /\ pc' = [pc EXCEPT ![c] = "stamped"]
  /\ UNCHANGED <<tick, phase, world, mp, ready, casts, last, back, hits, flights,
                 targets, damage>>

(* Session::TryConsumeCooldown.                                            *)
Cooling(c) == ready[c] # 0 /\ now[c] < ready[c]

(* (Mistake to test the properties: the cooldown is not booked.)           *)
TryConsumeCooldownUnbooked(c) ==
  /\ pc[c] = "stamped"
  /\ pc' = [pc EXCEPT ![c] = IF Cooling(c) THEN "ready" ELSE "cooled"]
  /\ UNCHANGED <<tick, phase, world, mp, ready, now, casts, last, back, hits, flights,
                 targets, damage>>

TryConsumeCooldown(c) ==
  /\ pc[c] = "stamped"
  /\ IF Cooling(c)
       THEN pc' = [pc EXCEPT ![c] = "ready"] /\ UNCHANGED ready
       ELSE /\ pc' = [pc EXCEPT ![c] = "cooled"]
            /\ ready' = [ready EXCEPT ![c] = now[c] + Cooldown]
  /\ UNCHANGED <<tick, phase, world, mp, now, casts, last, back, hits, flights,
                 targets, damage>>

Price(c) == IF c \in Mage THEN Cost ELSE 0

(* WorldObject::ConsumeMp.                                                 *)
ConsumeMp(c) ==
  /\ pc[c] = "cooled"
  /\ IF mp[c] < Price(c)
       THEN pc' = [pc EXCEPT ![c] = "ready"] /\ UNCHANGED mp
       ELSE /\ pc' = [pc EXCEPT ![c] = "paid"]
            /\ mp' = [mp EXCEPT ![c] = @ - Price(c)]
  /\ UNCHANGED <<tick, phase, world, ready, now, casts, last, back, hits, flights,
                 targets, damage>>

EnqueueHit(c) ==
  /\ pc[c] = "paid"
  /\ casts' = [casts EXCEPT ![c] = @ + 1]
  /\ last' = [last EXCEPT ![c] = now[c]]
  /\ incoming' = Append(incoming,
       [cast |-> <<c, casts[c] + 1>>, slot |-> SlotOf[c], bolt |-> c \in Mage,
        at |-> now[c] + Windup, heard |-> None])
  /\ pc' = [pc EXCEPT ![c] = "ready"]
  /\ UNCHANGED <<tick, phase, world, mp, ready, now, back, pending, scan, due, done, flights,
                 targets, damage>>

HandleUseSkill(c) ==
  CheckAlive(c) \/ ReadTick(c) \/ TryConsumeCooldown(c) \/ ConsumeMp(c) \/ EnqueueHit(c)

Io == \E c \in Conn : Join(c) \/ Leave(c) \/ HandleUseSkill(c)

-----------------------------------------------------------------------------
(* The tick thread.                                                        *)

StartTick ==
  /\ phase = "idle" /\ tick < MaxTick
  /\ tick' = tick + 1 /\ phase' = "collect"
  /\ UNCHANGED <<world, caster, back, hits, flights, targets, damage>>

(* CollectIncoming; then TakeDueHits looks through the list.               *)
Heard == [i \in DOMAIN incoming |-> [incoming[i] EXCEPT !.heard = tick]]

CollectIncoming ==
  /\ phase = "collect"
  /\ scan' = pending \o Heard
  /\ incoming' = <<>> /\ pending' = <<>>
  /\ phase' = "take"
  /\ UNCHANGED <<tick, world, caster, back, due, done, flights, targets, damage>>

(* (Mistake: a hit is due one tick late.)                                  *)
IsDueLate(h) == h.at < tick

IsDue(h) == h.at <= tick

(* (Mistake: what was taken stays in the list as well.)                    *)
NotDueOrDue(h) == h.at \in Nat

NotDue(h) == ~IsDue(h)

TakeHit ==
  /\ phase = "take" /\ scan # <<>>
  /\ due' = IF IsDue(Head(scan)) THEN Append(due, Head(scan)) ELSE due
  /\ pending' = IF NotDue(Head(scan)) THEN Append(pending, Head(scan)) ELSE pending
  /\ scan' = Tail(scan)
  /\ UNCHANGED <<tick, phase, world, caster, back, incoming, done, flights, targets, damage>>

Taken ==
  /\ phase = "take" /\ scan = <<>>
  /\ phase' = "execute"
  /\ UNCHANGED <<tick, world, caster, back, hits, flights, targets, damage>>

(* ExecuteConeHit: any living monsters, in any order.                      *)
Slash(h) ==
  /\ ~h.bolt /\ Fighting(h.slot)
  /\ \E S \in SUBSET Living : damage' = damage \o SetToSeq(S)
  /\ UNCHANGED bolts

(* SpawnProjectile: without a free entry the cast is dropped.              *)
Launch(h) ==
  /\ h.bolt /\ Fighting(h.slot)
  /\ bolts' = IF Cardinality(bolts) < MaxBolts
                THEN bolts \cup {[cast |-> h.cast, expire |-> tick + Life, flown |-> 0]}
                ELSE bolts
  /\ UNCHANGED damage

(* The slot is empty by now, or its player dead.                           *)
Fizzle(h) == ~Fighting(h.slot) /\ UNCHANGED <<bolts, damage>>

Execute ==
  /\ phase = "execute" /\ due # <<>>
  /\ Slash(Head(due)) \/ Launch(Head(due)) \/ Fizzle(Head(due))
  /\ due' = Tail(due)
  /\ done' = done \cup {Head(due).cast}
  /\ UNCHANGED <<tick, phase, world, caster, back, incoming, pending, scan, left, targets>>

(* (Mistake: projectiles do not move in the tick that launches them.)      *)
ExecutedOldOnly ==
  /\ phase = "execute" /\ due = <<>>
  /\ left' = {b \in bolts : b.flown > 0}
  /\ phase' = "advance"
  /\ UNCHANGED <<tick, world, caster, back, hits, bolts, targets, damage>>

Executed ==
  /\ phase = "execute" /\ due = <<>>
  /\ left' = bolts
  /\ phase' = "advance"
  /\ UNCHANGED <<tick, world, caster, back, hits, bolts, targets, damage>>

(* AdvanceProjectiles, one projectile.                                     *)
Moved(b) == [b EXCEPT !.flown = @ + 1]

Expire(b) ==
  /\ tick >= b.expire
  /\ bolts' = bolts \ {b}
  /\ UNCHANGED damage

Fly(b) ==
  /\ tick < b.expire
  /\ bolts' = (bolts \ {b}) \cup {Moved(b)}
  /\ UNCHANGED damage

HitWall(b) ==
  /\ tick < b.expire
  /\ bolts' = bolts \ {b}
  /\ UNCHANGED damage

HitTarget(b) ==
  /\ tick < b.expire /\ Len(damage) < MaxBlows
  /\ \E S \in (SUBSET Living) \ {{}} : damage' = damage \o SetToSeq(S)
  /\ bolts' = bolts \ {b}

Advance ==
  /\ phase = "advance"
  /\ \E b \in left :
       /\ left' = left \ {b}
       /\ Expire(b) \/ Fly(b) \/ HitWall(b) \/ HitTarget(b)
  /\ UNCHANGED <<tick, phase, world, caster, back, hits, targets>>

(* ProcessRespawns.                                                        *)
Rises(o) == back[o] # 0 /\ back[o] <= tick
Revived  == {m \in Monster : Rises(m)} \cup {c \in Conn : Rises(c) /\ IsPlaying(c)}

ProcessRespawns ==
  /\ phase = "advance" /\ left = {}
  /\ back' = [o \in DOMAIN back |-> IF o \in Revived THEN 0 ELSE back[o]]
  /\ hp' = [m \in Monster |-> IF m \in Revived THEN MaxHp ELSE hp[m]]
  /\ births' = [m \in Monster |-> IF m \in Revived THEN births[m] + 1 ELSE births[m]]
  /\ alive' = [c \in Conn |-> alive[c] \/ c \in Revived]
  /\ mp' = [c \in Conn |-> IF c \in Revived THEN MaxMp ELSE mp[c]]
  /\ phase' = "flush"
  /\ UNCHANGED <<tick, who, fresh, ready, pc, now, casts, last, hits, flights, deaths, damage>>

(* FlushWorldCommands: ResolveDamage on a monster.                         *)
Wound(m) ==
  /\ hp[m] > 1
  /\ hp' = [hp EXCEPT ![m] = @ - 1]
  /\ UNCHANGED <<deaths, back>>

(* (Mistake: the dead die again.)                                          *)
KillAgain(m) ==
  /\ hp[m] <= 1
  /\ hp' = [hp EXCEPT ![m] = 0]
  /\ deaths' = [deaths EXCEPT ![m] = @ + 1]
  /\ back' = [back EXCEPT ![m] = tick + Rest]

Kill(m) ==
  /\ hp[m] = 1
  /\ hp' = [hp EXCEPT ![m] = 0]
  /\ deaths' = [deaths EXCEPT ![m] = @ + 1]
  /\ back' = [back EXCEPT ![m] = tick + Rest]

(* Somebody else's blow in the same flush was the last one.                *)
Spare(m) == hp[m] = 0 /\ UNCHANGED <<hp, deaths, back>>

ResolveDamage ==
  /\ phase = "flush" /\ damage # <<>>
  /\ Wound(Head(damage)) \/ Kill(Head(damage)) \/ Spare(Head(damage))
  /\ damage' = Tail(damage)
  /\ UNCHANGED <<tick, phase, world, caster, hits, flights, births>>

(* ResolveDamage on a player: the blow of a monster kills.                 *)
KillPlayer(c) ==
  /\ phase = "flush" /\ IsPlaying(c) /\ alive[c]
  /\ alive' = [alive EXCEPT ![c] = FALSE]
  /\ back' = [back EXCEPT ![c] = tick + Rest]
  /\ UNCHANGED <<tick, phase, who, fresh, caster, hits, flights, targets, damage>>

EndTick ==
  /\ phase = "flush" /\ damage = <<>>
  /\ phase' = "idle"
  /\ UNCHANGED <<tick, world, caster, back, hits, flights, targets, damage>>

Tick == \/ StartTick \/ CollectIncoming \/ TakeHit \/ Taken \/ Execute \/ Executed \/ Advance
        \/ ProcessRespawns \/ ResolveDamage \/ EndTick
        \/ \E c \in Conn : KillPlayer(c)

Next == Io \/ Tick

Spec == Init /\ [][Next]_vars

-----------------------------------------------------------------------------
(* Every variable has its type.                                            *)
TypeOK ==
  /\ tick \in 0 .. MaxTick
  /\ phase \in {"idle", "collect", "take", "execute", "advance", "flush"}
  /\ who \in [Slot -> Conn \cup {None}] /\ fresh \subseteq Conn
  /\ alive \in [Conn -> BOOLEAN] /\ mp \in [Conn -> Nat]
  /\ ready \in [Conn -> Nat] /\ back \in [Conn \cup Monster -> Nat]
  /\ pc \in [Conn -> {"ready", "checked", "stamped", "cooled", "paid"}]
  /\ now \in [Conn -> 0 .. MaxTick]
  /\ {incoming, pending, scan, due} \subseteq Seq(Hit)
  /\ bolts \subseteq Bolt /\ left \subseteq bolts
  /\ hp \in [Monster -> 0 .. MaxHp] /\ damage \in Seq(Monster)
  /\ casts \in [Conn -> Nat] /\ last \in [Conn -> (0 .. MaxTick) \cup {None}]
  /\ done \subseteq Cast
  /\ deaths \in [Monster -> Nat] /\ births \in [Monster -> Nat]

(* No cast is lost and none is executed twice: of all that were accepted,  *)
(* each waits in exactly one place of exactly one queue, or was executed   *)
(* (CombatSystem's two queues, filled and emptied by different threads).   *)
Waiting == incoming \o pending \o scan \o due
Accepted == {x \in Cast : x[2] <= casts[x[1]]}
EachCastOnce ==
  LET ids == {Waiting[i].cast : i \in DOMAIN Waiting} IN
  /\ Cardinality(ids) = Len(Waiting)
  /\ ids \cap done = {}
  /\ ids \cup done = Accepted

(* A hit is executed in the tick its windup ends, or, if its handler was   *)
(* slower than the windup, in the first tick that knows of it; never       *)
(* earlier, and nothing that is due is left behind.                        *)
OnTime ==
  /\ \A i \in DOMAIN due : due[i].at = tick \/ (due[i].at < tick /\ due[i].heard = tick)
  /\ phase \notin {"idle", "collect"} => \A i \in DOMAIN pending : pending[i].at > tick

(* Two casts of a session are a cooldown apart, although the tick runs on  *)
(* while the handlers do.                                                  *)
Spaced ==
  [][\A c \in Conn : casts'[c] > casts[c] /\ last[c] # None => now[c] >= last[c] + Cooldown]_vars

(* One death per life, however many blows one flush holds: a monster is    *)
(* dead exactly if it was killed once more often than revived, and exactly *)
(* then it has a respawn tick (ApplyDamage: death is handled only once).   *)
OneDeathPerLife ==
  \A m \in Monster :
    /\ deaths[m] - births[m] = IF hp[m] = 0 THEN 1 ELSE 0
    /\ hp[m] = 0 <=> back[m] # 0

(* No projectile outlives its time: after the combat phase all that are    *)
(* left expire later, and have flown no more steps than they have ticks.   *)
BoltsEnd ==
  phase = "idle" => \A b \in bolts : tick < b.expire /\ b.flown = tick + Life - b.expire + 1
=============================================================================
