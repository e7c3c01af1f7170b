-------------------------------- MODULE Duel --------------------------------
(***************************************************************************)
(* The player of Pursuit casts a fireball at some time of the hunt: the    *)
(* combat phase (combat_tick.h), which follows the simulation and the AI   *)
(* in every tick, launches it, moves it, and ends it at a wall, at the     *)
(* monster, or when its time is up.  The monster survives it.              *)
(*                                                                         *)
(* Casting, queues, damage and several projectiles are the concern of      *)
(* Combat; here is the geometry that Combat leaves open.                   *)
(***************************************************************************)
EXTENDS Pursuit

CONSTANTS
  Casts(_, _), \* what may be cast, [aim, delay] or None, by terrain and script
  ProjSpeed,   \* proj_speed of the skill
  ProjLife,    \* its life_ticks
  None

ASSUME DuelAssumption ==
  /\ ProjSpeed \in Int /\ ProjLife \in Int
  /\ \A cells \in OpenSets, inputs \in Scripts :
       Casts(cells, inputs) \subseteq {None} \cup [aim : Int \X Int, delay : Int]

VARIABLES
  pending,  \* the PendingHit: its aim and the ticks until it is due, or None
  bolts,    \* the projectiles in the air: one or none
  listed,   \* the sector in which the grid has the monster
  turn,     \* what comes next: "world" (simulation or AI) or "combat"
  stood     \* history: where the monster was when the bolt was last moved

ACTOR_RADIUS == 45

duelVars == <<pending, bolts, listed, turn, stood>>
allVars  == <<vars, duelVars>>

DuelInit ==
  /\ Init
  /\ pending \in Casts(open, script)
  /\ bolts = {} /\ listed = ToSector(mob) /\ turn = "world" /\ stood = mob

-----------------------------------------------------------------------------
(* Simulation and AI; the combat phase comes when both are done.           *)
World ==
  /\ turn = "world" /\ Next
  /\ turn' = IF due' = 0 THEN "world" ELSE "combat"
  /\ UNCHANGED <<pending, bolts, listed, stood>>

(* TakeDueHits.                                                            *)
Due == pending # None /\ pending.delay = 0

(* SpawnProjectile: from where the caster is now, along the yaw of the     *)
(* cast, of which aim holds Cos1e4 and Sin1e4.                             *)
Velocity(aim) == <<Quot(aim[1] * ProjSpeed, 10000), Quot(aim[2] * ProjSpeed, 10000)>>

Spawn == [x |-> hero.x, y |-> hero.y, v |-> Velocity(pending.aim), left |-> ProjLife]

(* The second flush ends the tick: the grid learns where the monster is.   *)
EndTick ==
  /\ turn = "combat"
  /\ pending' = IF pending = None \/ Due THEN None ELSE [pending EXCEPT !.delay = @ - 1]
  /\ listed' = ToSector(mob) /\ stood' = mob /\ turn' = "world"
  /\ UNCHANGED vars

Flying == bolts \cup (IF Due THEN {Spawn} ELSE {})

(* AdvanceProjectiles, a bolt in its time.                                 *)
Moved(b) == [b EXCEPT !.x = @ + Quot(b.v[1] * TICK_MS, 1000),
                      !.y = @ + Quot(b.v[2] * TICK_MS, 1000), !.left = @ - 1]

(* QueryNear, by what the grid knew after the first flush of the tick.     *)
Nearby(b) == Visits(ToSector(b), listed)

Touches(b) ==
  /\ Nearby(b) /\ IsInViewRange(b, mob)
  /\ Distance2DSq(b, mob) <= ACTOR_RADIUS * ACTOR_RADIUS

(* (Mistake to test the properties: the body is looked for before the bolt *)
(* is moved.)                                                              *)
StrikesBefore(b) == Touches(b)

Strikes(b) == Touches(Moved(b))

Calm == Flying = {} /\ bolts' = {} /\ EndTick

Expire == (\E b \in Flying : b.left = 0) /\ bolts' = {} /\ EndTick

HitWall ==
  /\ \E b \in Flying : b.left > 0 /\ ~IsWalkable(Moved(b))
  /\ bolts' = {} /\ EndTick

HitTarget ==
  /\ \E b \in Flying : b.left > 0 /\ IsWalkable(Moved(b)) /\ Strikes(b)
  /\ bolts' = {} /\ EndTick

Fly ==
  /\ \E b \in Flying : /\ b.left > 0 /\ IsWalkable(Moved(b)) /\ ~Strikes(b)
                       /\ bolts' = {Moved(b)}
  /\ EndTick

Combat == Calm \/ Expire \/ HitWall \/ HitTarget \/ Fly

DuelNext == World \/ Combat

(* The tick loop goes on: every step is one of these.                      *)
Pass ==
  \/ turn = "world" /\ Tick /\ turn' \in {"world", "combat"}
  \/ turn = "combat" /\ turn' = "world" /\ UNCHANGED due

DuelSpec == DuelInit /\ [][DuelNext]_allVars /\ WF_<<due, turn>>(Pass)

-----------------------------------------------------------------------------
(* A fireball does not fly through a monster that stands: though it is     *)
(* only looked at where it is at the end of a tick, and through a grid     *)
(* that does not know the last steps yet, its way does not lead past the   *)
(* centre within Core centimetres: half a step, 29, and Core are the legs  *)
(* of a triangle with hypotenuse ACTOR_RADIUS.  (AdvanceProjectiles;       *)
(* proj_speed of skills.csv and TICK_MS.)                                  *)
Core == 33

PassedWithin(p, q, centre, bound) ==
  LET s == <<q.x - p.x, q.y - p.y>>
      d == <<centre.x - p.x, centre.y - p.y>>
      along  == d[1] * s[1] + d[2] * s[2]
      across == d[1] * s[2] - d[2] * s[1]
      length == s[1] * s[1] + s[2] * s[2]
  IN /\ Size(d[1]) <= 2 * ACTOR_RADIUS /\ Size(d[2]) <= 2 * ACTOR_RADIUS
     /\ 0 <= along /\ along <= length
     /\ across * across <= bound * bound * length

NoFlyThrough ==
  [][turn = "combat" /\ stood = mob =>
       \A p \in bolts, q \in bolts' : ~PassedWithin(p, q, mob, Core)]_allVars
=============================================================================
