----------------------------- MODULE MonsterAi -----------------------------
(***************************************************************************)
(* One monster: UpdateMonster, which the AI phase calls every third tick   *)
(* for the monsters of the awake sectors, and what changes its AI fields   *)
(* from outside: hits (OnDamaged), death, rebirth.                         *)
(*                                                                         *)
(* The monster remembers its target by slot number.  Sessions come and go  *)
(* on I/O threads while UpdateMonster looks the slot up three times, and   *)
(* while the monster sleeps or is dead and does not look at all.           *)
(*                                                                         *)
(* The ground is a graph of places, one AI step of the monster apart: how  *)
(* far it is as the crow flies, which is what ranges are compared with,    *)
(* how long the way is, and who sees what.  Time is counted in AI          *)
(* intervals (AI_TICK_INTERVAL ticks).                                     *)
(***************************************************************************)
EXTENDS Integers, FiniteSets

CONSTANTS
  Slot,        \* the slots of SessionManager
  MaxGen,      \* bound: sessions that use one slot, one after the other
  Scenes,      \* what behaviours are about: records, see SceneAssumption
  Spawn,       \* the spawn point
  Tolerance,   \* WAYPOINT_TOLERANCE, in places
  Reach,       \* attack_range
  Leash,       \* leash_range
  Aggro,       \* aggro_range
  Windup,      \* attack_windup_ticks, in AI intervals
  Cooldown,    \* attack_cooldown_ticks, in AI intervals
  Repath,      \* REPATH_INTERVAL, in AI intervals
  MaxHp,       \* hits the monster takes
  None

ASSUME AiAssumption ==
  /\ {MaxGen, Tolerance, Reach, Leash, Aggro, Cooldown} \subseteq Nat
  /\ {Windup, Repath, MaxHp} \subseteq Nat \ {0}
  /\ None \notin Slot \cup Nat

(* A scene has the kind of the monster (MonsterDef::aggressive); how many  *)
(* sessions each slot may get (a bound); the places; the distance of two   *)
(* of them (dist) and the length of the shortest way between them (way);   *)
(* which lie in neighbouring sectors (near) and which are in sight by      *)
(* HasLineOfSight (sees); the steps of MoveToward that walls round to      *)
(* nothing (snags); and from where to where FindPath does not find the     *)
(* shortest way in its window (unfound).  A step is one place long, and    *)
(* straight to the spawn point it leads no further from it.                *)
Ground(h) ==
  /\ Spawn \in h.place /\ None \notin h.place
  /\ h.dist \in [h.place \X h.place -> Nat] /\ h.way \in [h.place \X h.place -> Nat]
  /\ h.dist[Spawn, Spawn] = 0 /\ h.way[Spawn, Spawn] = 0
  /\ \A p, q \in h.place : h.way[p, q] = 1 =>
        /\ h.dist[q, Spawn] <= h.dist[p, Spawn] + 1
        /\ h.way[q, Spawn] <= h.way[p, Spawn] + 1
        /\ <<p, Spawn>> \in h.sees /\ h.way[q, Spawn] < h.way[p, Spawn] =>
             h.dist[q, Spawn] <= h.dist[p, Spawn]

ASSUME SceneAssumption ==
  \A s \in DOMAIN Scenes :
    /\ Scenes[s].aggressive \in BOOLEAN
    /\ Scenes[s].guests \in [Slot -> 0 .. MaxGen]
    /\ Ground(Scenes[s])

VARIABLES
  scene,     \* the scene of this behaviour
  stage,     \* stage[i]: SessionState of the session in slot i
  gen,       \* gen[i]: how many sessions slot i has had
  place,     \* place[i]: position of the session in slot i
  up,        \* up[i]: that session is alive
  at,        \* position of the monster
  path,      \* where the path it follows ends, None without waypoints left
  repath,    \* time until repath_tick, 0 once that has passed
  hp,        \* its hit points
  ai,        \* NpcEntity::ai_state
  target,    \* target_id: a slot, or None for -1
  wind,      \* time until pending_hit_tick, None for 0
  cool,      \* time until next_attack_tick
  phase,     \* where the tick thread is
  awake,     \* the wave lists of this AI tick hold the monster's sector
  blow,      \* the Damage command the monster has recorded: slot and session
  provoked,  \* history: the sessions that have hit the monster, ever
  since      \* history: age of the last announced attack, None when it landed

players == <<stage, gen, place, up>>
mind    == <<ai, target>>
body    == <<at, path, repath>>
timers  == <<wind, cool, since>>
vars    == <<scene, players, body, hp, mind, timers, phase, awake, blow, provoked>>

-----------------------------------------------------------------------------
Here       == Scenes[scene]
Place      == Here.place
Dist(p, q) == Here.dist[p, q]
Way(p, q)  == Here.way[p, q]
Sees(p, q) == <<p, q>> \in Here.sees
Adjacent(p, q) == <<p, q>> \in Here.near

(* The next places on the shortest ways to q.                              *)
Beside(p)    == {r \in Place : Way(p, r) = 1}
Nearer(p, q) == {r \in Beside(p) : Way(r, q) = Way(p, q) - 1}

(* MoveToward: a step, or none where walls round it to nothing.            *)
MoveToward(p, r) == IF <<p, r>> \in Here.snags THEN p ELSE r

(* A straight line to what is in sight is the shortest way.  A path is     *)
(* one, unless the window had no such: then it is a longer one, or there   *)
(* is none and the monster slides along the walls.                         *)
StepsTo(p, q) == {MoveToward(p, r) : r \in Nearer(p, q)}
OnPath(p, q)  == IF <<p, q>> \in Here.unfound THEN Beside(p) \cup {p} ELSE StepsTo(p, q)

(* StepTowardGoal: straight to what is in sight; else along the path the   *)
(* monster has, be it for another goal, until it ends or repath_tick comes *)
(* and a new one is searched.                                              *)
Straight(q) ==
  /\ Sees(at, q)
  /\ at' \in StepsTo(at, q)
  /\ path' = None /\ UNCHANGED repath

NeedsPath == path = None \/ repath = 0

Search(q) ==
  /\ ~Sees(at, q) /\ NeedsPath
  /\ repath' = Repath
  /\ path' \in {q} \cup (IF <<at, q>> \in Here.unfound THEN {None} ELSE {})
  /\ at' \in OnPath(at, q)

Follow(q) ==
  /\ ~Sees(at, q) /\ ~NeedsPath
  /\ IF at = path THEN at' = at /\ path' = None
                  ELSE at' \in OnPath(at, path) /\ path' = path
  /\ UNCHANGED repath

StepToward(q) == Straight(q) \/ Search(q) \/ Follow(q)

(* What g_sessions.Get(i) and GetState tell the tick thread.               *)
Present(i)  == stage[i] # "free"
Fighting(i) == stage[i] = "playing" /\ up[i]
InReach(i)  == Dist(at, place[i]) <= Reach

(* FindAggroTarget: the nearest living player in the 3x3 block and range.  *)
Seen == {i \in Slot : /\ Fighting(i)
                      /\ Adjacent(at, place[i])
                      /\ Dist(at, place[i]) < Aggro}
(* (Mistake to test the properties: a passive monster looks for targets.)  *)
FoundTargetsAlways ==
  {i \in Seen : \A j \in Seen : Dist(at, place[i]) <= Dist(at, place[j])}

FoundTargets ==
  {i \in Seen : Here.aggressive /\ \A j \in Seen : Dist(at, place[i]) <= Dist(at, place[j])}

Elapsed(t) == IF t \in Nat \ {0} THEN t - 1 ELSE t

Init ==
  /\ scene \in DOMAIN Scenes
  /\ stage = [i \in Slot |-> "free"] /\ gen = [i \in Slot |-> 0]
  /\ place = [i \in Slot |-> Spawn] /\ up = [i \in Slot |-> TRUE]
  /\ at = Spawn /\ path = None /\ repath = 0
  /\ hp = MaxHp /\ ai = "idle" /\ target = None
  /\ wind = None /\ cool = 0 /\ since = None
  /\ phase = "open" /\ awake = FALSE /\ blow = None /\ provoked = {}

-----------------------------------------------------------------------------
(* I/O threads, at any moment: Acquire, HandleLogin, the end of a session. *)

Acquire(i) ==
  /\ stage[i] = "free" /\ gen[i] < Here.guests[i]
  /\ stage' = [stage EXCEPT ![i] = "accepted"]
  /\ gen' = [gen EXCEPT ![i] = @ + 1]
  /\ up' = [up EXCEPT ![i] = TRUE]
  /\ UNCHANGED <<scene, place, body, hp, mind, timers, phase, awake, blow, provoked>>

Login(i) ==
  /\ stage[i] = "accepted"
  /\ stage' = [stage EXCEPT ![i] = "playing"]
  /\ \E p \in Place : place' = [place EXCEPT ![i] = p]
  /\ UNCHANGED <<scene, gen, up, body, hp, mind, timers, phase, awake, blow, provoked>>

Leave(i) ==
  /\ stage[i] \in {"accepted", "playing"}
  /\ stage' = [stage EXCEPT ![i] = "closing"]
  /\ UNCHANGED <<scene, gen, place, up, body, hp, mind, timers, phase, awake, blow, provoked>>

(* A slot has nobody's position any more; a new session starts afresh.     *)
Release(i) ==
  /\ stage[i] = "closing"
  /\ stage' = [stage EXCEPT ![i] = "free"]
  /\ place' = [place EXCEPT ![i] = Spawn] /\ up' = [up EXCEPT ![i] = TRUE]
  /\ UNCHANGED <<scene, gen, body, hp, mind, timers, phase, awake, blow, provoked>>

Io == \E i \in Slot : Acquire(i) \/ Login(i) \/ Leave(i) \/ Release(i)

-----------------------------------------------------------------------------
(* The rest of the tick, between two AI phases.                            *)

(* The simulate phase moves a player; it runs between BuildWaveLists and   *)
(* the AI phase of the same tick too.                                      *)
MovePlayer(i) ==
  /\ phase \in {"open", "simulate"} /\ stage[i] = "playing"
  /\ \E p \in Beside(place[i]) : place' = [place EXCEPT ![i] = p]
  /\ UNCHANGED <<scene, stage, gen, up, body, hp, mind, timers, phase, awake, blow, provoked>>

(* Another monster kills the player; the village revives it elsewhere.     *)
KillPlayer(i) ==
  /\ phase = "open" /\ Fighting(i)
  /\ up' = [up EXCEPT ![i] = FALSE]
  /\ UNCHANGED <<scene, stage, gen, place, body, hp, mind, timers, phase, awake, blow, provoked>>

RevivePlayer(i) ==
  /\ phase = "open" /\ stage[i] = "playing" /\ ~up[i]
  /\ up' = [up EXCEPT ![i] = TRUE]
  /\ \E p \in Place : place' = [place EXCEPT ![i] = p]
  /\ UNCHANGED <<scene, stage, gen, body, hp, mind, timers, phase, awake, blow, provoked>>

(* The g-th session of slot i has landed a blow: the projectile or the     *)
(* command carries the slot only, and may outlive the session.  (Who hits  *)
(* an aggressive monster need not be remembered.)                          *)
Struck(i, g) ==
  /\ phase = "open" /\ hp > 0
  /\ g < gen[i] \/ (g = gen[i] /\ stage[i] \in {"playing", "closing"})
  /\ hp' = hp - 1
  /\ provoked' = IF Here.aggressive THEN provoked ELSE provoked \cup {<<i, g>>}
  /\ UNCHANGED <<scene, players, at, timers, phase, awake, blow>>

(* NpcEntity::OnDamaged.                                                   *)
OnDamaged(i) ==
  IF ai \in {"idle", "return"}
    THEN target' = i /\ ai' = "chase" /\ path' = None /\ repath' = 0
    ELSE UNCHANGED <<mind, path, repath>>

Wound(i, g) == Struck(i, g) /\ hp > 1 /\ OnDamaged(i)

(* ResolveDamage on the last hit: the AI fields are left as they are.      *)
Kill(i, g) == Struck(i, g) /\ hp = 1 /\ UNCHANGED <<mind, path, repath>>

(* ProcessRespawns: NPC_RESPAWN_TICKS are longer than any timer of the AI. *)
Respawn ==
  /\ phase = "open" /\ hp = 0 /\ wind \in {None, 0} /\ cool = 0 /\ repath = 0
  /\ hp' = MaxHp /\ at' = Spawn
  /\ UNCHANGED <<scene, players, path, repath, mind, timers, phase, awake, blow, provoked>>

Others ==
  \/ \E i \in Slot :
       \/ MovePlayer(i) \/ KillPlayer(i) \/ RevivePlayer(i)
       \/ \E g \in 1 .. MaxGen : Wound(i, g) \/ Kill(i, g)
  \/ Respawn

-----------------------------------------------------------------------------
(* The AI tick.                                                            *)

(* BuildWaveLists: the 3x3 blocks around the players.                      *)
IsAwake == \E i \in Slot : stage[i] = "playing" /\ Adjacent(place[i], at)

BuildWaves ==
  /\ phase = "open"
  /\ awake' = IsAwake
  /\ wind' = Elapsed(wind) /\ cool' = Elapsed(cool) /\ repath' = Elapsed(repath)
  /\ since' = IF since \in 0 .. Windup - 1 THEN since + 1 ELSE since
  /\ phase' = "simulate"
  /\ UNCHANGED <<scene, players, at, path, hp, mind, blow, provoked>>

(* UpdateMonstersInSector does not come to a sleeping or a dead monster.   *)
Pass ==
  /\ phase = "simulate" /\ (~awake \/ hp = 0)
  /\ phase' = "open"
  /\ UNCHANGED <<scene, players, body, hp, mind, timers, awake, blow, provoked>>

(* UpdateMonster: first a target that is gone or dead, then a leash that   *)
(* is too long, ends the chase.  Only the leash takes the path away: who   *)
(* has lost its target goes on where the path leads until it ends or is    *)
(* too old.                                                                *)
Lost == target # None /\ ~Fighting(target)
(* (Mistake: the leash is measured from the target.)                       *)
TooFarApart(state) == state \in {"chase", "attack"} /\ Dist(at, place[target]) > Leash

TooFar(state) == state \in {"chase", "attack"} /\ Dist(at, Spawn) > Leash

Updating == phase = "simulate" /\ awake /\ hp > 0 /\ phase' = "act"

Lose ==
  /\ Updating /\ Lost
  /\ target' = None /\ ai' = "return"
  /\ UNCHANGED <<scene, players, body, hp, timers, awake, blow, provoked>>

TurnBack ==
  /\ Updating /\ ~Lost /\ TooFar(ai)
  /\ target' = None /\ ai' = "return" /\ path' = None /\ repath' = 0
  /\ UNCHANGED <<scene, players, at, hp, timers, awake, blow, provoked>>

Proceed ==
  /\ Updating /\ ~Lost /\ ~TooFar(ai)
  /\ UNCHANGED <<scene, players, body, hp, mind, timers, awake, blow, provoked>>

(* Then it acts on its state, looking its target up again.                 *)
Acting(state) == phase = "act" /\ ai = state /\ phase' = "strike"

Notice ==
  /\ Acting("idle")
  /\ \E i \in FoundTargets : target' = i
  /\ ai' = "chase" /\ repath' = 0
  /\ UNCHANGED <<scene, players, at, path, hp, timers, awake, blow, provoked>>

StandIdle ==
  /\ Acting("idle") /\ FoundTargets = {}
  /\ UNCHANGED <<scene, players, body, hp, mind, timers, awake, blow, provoked>>

(* The slot has been emptied since: target and path are kept.              *)
GiveUp ==
  /\ \/ Acting("chase")
     \/ Acting("attack")
  /\ ~Present(target)
  /\ ai' = "return"
  /\ UNCHANGED <<scene, players, body, hp, target, timers, awake, blow, provoked>>

CatchUp ==
  /\ Acting("chase") /\ Present(target) /\ InReach(target)
  /\ ai' = "attack" /\ path' = None
  /\ UNCHANGED <<scene, players, at, repath, hp, target, timers, awake, blow, provoked>>

Pursue ==
  /\ Acting("chase") /\ Present(target) /\ ~InReach(target)
  /\ StepToward(place[target])
  /\ UNCHANGED <<scene, players, hp, mind, timers, awake, blow, provoked>>

FallBehind ==
  /\ Acting("attack") /\ Present(target) /\ ~InReach(target)
  /\ ai' = "chase"
  /\ UNCHANGED <<scene, players, body, hp, target, timers, awake, blow, provoked>>

Recover ==
  /\ Acting("attack") /\ Present(target) /\ InReach(target) /\ cool > 0
  /\ UNCHANGED <<scene, players, body, hp, mind, timers, awake, blow, provoked>>

(* S2C_SKILL_USED is broadcast; the blow is due after the windup.          *)
Swing ==
  /\ Acting("attack") /\ Present(target) /\ InReach(target) /\ cool = 0
  /\ cool' = Cooldown /\ wind' = Windup /\ since' = 0
  /\ UNCHANGED <<scene, players, body, hp, mind, awake, blow, provoked>>

ClearAi ==
  ai' = "idle" /\ target' = None /\ wind' = None /\ path' = None /\ repath' = 0

(* (Mistake: the monster does not heal.)                                   *)
ArriveHurt ==
  /\ Acting("return") /\ Dist(at, Spawn) <= Tolerance
  /\ ClearAi
  /\ at' = Spawn /\ hp' = hp
  /\ UNCHANGED <<scene, players, cool, since, awake, blow, provoked>>

Arrive ==
  /\ Acting("return") /\ Dist(at, Spawn) <= Tolerance
  /\ ClearAi
  /\ at' = Spawn /\ hp' = MaxHp
  /\ UNCHANGED <<scene, players, cool, since, awake, blow, provoked>>

(* (Mistake: the monster does not move.)                                   *)
GoHomeNever ==
  /\ Acting("return") /\ Dist(at, Spawn) > Tolerance
  /\ UNCHANGED <<scene, players, body, hp, mind, timers, awake, blow, provoked>>

GoHome ==
  /\ Acting("return") /\ Dist(at, Spawn) > Tolerance
  /\ StepToward(Spawn)
  /\ UNCHANGED <<scene, players, hp, mind, timers, awake, blow, provoked>>

Act == \/ Notice \/ StandIdle \/ GiveUp \/ CatchUp \/ Pursue
       \/ FallBehind \/ Recover \/ Swing \/ Arrive \/ GoHome

(* Last, a blow that is due: the target is looked up a third time.         *)
Hits == target # None /\ Fighting(target) /\ InReach(target)

(* (Mistake: the pending blow is not taken off.)                           *)
StrikeDueAgain ==
  /\ phase = "strike" /\ wind = 0
  /\ blow' = IF Hits THEN <<target, gen[target]>> ELSE None
  /\ since' = IF Hits THEN None ELSE since
  /\ phase' = "flush"
  /\ UNCHANGED <<scene, players, body, hp, mind, wind, cool, awake, provoked>>

StrikeDue ==
  /\ phase = "strike" /\ wind = 0
  /\ wind' = None
  /\ blow' = IF Hits THEN <<target, gen[target]>> ELSE None
  /\ since' = IF Hits THEN None ELSE since
  /\ phase' = "flush"
  /\ UNCHANGED <<scene, players, body, hp, mind, cool, awake, provoked>>

NotDue ==
  /\ phase = "strike" /\ wind # 0
  /\ phase' = "flush"
  /\ UNCHANGED <<scene, players, body, hp, mind, timers, awake, blow, provoked>>

(* ResolveDamage on whoever is in the slot by now.                         *)
Flush ==
  /\ phase = "flush"
  /\ \/ up' = up
     \/ /\ blow # None
        /\ Fighting(blow[1])
        /\ up' = [up EXCEPT ![blow[1]] = FALSE]
  /\ blow' = None /\ phase' = "open"
  /\ UNCHANGED <<scene, stage, gen, place, body, hp, mind, timers, awake, provoked>>

Validate == Lose \/ TurnBack \/ Proceed

AiTick == BuildWaves \/ Pass \/ Validate \/ Act \/ StrikeDue \/ NotDue \/ Flush

Next == Io \/ Others \/ AiTick

Spec == Init /\ [][Next]_vars

(* The tick thread runs on for as long as the server does.                 *)
FairSpec == Spec /\ WF_vars(AiTick)

-----------------------------------------------------------------------------
(* Every variable has its type.                                            *)
TypeOK ==
  /\ scene \in DOMAIN Scenes
  /\ stage \in [Slot -> {"free", "accepted", "playing", "closing"}]
  /\ gen \in [Slot -> 0 .. MaxGen] /\ place \in [Slot -> Place] /\ up \in [Slot -> BOOLEAN]
  /\ at \in Place /\ path \in Place \cup {None} /\ repath \in 0 .. Repath
  /\ hp \in 0 .. MaxHp
  /\ ai \in {"idle", "chase", "attack", "return"} /\ target \in Slot \cup {None}
  /\ wind \in 0 .. Windup \cup {None} /\ cool \in 0 .. Cooldown
  /\ since \in 0 .. Windup \cup {None}
  /\ phase \in {"open", "simulate", "act", "strike", "flush"} /\ awake \in BOOLEAN
  /\ blow \in (Slot \X (1 .. MaxGen)) \cup {None}
  /\ provoked \subseteq Slot \X (1 .. MaxGen)

(* A monster that fights has somebody to fight, and one that stands idle   *)
(* remembers neither a target nor a way nor a blow it owes (ClearAi, the   *)
(* leash and OnDamaged keep these fields together).                        *)
Committed ==
  /\ ai \in {"chase", "attack"} => target # None
  /\ ai = "idle" => target = None /\ path = None /\ wind = None

(* An idle monster is whole: damage never adds up over several fights that *)
(* the monster breaks off (monster_ai.h, Return: it heals on arrival).     *)
IdleIsWhole == ai = "idle" => hp \in {0, MaxHp}

(* Where everything is in sight, nobody drags the monster more than a step *)
(* beyond its leash.  Elsewhere it may be led further, by its way home or  *)
(* by the path to somebody who has gone (monster_ai.h, Return looks at no  *)
(* leash): it is never further from home, as it walks, than the furthest   *)
(* place within its leash, by more than the steps of one path.  Where      *)
(* FindPath misses the shortest way, nothing is promised.                  *)
Open  == \A p, q \in Place : Sees(p, q)
Slack == IF Open THEN 1 ELSE Repath
Within(n) ==
  \E p \in Place : Dist(p, Spawn) <= Leash /\ Way(at, Spawn) <= Way(p, Spawn) + n

Leashed ==
  /\ Open => Dist(at, Spawn) <= Leash + 1
  /\ Here.unfound = {} => Within(Slack)

(* A passive monster only ever turns to a slot from which it has been hit. *)
GrudgeHasCause ==
  ~Here.aggressive /\ target # None => \E g \in 1 .. MaxGen : <<target, g>> \in provoked

(* No blow without a warning: when a blow lands, an attack was announced   *)
(* at least Windup earlier and has not landed before.                      *)
Announced == [][blow = None /\ blow' # None => since = Windup]_vars

(* Every return ends, by ways and detours: the monster arrives, or a hit   *)
(* calls it back.  Excepted are a monster that falls asleep or dies; one   *)
(* that a wall holds which it cannot see, and which may stand there for    *)
(* ever, as its goal does; and one whose search misses the way home.       *)
Held ==
  \/ \E r \in Nearer(at, Spawn) : <<at, r>> \in Here.snags
  \/ <<at, Spawn>> \in Here.unfound

ReturnsHome == (ai = "return") ~> (ai # "return" \/ ~awake \/ hp = 0 \/ Held)
=============================================================================
