------------------------------ MODULE Pursuit ------------------------------
(***************************************************************************)
(* A monster that chases a player over rough ground: SimulateStep moves    *)
(* the player, StepTowardGoal (monster_ai.h) the monster, along a straight *)
(* line where the goal is in sight and along the waypoints of FindPath     *)
(* where it is not.  All distances are the real ones.                      *)
(***************************************************************************)
EXTENDS PathFinding

CONSTANTS
  OpenSets,   \* the terrains considered
  MobStarts,  \* where the monster may start
  HeroStarts, \* where the player may start
  Scripts,    \* what the client may send: for each tick, the inputs in it
  MobSpeed,   \* move_speed of the monster
  AttackRange \* its attack_range

ASSUME HuntAssumption ==
  /\ \A cells \in OpenSets : IsFiniteSet(cells) /\ cells \subseteq Int \X Int
  /\ MobStarts \subseteq Position /\ HeroStarts \subseteq Position
  /\ Scripts \subseteq Seq(Seq(Input))
  /\ MobSpeed \in Int /\ AttackRange \in Int

VARIABLES
  hero,    \* MoveState of the player
  script,  \* the inputs to come
  mob,     \* position of the monster
  ai,      \* AiState
  path,    \* NpcEntity::path
  next,    \* path_index, counted from 1
  repath,  \* ticks until repath_tick
  due,     \* ticks until the AI phase
  search   \* history: the call of FindPath in this AI phase, if any

AI_TICK_INTERVAL   == 3
REPATH_INTERVAL    == 10
WAYPOINT_TOLERANCE == 80

vars == <<open, hero, script, mob, ai, path, next, repath, due, search>>

Spot(s) == [x |-> s.x, y |-> s.y]

Idle == [x |-> 0, y |-> 0, sprint |-> FALSE, jump |-> FALSE]

NoSearch == [from |-> <<0, 0>>, to |-> <<0, 0>>, chain |-> <<>>]

Init ==
  /\ open \in OpenSets
  /\ mob \in {p \in MobStarts : IsWalkable(p)}
  /\ \E p \in {p \in HeroStarts : IsWalkable(p)} :
       hero = [x |-> p.x, y |-> p.y, z |-> SampleHeight(p), vz |-> 0,
               fx |-> 0, fy |-> 0, fz |-> 0, grounded |-> TRUE]
  /\ script \in Scripts
  /\ ai = "Chase" /\ path = <<>> /\ next = 1 /\ repath = 0
  /\ due = AI_TICK_INTERVAL /\ search = NoSearch

-----------------------------------------------------------------------------
(* Every step is one of these: the simulation of a tick, or the AI phase   *)
(* that follows in every third.                                            *)
Tick == due' = IF due = 0 THEN AI_TICK_INTERVAL ELSE due - 1

(* SimulateSector, once in a tick: the inputs of the client, or gravity    *)
(* without one.                                                            *)
Move ==
  /\ due > 0
  /\ Tick
  /\ search' = NoSearch
  /\ UNCHANGED <<open, mob, ai, path, next, repath>>

Simulated(s, inputs) ==
  LET after[k \in 0 .. Len(inputs)] ==
        IF k = 0 THEN s ELSE SimulateStep(after[k - 1], inputs[k])
  IN after[Len(inputs)]

Act ==
  /\ script # <<>> /\ Head(script) # <<>>
  /\ hero' = Simulated(hero, Head(script))
  /\ script' = Tail(script)
  /\ Move

Wait ==
  /\ script # <<>> => Head(script) = <<>>
  /\ hero' = IF hero.grounded THEN hero ELSE SimulateStep(hero, Idle)
  /\ script' = IF script = <<>> THEN script ELSE Tail(script)
  /\ Move

-----------------------------------------------------------------------------
(* UpdateMonster.                                                          *)
Far == Distance2DSq(mob, hero) > AttackRange * AttackRange

Goal == Spot(hero)

Stepped(goal) == MoveToward(mob, goal, MobSpeed, TICK_MS * AI_TICK_INTERVAL)

InSight == HasLineOfSight(mob, Goal)

Update ==
  /\ due = 0
  /\ Tick
  /\ UNCHANGED <<open, hero, script>>

Chasing == ai = "Chase" /\ Far /\ UNCHANGED ai /\ Update

Elapsed(ticks) == Greatest(0, ticks - AI_TICK_INTERVAL)

(* StepTowardGoal.  The goal is in sight: straight on.                     *)
Approach ==
  /\ Chasing /\ InSight
  /\ path' = <<>> /\ next' = 1
  /\ mob' = Stepped(Goal)
  /\ repath' = Elapsed(repath)
  /\ UNCHANGED search

NeedsPath == path = <<>> \/ next > Len(path) \/ repath = 0

(* FindPath is called, and remembered.                                     *)
Search ==
  /\ Chasing /\ ~InSight /\ NeedsPath
  /\ search' = [from |-> ToCell(mob), to |-> ToCell(hero),
                chain |-> AStar(ToCell(mob), ToCell(hero))]
  /\ path' = FindPath(mob, Goal)
  /\ repath' = Elapsed(REPATH_INTERVAL)

(* It finds nothing: straight on all the same.                             *)
Press ==
  /\ Search
  /\ path' = <<>>
  /\ UNCHANGED next
  /\ mob' = Stepped(Goal)

(* On along a path from waypoint k; one that is near enough is passed, and *)
(* nothing more is done if it was the last.                                *)
Along(way, k) ==
  LET near == Distance2DSq(mob, way[k]) <= WAYPOINT_TOLERANCE * WAYPOINT_TOLERANCE
      to   == IF near THEN k + 1 ELSE k
  IN /\ next' = to
     /\ mob' = IF to > Len(way) THEN mob ELSE Stepped(way[to])

(* It finds a path; its first waypoint is where the monster is.            *)
Detour ==
  /\ Search
  /\ path' # <<>>
  /\ Along(path', 2)

(* The path is still good.                                                 *)
Follow ==
  /\ Chasing /\ ~InSight /\ ~NeedsPath
  /\ Along(path, next)
  /\ repath' = Elapsed(repath)
  /\ UNCHANGED <<path, search>>

(* The player is close enough to be struck, or no longer; no step is made. *)
Engage ==
  /\ ai = "Chase" /\ ~Far /\ Update
  /\ ai' = "Attack" /\ path' = <<>>
  /\ repath' = Elapsed(repath)
  /\ UNCHANGED <<mob, next, search>>

Attack ==
  /\ ai = "Attack" /\ Update
  /\ ai' = IF Far THEN "Chase" ELSE ai
  /\ repath' = Elapsed(repath)
  /\ UNCHANGED <<mob, path, next, search>>

Next == Act \/ Wait \/ Approach \/ Press \/ Detour \/ Follow \/ Engage \/ Attack

Spec == Init /\ [][Next]_vars

-----------------------------------------------------------------------------
(* Reference definitions: the cells of the window one step from k, with    *)
(* nothing shut at the corners of the step.                                *)
Neighbours(c, d, k) ==
  {n \in open \ {k} : /\ \A i \in {1, 2} : n[i] - k[i] \in -1 .. 1
                      /\ {<<k[1], n[2]>>, <<n[1], k[2]>>} \subseteq open
                      /\ InWindow(c, d, n)}

(* The costs of the ways to k that are known, or known but for their last  *)
(* step.                                                                   *)
Ways(c, d, known, k) ==
  {known[m] : m \in {k} \cap DOMAIN known} \cup
  {known[m] + COST(<<k[1] - m[1], k[2] - m[2]>>) :
     m \in {m \in DOMAIN known : k \in Neighbours(c, d, m)}}

Lengthened(c, d, known) ==
  [k \in (UNION {Neighbours(c, d, m) : m \in DOMAIN known}) \cup DOMAIN known |->
     CHOOSE w \in Ways(c, d, known, k) : \A v \in Ways(c, d, known, k) : w <= v]

(* The least costs of the ways from c: of no step, of one at most, and so  *)
(* on, until every open cell can be part of one.                           *)
Costs(c, d) ==
  LET after[n \in Nat] ==
        IF n = 0 THEN [k \in {c} |-> 0] ELSE Lengthened(c, d, after[n - 1])
  IN after[Cardinality(open)]

Length(chain) ==
  LET sum[k \in Nat] == IF k < 2 THEN 0
        ELSE sum[k - 1] + COST(<<chain[k][1] - chain[k - 1][1], chain[k][2] - chain[k - 1][2]>>)
  IN sum[Len(chain)]

(* More open cells than the turns of the loop are known to suffice for: a  *)
(* cell can put eight entries into the heap, one for each neighbour.       *)
Crowded(c, d) == Cardinality({k \in open : InWindow(c, d, k)}) > 1023

(* What a search finds is one of the shortest ways there are in its        *)
(* window, each step of which is open and cuts no corner; and it finds one *)
(* whenever there is one, unless the window is crowded.                    *)
(* (FindPath: octile distances, the stamps and the costs of the scratch,   *)
(* the limit of the loop.)                                                 *)
SearchIsRight ==
  LET c == search.from
      d == search.to
      chain == search.chain
  IN search # NoSearch =>
       LET g == Costs(c, d)
           exists == Fits(c, d) /\ d \in DOMAIN g
       IN /\ chain # <<>> =>
               /\ exists /\ chain[1] = c /\ chain[Len(chain)] = d
               /\ \A k \in 2 .. Len(chain) : chain[k] \in Neighbours(c, d, chain[k - 1])
               /\ Length(chain) = g[d]
          /\ chain = <<>> => ~exists \/ Crowded(c, d)

(* Nobody enters a wall or leaves the world, sinks into the ground, or     *)
(* goes further on an input than sprinting straight on: not on a diagonal, *)
(* not by the rests of divisions, not by sliding, whatever the client      *)
(* sends.  (SanitizeInput, SimulateStep, MoveToward.)                      *)
HeroStep == MAX_STEP
MobStep  == Quot(MobSpeed * TICK_MS * AI_TICK_INTERVAL, 1000) + 1

Sent == IF script = <<>> THEN 0 ELSE Len(Head(script))

InOpenCell(p) ==
  \E c \in open : /\ 2 * (p.x - ToWorld(c).x) \in -NAV_CELL_SIZE .. NAV_CELL_SIZE - 1
                  /\ 2 * (p.y - ToWorld(c).y) \in -NAV_CELL_SIZE .. NAV_CELL_SIZE - 1

StepIsLegal ==
  [][/\ Distance2DSq(hero, hero') <= (HeroStep * Sent) * (HeroStep * Sent)
     /\ Distance2DSq(mob, mob') <= MobStep * MobStep
     /\ InOpenCell(hero)' /\ InOpenCell(mob)'
     /\ hero'.z >= SampleHeight(hero')]_vars

(* A player and a monster in view of each other are found by a 3x3 query   *)
(* around either. (WorldGrid::QueryNear.)                                  *)
QueryCoversView == QueryCovers(mob, Spot(hero))

(* A monster that can reach a player who stands still does reach him,      *)
(* unless it gets stuck: it sees him, for sight is a matter of cells, but  *)
(* the straight line leads through a wall, which holds it fast and which   *)
(* it does not search a way around as long as it sees him.                 *)
(* (monster_ai.h:94 and 145 expect the next search to free it.)            *)
Reachable ==
  LET c == ToCell(mob)
      d == ToCell(hero)
      after[n \in Nat] ==
        IF n = 0 THEN {c}
        ELSE LET r == after[n - 1] IN r \cup UNION {Neighbours(c, d, k) : k \in r}
  IN d \in after[Cardinality(open)]

Stuck == ai = "Chase" /\ InSight /\ Stepped(Goal) = mob

Arrives == (script = <<>> /\ ai = "Chase" /\ Reachable) ~> (ai = "Attack" \/ Stuck)
=============================================================================
