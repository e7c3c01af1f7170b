-------------------------- MODULE MonsterAiProofs --------------------------
(***************************************************************************)
(* Proofs about MonsterAi, for every number of players, every ground and   *)
(* every setting of the monster.                                           *)
(***************************************************************************)
EXTENDS MonsterAi, TLAPS

(* A slot in use has had a session.                                        *)
Used == \A i \in Slot : stage[i] # "free" => gen[i] >= 1

(* How far place p of ground h is from home, flying and walking.            *)
Far(h, p)  == h.dist[p, Spawn]
Walk(h, p) == h.way[p, Spawn]

(* Whether place p of ground h is further from home by at most n than some *)
(* place within the leash: Within(n) of the place where the monster is.    *)
Roams(h, p, n) ==
  \E s \in h.place : Far(h, s) <= Leash /\ Walk(h, p) <= Walk(h, s) + n

(* What the leash check of Validate leaves behind for the action after it. *)
Tethered == phase = "act" /\ ai \in {"chase", "attack"} => Dist(at, Spawn) <= Leash

(* Where everything is in sight no path is ever followed.                  *)
NoPath == Open => path = None

(* How many steps along a path that does not lead home may have been       *)
(* taken, by the time that its deadline has left.                          *)
Strayed == Repath - repath + (IF phase \in {"simulate", "act"} THEN 0 ELSE 1)
Straying ==
  Here.unfound = {} /\ path \notin {None, Spawn} => Roams(Here, at, Strayed)

(* The time until a pending blow and the age of its announcement add up.   *)
Counted == wind # None => since # None /\ since + wind = Windup

TypeInv == TypeOK /\ Used
MindInv == Committed /\ IdleIsWhole /\ GrudgeHasCause /\ Counted
TetherInv == Leashed /\ Tethered /\ NoPath /\ Straying
IInv == TypeInv /\ MindInv /\ TetherInv

-----------------------------------------------------------------------------
(* What the scene of a behaviour is assumed to be.                         *)
LEMMA SceneIsGround ==
  ASSUME scene \in DOMAIN Scenes
  PROVE  Ground(Here) /\ Here.aggressive \in BOOLEAN
BY SceneAssumption DEF Here

LEMMA HomeIsNear ==
  ASSUME NEW h, Ground(h)
  PROVE  /\ Spawn \in h.place
         /\ \A p \in h.place : Far(h, p) \in Nat /\ Walk(h, p) \in Nat
         /\ Far(h, Spawn) = 0 /\ Walk(h, Spawn) = 0
BY DEF Ground, Far, Walk

LEMMA FromHere ==
  ASSUME NEW p
  PROVE  Dist(p, Spawn) = Far(Here, p) /\ Way(p, Spawn) = Walk(Here, p)
BY DEF Far, Walk, Dist, Way

LEMMA FromHome ==
  ASSUME Ground(Here), NEW p \in Place
  PROVE  Dist(p, Spawn) \in Nat /\ Way(p, Spawn) \in Nat
BY HomeIsNear DEF Far, Walk, Dist, Way, Place

(* One step of the monster is at most one place long, and one home leads   *)
(* no further away.                                                        *)
LEMMA StepIsShort ==
  ASSUME scene \in DOMAIN Scenes, NEW p \in Place, NEW q, NEW r \in OnPath(p, q)
  PROVE  /\ r \in Place
         /\ Dist(r, Spawn) <= Dist(p, Spawn) + 1
         /\ Way(r, Spawn) <= Way(p, Spawn) + 1
<1>1. Ground(Here)
  BY SceneIsGround
<1>2. r = p \/ r \in Beside(p)
  BY DEF OnPath, StepsTo, Nearer, MoveToward
<1>3. CASE r = p
  BY <1>1, <1>3, FromHome
<1>4. CASE r \in Beside(p)
  BY <1>1, <1>4 DEF Ground, Beside, Dist, Way, Place
<1>5. QED
  BY <1>2, <1>3, <1>4

LEMMA StepsAreOnPath ==
  ASSUME NEW p, NEW q, NEW r \in StepsTo(p, q)
  PROVE  r = p \/ (r \in Beside(p) /\ r \in Nearer(p, q))
BY DEF StepsTo, Nearer, MoveToward

LEMMA StraightIsShort ==
  ASSUME scene \in DOMAIN Scenes, NEW p \in Place, NEW q, NEW r \in StepsTo(p, q)
  PROVE  /\ r \in Place
         /\ Dist(r, Spawn) <= Dist(p, Spawn) + 1
         /\ Way(r, Spawn) <= Way(p, Spawn) + 1
<1>1. Ground(Here)
  BY SceneIsGround
<1>2. CASE r = p
  BY <1>1, <1>2, FromHome
<1>3. CASE r \in Beside(p)
  BY <1>1, <1>3 DEF Ground, Beside, Dist, Way, Place
<1>4. QED
  BY <1>2, <1>3, StepsAreOnPath

LEMMA HomeStep ==
  ASSUME scene \in DOMAIN Scenes, NEW p \in Place, NEW r \in StepsTo(p, Spawn)
  PROVE  /\ Way(r, Spawn) <= Way(p, Spawn)
         /\ Sees(p, Spawn) => Dist(r, Spawn) <= Dist(p, Spawn)
<1>1. Ground(Here)
  BY SceneIsGround
<1>2. CASE r = p
  BY <1>1, <1>2, FromHome
<1>3. CASE r \in Beside(p) /\ r \in Nearer(p, Spawn)
  <2>1. r \in Place /\ Way(p, r) = 1 /\ Way(r, Spawn) = Way(p, Spawn) - 1
    BY <1>3 DEF Nearer, Beside
  <2>2. Way(r, Spawn) \in Nat /\ Way(p, Spawn) \in Nat
    BY <1>1, <2>1, FromHome
  <2>3. Way(r, Spawn) < Way(p, Spawn)
    BY <2>1, <2>2
  <2>4. Sees(p, Spawn) => Dist(r, Spawn) <= Dist(p, Spawn)
    BY <1>1, <2>1, <2>3 DEF Ground, Dist, Way, Sees, Place
  <2>5. QED
    BY <2>2, <2>3, <2>4
<1>4. QED
  BY <1>2, <1>3, StepsAreOnPath

(* How far the monster roams grows with its steps.                         *)
LEMMA RoamFurther ==
  ASSUME NEW h, Ground(h), NEW p \in h.place, NEW r \in h.place,
         NEW n \in Int, NEW m \in Int, NEW k \in Int,
         Walk(h, r) <= Walk(h, p) + k, n + k <= m, Roams(h, p, n)
  PROVE  Roams(h, r, m)
<1>1. PICK s \in h.place : Far(h, s) <= Leash /\ Walk(h, p) <= Walk(h, s) + n
  BY DEF Roams
<1>2. Walk(h, s) \in Nat /\ Walk(h, p) \in Nat /\ Walk(h, r) \in Nat
  BY HomeIsNear
<1>3. Walk(h, r) <= Walk(h, s) + m
  <2>1. PICK a \in Nat, b \in Nat, c \in Nat :
          a = Walk(h, s) /\ b = Walk(h, p) /\ c = Walk(h, r)
    BY <1>2
  <2>2. b <= a + n /\ c <= b + k
    BY <1>1, <2>1
  <2>3. c <= a + m
    BY <2>2
  <2>4. QED
    BY <2>1, <2>3
<1>4. QED
  BY <1>1, <1>3 DEF Roams

LEMMA RoamFromLeash ==
  ASSUME NEW h, Ground(h), NEW p \in h.place, Far(h, p) <= Leash, NEW n \in Nat
  PROVE  Roams(h, p, n)
<1>1. PICK a \in Nat : a = Walk(h, p)
  BY HomeIsNear
<1>2. Walk(h, p) <= Walk(h, p) + n
  <2>1. a <= a + n
    OBVIOUS
  <2>2. QED
    BY <1>1, <2>1
<1>3. QED
  BY <1>2 DEF Roams

LEMMA Still ==
  ASSUME NEW h, Ground(h), NEW p \in h.place, NEW n \in Int, NEW m \in Int, n <= m, Roams(h, p, n)
  PROVE  Roams(h, p, m)
<1>1. PICK a \in Nat : a = Walk(h, p)
  BY HomeIsNear
<1>2. Walk(h, p) <= Walk(h, p) + 0
  <2>1. a <= a + 0
    OBVIOUS
  <2>2. QED
    BY <1>1, <2>1
<1>3. QED
  BY <1>2, RoamFurther

LEMMA WithinRoams == ASSUME NEW n PROVE Within(n) <=> Roams(Here, at, n)
BY DEF Within, Roams, Far, Walk, Dist, Way, Place

(* How long a path is followed.                                            *)
LEMMA OneMore == \A n \in Nat : \A k \in 0 .. n : 1 <= n - k + 1
OBVIOUS

LEMMA SlackIsShort == /\ Slack \in Nat /\ Repath \in Nat
                      /\ 1 <= Slack /\ Slack <= Repath
                      /\ ~Open => Slack = Repath
BY AiAssumption DEF Slack, AiAssumption

(* What a step of the monster makes of its body.                           *)
LEMMA StepIsTyped ==
  ASSUME TypeOK, NEW q \in Place, StepToward(q)
  PROVE  at' \in Place /\ path' \in Place \cup {None} /\ repath' \in 0 .. Repath
<1> USE DEF TypeOK
<1>1. CASE Straight(q)
  BY <1>1, StraightIsShort DEF Straight
<1>2. CASE Search(q)
  <2>1. at' \in Place
    BY <1>2, StepIsShort DEF Search
  <2>2. repath' \in 0 .. Repath
    BY <1>2, AiAssumption DEF Search, AiAssumption
  <2>3. QED
    BY <1>2, <2>1, <2>2 DEF Search
<1>3. CASE Follow(q)
  <2>1. path \in Place
    BY <1>3 DEF Follow, NeedsPath
  <2>2. at' \in Place
    BY <1>3, <2>1, StepIsShort DEF Follow
  <2>3. QED
    BY <1>3, <2>1, <2>2 DEF Follow
<1>4. QED
  BY <1>1, <1>2, <1>3 DEF StepToward

(* Wherever it goes, a step is one place long.                             *)
LEMMA StepFurther ==
  ASSUME TypeOK, NEW q \in Place, StepToward(q)
  PROVE  /\ Dist(at', Spawn) <= Dist(at, Spawn) + 1
         /\ Way(at', Spawn) <= Way(at, Spawn) + 1
<1> USE DEF TypeOK
<1>1. CASE Straight(q)
  BY <1>1, StraightIsShort DEF Straight
<1>2. CASE Search(q)
  BY <1>2, StepIsShort DEF Search
<1>3. CASE Follow(q)
  <2>1. CASE at' = at
    <3>1. Dist(at, Spawn) \in Nat /\ Way(at, Spawn) \in Nat
      BY SceneIsGround, FromHome
    <3>2. QED
      BY <2>1, <3>1
  <2>2. CASE at' \in OnPath(at, path)
    BY <1>3, <2>2, StepIsShort DEF Follow, NeedsPath
  <2>3. QED
    BY <1>3, <2>1, <2>2 DEF Follow
<1>4. QED
  BY <1>1, <1>2, <1>3 DEF StepToward

(* The initial state satisfies the inductive invariant.                    *)
LEMMA InitInv == Init => IInv
<1> SUFFICES ASSUME Init PROVE IInv
  OBVIOUS
<1> USE AiAssumption DEF AiAssumption, Init
<1>0. Ground(Here) /\ Spawn \in Place
  BY SceneIsGround, HomeIsNear DEF Place
<1>1. TypeInv
  <2>1. /\ MaxGen \in Nat /\ Cooldown \in Nat /\ Windup \in Nat /\ MaxHp \in Nat
        /\ Repath \in Nat
    OBVIOUS
  <2>2. stage \in [Slot -> {"free", "accepted", "playing", "closing"}]
    OBVIOUS
  <2>3. gen \in [Slot -> 0 .. MaxGen] /\ place \in [Slot -> Place] /\ up \in [Slot -> BOOLEAN]
    BY <1>0, <2>1
  <2>4. hp \in 0 .. MaxHp /\ cool \in 0 .. Cooldown /\ repath \in 0 .. Repath
    BY <2>1
  <2>5. QED
    BY <1>0, <2>1, <2>2, <2>3, <2>4 DEF TypeInv, TypeOK, Used
<1>2. MindInv
  BY DEF MindInv, Committed, IdleIsWhole, GrudgeHasCause, Counted
<1>3. TetherInv
  <2>1. Dist(at, Spawn) = 0 /\ Slack \in Nat
    BY <1>0, HomeIsNear, FromHere, SlackIsShort
  <2>2. Within(Slack)
    <3>1. at \in Here.place /\ Far(Here, at) <= Leash
      <4>1. Far(Here, at) = 0
        BY <2>1, FromHere
      <4>2. QED
        BY <1>0, <4>1 DEF Place
    <3>2. Roams(Here, at, Slack)
      BY <1>0, <2>1, <3>1, RoamFromLeash
    <3>3. QED
      BY <3>2, WithinRoams
  <2>3. QED
    BY <2>1, <2>2 DEF TetherInv, Leashed, Tethered, NoPath, Straying
<1>4. QED
  BY <1>1, <1>2, <1>3 DEF IInv

(* The scene of a behaviour stays what it is.                              *)
LEMMA SceneStays == [Next]_vars => scene' = scene
<1> SUFFICES ASSUME [Next]_vars PROVE scene' = scene
  OBVIOUS
<1>1. CASE Io
  BY <1>1 DEF Io, Acquire, Login, Leave, Release
<1>2. CASE Others
  BY <1>2 DEF Others, MovePlayer, KillPlayer, RevivePlayer, Wound, Kill, Struck, Respawn
<1>3. CASE BuildWaves \/ Pass \/ Validate \/ StrikeDue \/ NotDue \/ Flush
  BY <1>3 DEF BuildWaves, Pass, Validate, Lose, TurnBack, Proceed, StrikeDue, NotDue, Flush
<1>4. CASE Act
  BY <1>4 DEF Act, Notice, StandIdle, GiveUp, CatchUp, Pursue, FallBehind, Recover, Swing,
              Arrive, GoHome
<1>5. CASE UNCHANGED vars
  BY <1>5 DEF vars
<1>6. QED
  BY <1>1, <1>2, <1>3, <1>4, <1>5 DEF Next, AiTick

(* The types, action by action.                                            *)
LEMMA TypeStep == TypeInv /\ Committed /\ [Next]_vars => TypeInv'
<1> SUFFICES ASSUME TypeInv, Committed, [Next]_vars PROVE TypeInv'
  OBVIOUS
<1>0. scene' = scene /\ Place' = Place /\ Spawn \in Place
  BY SceneStays, SceneIsGround, HomeIsNear DEF TypeInv, TypeOK, Place, Here
<1> USE <1>0, AiAssumption DEF AiAssumption, TypeInv, TypeOK, Used
<1>1. ASSUME Io PROVE TypeInv'
  <2>1. CASE \E i \in Slot : Acquire(i)
    <3>1. \A i \in Slot : Here.guests[i] \in 0 .. MaxGen
      BY SceneAssumption DEF Here
    <3>2. QED
      BY <2>1, <3>1 DEF Acquire, body, mind, timers
  <2>2. CASE \E i \in Slot : Login(i)
    BY <2>2 DEF Login, body, mind, timers
  <2>3. CASE \E i \in Slot : Leave(i)
    BY <2>3 DEF Leave, body, mind, timers
  <2>4. CASE \E i \in Slot : Release(i)
    BY <2>4 DEF Release, body, mind, timers
  <2>5. QED
    BY <1>1, <2>1, <2>2, <2>3, <2>4 DEF Io
<1>2. ASSUME NEW i \in Slot, MovePlayer(i) \/ KillPlayer(i) \/ RevivePlayer(i) PROVE TypeInv'
  <2>1. CASE MovePlayer(i)
    BY <2>1 DEF MovePlayer, Beside, body, mind, timers
  <2>2. CASE KillPlayer(i)
    BY <2>2 DEF KillPlayer, body, mind, timers
  <2>3. CASE RevivePlayer(i)
    BY <2>3 DEF RevivePlayer, body, mind, timers
  <2>4. QED
    BY <1>2, <2>1, <2>2, <2>3
<1>3. ASSUME NEW i \in Slot, NEW g \in 1 .. MaxGen, Wound(i, g) \/ Kill(i, g) PROVE TypeInv'
  <2>1. CASE Wound(i, g)
    BY <2>1 DEF Wound, Struck, OnDamaged, players, mind, timers
  <2>2. CASE Kill(i, g)
    BY <2>2 DEF Kill, Struck, OnDamaged, players, mind, timers
  <2>3. QED
    BY <1>3, <2>1, <2>2
<1>4. CASE Respawn
  BY <1>4 DEF Respawn, players, mind, timers
<1>5. CASE BuildWaves
  <2>1. /\ wind' \in 0 .. Windup \cup {None} /\ cool' \in 0 .. Cooldown
        /\ repath' \in 0 .. Repath
    BY <1>5 DEF BuildWaves, Elapsed
  <2>2. since' \in 0 .. Windup \cup {None} /\ awake' \in BOOLEAN
    BY <1>5 DEF BuildWaves, IsAwake
  <2>3. QED
    BY <1>5, <2>1, <2>2 DEF BuildWaves, players, mind
<1>6. CASE Pass \/ Lose \/ TurnBack \/ Proceed
  <2>1. CASE Pass \/ Proceed
    BY <2>1 DEF Pass, Proceed, Updating, body, players, mind, timers
  <2>2. CASE Lose \/ TurnBack
    BY <2>2 DEF Lose, TurnBack, Updating, body, players, mind, timers
  <2>3. QED
    BY <1>6, <2>1, <2>2
<1>7. CASE Act
  <2>1. CASE Notice
    BY <2>1 DEF Notice, Acting, FoundTargets, Seen, players, timers
  <2>2. CASE Pursue
    <3>1. place[target] \in Place
      BY <2>2 DEF Pursue, Acting, Committed
    <3>2. at' \in Place /\ path' \in Place \cup {None} /\ repath' \in 0 .. Repath
      BY <2>2, <3>1, StepIsTyped DEF Pursue
    <3>3. QED
      BY <2>2, <3>2 DEF Pursue, Acting, players, mind, timers
  <2>3. CASE GoHome
    <3>1. at' \in Place /\ path' \in Place \cup {None} /\ repath' \in 0 .. Repath
      BY <2>3, StepIsTyped DEF GoHome
    <3>2. QED
      BY <2>3, <3>1 DEF GoHome, Acting, players, mind, timers
  <2>4. CASE Swing
    BY <2>4 DEF Swing, Acting, body, players, mind
  <2>5. CASE Arrive
    BY <2>5 DEF Arrive, ClearAi, Acting, players
  <2>6. CASE CatchUp
    BY <2>6 DEF CatchUp, Acting, players, timers
  <2>7. CASE StandIdle \/ GiveUp \/ FallBehind \/ Recover
    BY <2>7 DEF StandIdle, GiveUp, FallBehind, Recover, Acting, body, players, mind, timers
  <2>8. QED
    BY <1>7, <2>1, <2>2, <2>3, <2>4, <2>5, <2>6, <2>7 DEF Act
<1>8. CASE StrikeDue
  <2>1. blow' \in (Slot \X (1 .. MaxGen)) \cup {None}
    BY <1>8 DEF StrikeDue, Hits, Fighting
  <2>2. QED
    BY <1>8, <2>1 DEF StrikeDue, body, players, mind
<1>9. CASE NotDue
  BY <1>9 DEF NotDue, body, players, mind, timers
<1>10. CASE Flush
  BY <1>10 DEF Flush, body, mind, timers
<1>11. CASE UNCHANGED vars
  BY <1>11 DEF vars, body, players, mind, timers
<1>12. QED
  BY <1>1, <1>2, <1>3, <1>4, <1>5, <1>6, <1>7, <1>8, <1>9, <1>10, <1>11
     DEF Next, Others, AiTick, Validate

(* The fields of the AI, action by action.                                 *)
LEMMA MindStep == TypeInv /\ MindInv /\ [Next]_vars => MindInv'
<1> SUFFICES ASSUME TypeInv, MindInv, [Next]_vars PROVE MindInv'
  OBVIOUS
<1> USE AiAssumption DEF AiAssumption, TypeInv, TypeOK, MindInv
<1>0. scene' = scene /\ Here' = Here
  BY SceneStays DEF Here
<1> USE <1>0 DEF Committed, IdleIsWhole, GrudgeHasCause, Counted
<1>1. ASSUME Io PROVE MindInv'
  BY <1>1 DEF Io, Acquire, Login, Leave, Release, body, mind, timers
<1>2. ASSUME NEW i \in Slot, MovePlayer(i) \/ KillPlayer(i) \/ RevivePlayer(i) PROVE MindInv'
  BY <1>2 DEF MovePlayer, KillPlayer, RevivePlayer, body, mind, timers
<1>3. ASSUME NEW i \in Slot, NEW g \in 1 .. MaxGen, Wound(i, g) PROVE MindInv'
  <2>1. GrudgeHasCause'
    BY <1>3 DEF Wound, Struck, OnDamaged, mind
  <2>2. QED
    BY <1>3, <2>1 DEF Wound, Struck, OnDamaged, body, mind, timers
<1>4. ASSUME NEW i \in Slot, NEW g \in 1 .. MaxGen, Kill(i, g) PROVE MindInv'
  <2>1. GrudgeHasCause'
    BY <1>4 DEF Kill, Struck, mind
  <2>2. QED
    BY <1>4, <2>1 DEF Kill, Struck, body, mind, timers
<1>5. CASE Respawn
  BY <1>5 DEF Respawn, body, mind, timers
<1>6. CASE BuildWaves
  BY <1>6 DEF BuildWaves, Elapsed, mind
<1>7. CASE Pass \/ Lose \/ TurnBack \/ Proceed
  BY <1>7 DEF Pass, Lose, TurnBack, Proceed, Updating, body, mind, timers
<1>8. CASE Notice
  BY <1>8 DEF Notice, Acting, FoundTargets, Seen, timers
<1>9. CASE StandIdle \/ GiveUp \/ CatchUp \/ FallBehind \/ Recover \/ Pursue \/ GoHome
  BY <1>9 DEF StandIdle, GiveUp, CatchUp, FallBehind, Recover, Pursue, GoHome, Acting, body, mind, timers
<1>10. CASE Swing
  BY <1>10 DEF Swing, Acting, body, mind
<1>11. CASE Arrive
  BY <1>11 DEF Arrive, ClearAi, Acting
<1>12. CASE StrikeDue
  BY <1>12 DEF StrikeDue, body, mind
<1>13. CASE NotDue \/ Flush
  BY <1>13 DEF NotDue, Flush, body, mind, timers
<1>14. CASE UNCHANGED vars
  BY <1>14 DEF vars, body, mind, timers
<1>15. QED
  BY <1>1, <1>2, <1>3, <1>4, <1>5, <1>6, <1>7, <1>8, <1>9, <1>10, <1>11, <1>12, <1>13, <1>14
     DEF Next, Others, AiTick, Validate, Act

(* What a step of the monster has to keep.                                *)
LEMMA Moved ==
  ASSUME TypeOK, scene' = scene, at' \in Place,
         Open => path' = None /\ Dist(at', Spawn) <= Leash + 1,
         Here.unfound = {} => Roams(Here, at', Slack),
         Here.unfound = {} /\ path' \notin {None, Spawn} => Roams(Here, at', Strayed')
  PROVE  Leashed' /\ NoPath' /\ Straying'
<1>1. Here' = Here /\ Open' = Open /\ Slack' = Slack /\ Place' = Place
  BY DEF Here, Open, Slack, Place, Sees
<1>2. Leashed'
  BY <1>1 DEF Leashed, Within, Roams, Far, Walk, Dist, Way, Place
<1>3. NoPath'
  BY <1>1 DEF NoPath
<1>4. Straying'
  BY <1>1 DEF Straying
<1>5. QED
  BY <1>2, <1>3, <1>4

(* Where the monster stays, it roams no further.                           *)
LEMMA StandsStill ==
  ASSUME TypeOK, Leashed, NoPath, Straying, scene' = scene, at' = at,
         path' = path \/ path' = None, Strayed' \in Int,
         path' = None \/ Strayed' >= Strayed \/ Strayed' >= Repath
  PROVE  Leashed' /\ NoPath' /\ Straying'
<1>1. /\ Ground(Here) /\ at \in Here.place /\ Walk(Here, at) \in Nat
      /\ Strayed \in Int /\ Slack \in Int /\ Repath \in Int /\ Slack <= Repath
  <2>1. Ground(Here) /\ at \in Here.place /\ repath \in Int
    BY SceneIsGround DEF TypeOK, Place
  <2>2. Slack \in Int /\ Repath \in Int /\ Slack <= Repath
    BY SlackIsShort
  <2>3. Strayed \in Int
    BY <2>1, <2>2 DEF Strayed
  <2>4. QED
    BY <2>1, <2>2, <2>3, HomeIsNear
<1>2. Here.unfound = {} => Roams(Here, at, Slack)
  BY WithinRoams DEF Leashed
<1>3. ASSUME Here.unfound = {}, path' \notin {None, Spawn} PROVE Roams(Here, at, Strayed')
  <2>1. CASE Strayed' >= Strayed
    <3>1. Roams(Here, at, Strayed)
      BY <1>3 DEF Straying
    <3>2. QED
      BY <1>1, <2>1, <3>1, Still
  <2>2. CASE Strayed' >= Repath
    <3>1. Slack <= Strayed'
      BY <1>1, <2>2
    <3>2. QED
      BY <1>1, <1>2, <1>3, <3>1, Still
  <2>3. QED
    BY <1>3, <2>1, <2>2
<1>4. Open => path' = None /\ Dist(at', Spawn) <= Leash + 1
  BY DEF NoPath, Leashed
<1>5. QED
  BY <1>1, <1>2, <1>3, <1>4, Moved DEF Place

(* The leash.  A chase steps at most one place from where Validate saw it  *)
(* tethered.  A way home found leads home; any other path that is left is  *)
(* followed until its deadline, one step each time that one step is taken  *)
(* off the deadline.                                                       *)
LEMMA TetherStep == TypeInv /\ MindInv /\ TetherInv /\ [Next]_vars => TetherInv'
<1> SUFFICES ASSUME TypeInv, MindInv, TetherInv, [Next]_vars PROVE TetherInv'
  OBVIOUS
<1>0. /\ scene' = scene /\ TypeInv' /\ Committed
  BY SceneStays, TypeStep DEF MindInv
<1>1. /\ Ground(Here) /\ at \in Here.place /\ Spawn \in Here.place
      /\ Walk(Here, at) \in Nat /\ Dist(at, Spawn) \in Nat
      /\ Dist(Spawn, Spawn) = 0
  <2>1. Ground(Here) /\ at \in Here.place
    BY SceneIsGround DEF TypeInv, TypeOK, Place
  <2>2. QED
    BY <2>1, HomeIsNear, FromHere
<1>2. /\ repath \in 0 .. Repath /\ repath' \in 0 .. Repath /\ Repath \in Nat \ {0}
      /\ Leash \in Nat /\ TypeOK /\ at' \in Place
  <2>1. TypeOK /\ TypeOK'
    BY <1>0 DEF TypeInv
  <2>2. Place' = Place
    BY <1>0 DEF Place, Here
  <2>3. QED
    BY <2>1, <2>2, AiAssumption DEF TypeOK, AiAssumption
<1>3. Strayed' \in Int /\ Strayed \in Int
  BY <1>2 DEF Strayed
<1>4. Here' = Here /\ Dist(at, Spawn)' = Dist(at', Spawn)
  BY <1>0 DEF Here, Dist
<1>5. ASSUME at' = at, path' = path \/ path' = None,
             path' = None \/ Strayed' >= Strayed \/ Strayed' >= Repath,
             Tethered'
      PROVE  TetherInv'
  BY <1>0, <1>2, <1>3, <1>5, StandsStill DEF TetherInv
<1>6. ASSUME UNCHANGED <<body, phase>>, Tethered' PROVE TetherInv'
  BY <1>3, <1>5, <1>6 DEF Strayed, body
<1>7. ASSUME UNCHANGED <<body, ai>>, phase' \notin {"simulate", "act"} PROVE TetherInv'
  BY <1>2, <1>3, <1>5, <1>7 DEF Strayed, body, Tethered
<1>8. CASE Io
  BY <1>4, <1>6, <1>8 DEF Io, Acquire, Login, Leave, Release, mind, body, Tethered, TetherInv
<1>9. ASSUME NEW i \in Slot, MovePlayer(i) \/ KillPlayer(i) \/ RevivePlayer(i) PROVE TetherInv'
  BY <1>4, <1>6, <1>9
     DEF MovePlayer, KillPlayer, RevivePlayer, mind, body, Tethered, TetherInv
<1>10. ASSUME NEW i \in Slot, NEW g \in 1 .. MaxGen, Wound(i, g) PROVE TetherInv'
  <2>1. phase = "open" /\ phase' = "open" /\ at' = at /\ Tethered'
    BY <1>10 DEF Wound, Struck, Tethered
  <2>2. CASE path' = path /\ repath' = repath
    BY <1>3, <1>5, <2>1, <2>2 DEF Strayed
  <2>3. CASE path' = None
    BY <1>5, <2>1, <2>3
  <2>4. QED
    BY <1>10, <2>2, <2>3 DEF Wound, OnDamaged
<1>11. ASSUME NEW i \in Slot, NEW g \in 1 .. MaxGen, Kill(i, g) PROVE TetherInv'
  BY <1>6, <1>11 DEF Kill, Struck, body, Tethered
<1>12. ASSUME at' = Spawn, path' = None \/ (path' = path /\ Strayed' >= 0), phase' # "act"
       PROVE  TetherInv'
  <2>1. \A n \in Nat : Roams(Here, at', n)
    BY <1>1, <1>2, <1>12, RoamFromLeash, FromHere
  <2>2. Slack \in Nat
    BY SlackIsShort
  <2>3. Open => path' = None /\ Dist(at', Spawn) <= Leash + 1
    BY <1>1, <1>2, <1>12 DEF TetherInv, NoPath
  <2>4. path' \notin {None, Spawn} => Roams(Here, at', Strayed')
    BY <1>3, <1>12, <2>1
  <2>5. QED
    BY <1>0, <1>2, <1>12, <2>1, <2>2, <2>3, <2>4, Moved DEF TetherInv, Tethered
<1>13. CASE Respawn
  BY <1>2, <1>12, <1>13 DEF Respawn, Strayed
<1>14. CASE BuildWaves
  <2>1. /\ at' = at /\ path' = path /\ Tethered' /\ phase = "open" /\ phase' = "simulate"
        /\ repath' = Elapsed(repath)
    BY <1>14 DEF BuildWaves, Tethered
  <2>2. CASE repath = 0
    BY <1>2, <1>5, <2>1, <2>2 DEF Strayed, Elapsed
  <2>3. CASE repath # 0
    BY <1>2, <1>5, <2>1, <2>3 DEF Strayed, Elapsed
  <2>4. QED
    BY <2>2, <2>3
<1>15. CASE Pass
  BY <1>7, <1>15 DEF Pass, mind
<1>16. CASE Lose
  <2>1. at' = at /\ path' = path /\ Tethered' /\ Strayed' = Strayed
    BY <1>16 DEF Lose, Updating, body, Tethered, Strayed
  <2>2. QED
    BY <1>3, <1>5, <2>1
<1>17. CASE TurnBack
  BY <1>5, <1>17 DEF TurnBack, Updating, Tethered
<1>18. CASE Proceed
  <2>1. at' = at /\ path' = path /\ Strayed' = Strayed
    BY <1>18 DEF Proceed, Updating, body, Strayed
  <2>2. Tethered'
    BY <1>1, <1>2, <1>4, <1>18, <2>1 DEF Proceed, TooFar, mind, Tethered
  <2>3. QED
    BY <1>3, <1>5, <2>1, <2>2
<1>19. CASE Notice
  <2>1. path' = None
    BY <1>0, <1>19 DEF Notice, Acting, Committed
  <2>2. QED
    BY <1>5, <1>19, <2>1 DEF Notice, Acting, Tethered
<1>20. CASE StandIdle \/ Recover \/ Swing
  BY <1>7, <1>20 DEF StandIdle, Recover, Swing, Acting, mind
<1>21. CASE GiveUp \/ FallBehind
  <2>1. UNCHANGED body /\ phase' = "strike"
    BY <1>21 DEF GiveUp, FallBehind, Acting
  <2>2. Strayed' >= Strayed
    BY <1>2, <2>1 DEF Strayed, body
  <2>3. QED
    BY <1>5, <2>1, <2>2 DEF body, Tethered
<1>22. CASE CatchUp
  BY <1>5, <1>22 DEF CatchUp, Acting, Tethered
<1>23. CASE Pursue
  <2>1. /\ phase = "act" /\ phase' = "strike" /\ ai \in {"chase", "attack"}
        /\ place[target] \in Place /\ StepToward(place[target])
    BY <1>0, <1>23 DEF Pursue, Acting, Committed, TypeInv, TypeOK
  <2>2. Roams(Here, at, 0) /\ Dist(at, Spawn) <= Leash
    BY <1>1, <2>1, RoamFromLeash, FromHere DEF TetherInv, Tethered
  <2>3. /\ Walk(Here, at') <= Walk(Here, at) + 1
        /\ Dist(at', Spawn) <= Dist(at, Spawn) + 1
    BY <1>2, <2>1, StepFurther, FromHere
  <2>4. ASSUME NEW n \in Int, 1 <= n PROVE Roams(Here, at', n)
    BY <1>1, <1>2, <2>2, <2>3, <2>4, RoamFurther DEF Place
  <2>5. 1 <= Strayed'
    <3>1. Strayed' = Repath - repath' + 1
      BY <2>1 DEF Strayed
    <3>2. 1 <= Repath - repath' + 1
      BY <1>2, OneMore
    <3>3. QED
      BY <3>1, <3>2
  <2>6. Roams(Here, at', Strayed') /\ Roams(Here, at', Slack)
    BY <1>3, <2>4, <2>5, SlackIsShort
  <2>7. Dist(at', Spawn) \in Nat
    BY <1>1, <1>2, FromHome
  <2>8. Open => path' = None /\ Dist(at', Spawn) <= Leash + 1
    BY <1>1, <1>2, <2>1, <2>2, <2>3, <2>7 DEF StepToward, Straight, Search, Follow, Open, Place
  <2>9. QED
    BY <1>0, <1>2, <2>1, <2>6, <2>8, Moved DEF TetherInv, Tethered
<1>24. CASE Arrive
  BY <1>12, <1>24 DEF Arrive, ClearAi, Acting
<1>25. CASE GoHome
  <2>1. phase = "act" /\ phase' = "strike" /\ StepToward(Spawn) /\ Spawn \in Place
    BY <1>1, <1>25 DEF GoHome, Acting, Place
  <2>2. Open => path' = None /\ Dist(at', Spawn) <= Leash + 1
    <3>1. Open => Straight(Spawn)
      BY <1>1, <2>1 DEF StepToward, Search, Follow, Open, Place
    <3>2. Open => path' = None /\ Dist(at', Spawn) <= Dist(at, Spawn)
      BY <1>0, <1>2, <3>1, HomeStep DEF Straight, TypeOK
    <3>3. Dist(at', Spawn) \in Nat
      BY <1>1, <1>2, FromHome
    <3>4. QED
      BY <1>1, <1>2, <3>2, <3>3 DEF TetherInv, Leashed
  <2>3. ASSUME Here.unfound = {}
        PROVE  /\ Roams(Here, at', Slack)
               /\ path' \notin {None, Spawn} => Roams(Here, at', Strayed')
    <3>1. Roams(Here, at, Slack)
      BY <2>3, WithinRoams DEF TetherInv, Leashed
    <3>2. CASE at' \in StepsTo(at, Spawn) /\ path' \in {None, Spawn}
      <4>1. Walk(Here, at') <= Walk(Here, at) + 0
        <5>1. Walk(Here, at') <= Walk(Here, at)
          BY <1>1, <1>2, <3>2, HomeStep, FromHere DEF TypeOK
        <5>2. QED
          BY <1>1, <5>1
      <4>2. at \in Here.place /\ at' \in Here.place
        BY <1>1, <1>2 DEF Place
      <4>3. Slack \in Int /\ Slack + 0 <= Slack
        BY SlackIsShort
      <4>4. Roams(Here, at', Slack)
        BY <1>1, <3>1, <4>1, <4>2, <4>3, RoamFurther
      <4>5. QED
        BY <3>2, <4>4
    <3>3. CASE Straight(Spawn)
      BY <3>2, <3>3 DEF Straight
    <3>4. CASE Search(Spawn)
      BY <2>3, <3>2, <3>4 DEF Search, OnPath
    <3>5. CASE Follow(Spawn)
      <4>1. CASE at = path
        BY <1>1, <3>1, <3>5, <4>1 DEF Follow
      <4>2. CASE at # path /\ path = Spawn
        BY <2>3, <3>2, <3>5, <4>2 DEF Follow, OnPath
      <4>3. CASE at # path /\ path # Spawn
        <5>1. /\ path \in Place /\ repath >= 1 /\ repath' = repath /\ path' = path
              /\ at' \in StepsTo(at, path)
          BY <1>2, <2>3, <3>5, <4>3 DEF Follow, NeedsPath, OnPath, TypeOK
        <5>2. path # None
          BY <3>5 DEF Follow, NeedsPath
        <5>3. Strayed' = Strayed + 1 /\ Strayed' <= Repath
          BY <1>2, <2>1, <5>1 DEF Strayed
        <5>4. Walk(Here, at') <= Walk(Here, at) + 1
          BY <1>2, <5>1, StraightIsShort, FromHere DEF TypeOK
        <5>5. Roams(Here, at, Strayed)
          BY <2>3, <4>3, <5>2 DEF TetherInv, Straying
        <5>6. ~Open
          BY <5>2 DEF TetherInv, NoPath
        <5>7. Strayed + 1 <= Slack /\ Slack \in Int
          BY <5>3, <5>6, SlackIsShort
        <5>8. Roams(Here, at', Slack)
          BY <1>1, <1>2, <1>3, <5>4, <5>5, <5>7, RoamFurther DEF Place
        <5>9. Strayed + 1 <= Strayed'
          BY <1>3, <5>3
        <5>10. Roams(Here, at', Strayed')
          BY <1>1, <1>2, <1>3, <5>4, <5>5, <5>9, RoamFurther DEF Place
        <5>11. QED
          BY <5>8, <5>10
      <4>4. QED
        BY <4>1, <4>2, <4>3
    <3>6. QED
      BY <2>1, <3>3, <3>4, <3>5 DEF StepToward
  <2>4. QED
    BY <1>0, <1>2, <2>1, <2>2, <2>3, Moved DEF TetherInv, Tethered
<1>26. CASE StrikeDue \/ NotDue
  BY <1>7, <1>26 DEF StrikeDue, NotDue, mind
<1>27. CASE Flush
  BY <1>7, <1>27 DEF Flush, mind
<1>28. CASE UNCHANGED vars
  <2>1. UNCHANGED <<body, phase, ai, at>>
    BY <1>28 DEF vars, mind, body
  <2>2. Tethered'
    BY <1>4, <2>1 DEF Tethered, TetherInv
  <2>3. QED
    BY <1>6, <2>1, <2>2
<1>29. QED
  BY <1>8, <1>9, <1>10, <1>11, <1>13, <1>14, <1>15, <1>16, <1>17, <1>18, <1>19, <1>20, <1>21,
     <1>22, <1>23, <1>24, <1>25, <1>26, <1>27, <1>28
     DEF Next, Others, AiTick, Validate, Act

(* The inductive invariant holds in every reachable state.                 *)
THEOREM Invariant == Spec => []IInv
<1>1. IInv /\ [Next]_vars => IInv'
  BY TypeStep, MindStep, TetherStep DEF IInv, MindInv
<1>2. QED
  BY InitInv, <1>1, PTL DEF Spec

-----------------------------------------------------------------------------
(* Every variable keeps its type.                                          *)
THEOREM AiTypeOK == Spec => []TypeOK
<1>1. IInv => TypeOK
  BY DEF IInv, TypeInv
<1>2. QED
  BY Invariant, <1>1, PTL

(* Where everything is in sight, nobody drags the monster more than one    *)
(* step beyond its leash; elsewhere it roams no further from home, by the  *)
(* way it walks, than the furthest place within the leash and one path,    *)
(* where searches find the shortest way.                                   *)
THEOREM LeashHolds == Spec => []Leashed
<1>1. IInv => Leashed
  BY DEF IInv, TetherInv
<1>2. QED
  BY Invariant, <1>1, PTL

(* State, target and pending blow agree, and a passive monster has been    *)
(* hit from the slot it turns to.                                          *)
THEOREM MindSound == Spec => [](Committed /\ GrudgeHasCause)
<1>1. IInv => Committed /\ GrudgeHasCause
  BY DEF IInv, MindInv
<1>2. QED
  BY Invariant, <1>1, PTL

(* A monster that stands idle is whole: no way home, flight or fight that  *)
(* was cut short leaves it wounded or owing a blow.                        *)
THEOREM IdleMeansWhole == Spec => []IdleIsWhole
<1>1. IInv => IdleIsWhole
  BY DEF IInv, MindInv
<1>2. QED
  BY Invariant, <1>1, PTL

(* Every blow was announced at least a windup earlier, and no announcement *)
(* pays for two blows: when a blow falls due, Counted says that the        *)
(* announcement is a windup old or older (since stops counting there) and  *)
(* has not landed.                                                         *)
THEOREM BlowsAnnounced == Spec => Announced
<1>1. IInv /\ [Next]_vars => [blow = None /\ blow' # None => since = Windup]_vars
  <2> SUFFICES ASSUME IInv, [Next]_vars, blow = None, blow' # None PROVE since = Windup
    OBVIOUS
  <2>1. CASE StrikeDue
    BY <2>1, AiAssumption
       DEF StrikeDue, IInv, TypeInv, TypeOK, MindInv, Counted, AiAssumption
  <2>2. CASE Io \/ Others
    BY <2>2 DEF Io, Acquire, Login, Leave, Release, Others, MovePlayer, KillPlayer,
                RevivePlayer, Wound, Kill, Struck, Respawn
  <2>3. CASE BuildWaves \/ Pass \/ Validate \/ NotDue \/ Flush
    BY <2>3 DEF BuildWaves, Pass, Validate, Lose, TurnBack, Proceed, NotDue, Flush
  <2>4. CASE Act
    BY <2>4 DEF Act, Notice, StandIdle, GiveUp, CatchUp, Pursue, FallBehind, Recover,
                Swing, Arrive, GoHome
  <2>5. QED
    BY <2>1, <2>2, <2>3, <2>4 DEF Next, AiTick, vars
<1>2. QED
  BY Invariant, <1>1, PTL DEF Spec, Announced
=============================================================================
