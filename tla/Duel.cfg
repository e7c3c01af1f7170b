\* A monster and a player in a small room with walls, at the edge of the world,
\* and a fireball at times.
CONSTANTS
  HeightAt <- MCHeightAt
  OpenSets <- MCOpenSets
  MobStarts <- MCMobStarts
  HeroStarts <- MCHeroStarts
  Scripts <- MCScripts
  MobSpeed = 420
  AttackRange = 160
  Casts <- MCCasts
  ProjSpeed = 1800
  ProjLife = 9
  None = None
SPECIFICATION DuelSpec
INVARIANTS SearchIsRight QueryCoversView
PROPERTIES StepIsLegal Arrives NoFlyThrough
CHECK_DEADLOCK FALSE
