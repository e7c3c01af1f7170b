\* A passive or an aggressive monster: two players in an open field; two
\* sessions in one slot, one after the other, where the ground has walls.
CONSTANTS
  Slot = {0, 1}
  MaxGen = 2
  Scenes <- MCScenes
  Spawn = 0
  Tolerance = 0
  Reach = 0
  Leash = 1
  Aggro = 2
  Windup = 1
  Cooldown = 2
  Repath = 2
  MaxHp = 2
  None = None
SPECIFICATION FairSpec
INVARIANTS IdleIsWhole Leashed GrudgeHasCause
PROPERTIES Announced ReturnsHome
