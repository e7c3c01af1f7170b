\* A session that closes during its migration.
CONSTANTS
  Conn = {c1}
  PlayerId = {0}
  Npc = {n1}
  Sector = {0, 1, 2}
  Near <- MCNear
  Wave <- MCWave
  Origin = 0
  Village = 0
  LoginSpot = {1}
  Home <- MCHome
  Doorstep <- AtHome
  LastPart = 1
  MaxHits = 1
  None = None
SPECIFICATION Spec
INVARIANT EndedLeavesGrid
