\* One NPC and one session, two workers: moves, kills and respawns of both,
\* and the tick's progress.
CONSTANTS
  Conn = {c1}
  PlayerId = {0}
  Npc = {n1}
  Sector = {0, 1, 2}
  Near <- MCNear
  Wave <- MCWave
  Origin = 0
  Village = 0
  LoginSpot = {1}
  Home <- MCHome
  Doorstep <- NearBorder
  LastPart = 1
  MaxHits = 2
  None = None
SPECIFICATION FairSpec
INVARIANTS PlayerMembership NpcMembership OwnerAgrees OncePerPhase
PROPERTIES NpcReturns TickCompletes
