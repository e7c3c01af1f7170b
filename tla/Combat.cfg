\* A mage and a warrior side by side, and one monster they both strike.
CONSTANTS
  Conn = {c1, c2}
  Slot = {0, 1}
  SlotOf <- OwnSlot
  Monster = {m1}
  Mage = {c1}
  Windup = 1
  Cooldown = 2
  Cost = 1
  MaxMp = 1
  Life = 1
  MaxBolts = 1
  MaxHp = 1
  Rest = 1
  MaxTick = 3
  MaxBlows = 2
  c1 = c1
  c2 = c2
  m1 = m1
  None = None
SPECIFICATION Spec
INVARIANTS EachCastOnce OnTime BoltsEnd OneDeathPerLife
PROPERTY Spaced
\* The ticks are bounded.
CHECK_DEADLOCK FALSE
