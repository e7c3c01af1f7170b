\* Two others, two logins in any slots, a view list of one.
CONSTANTS
  Slot = {1, 2}
  Cap = 1
  MaxGen = 2
SPECIFICATION FairViewSpec
INVARIANTS ShownIsInView AddedOnce
PROPERTIES LeaverDisappears NeighbourAppears
