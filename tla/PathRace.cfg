\* Two workers of one AI wave that search at the same time.
CONSTANTS
  first = first
  second = second
  Searcher = {first, second}
  Cell = {0, 1, 2, 3, 4}
  Start <- MCStart
  Goal <- MCGoal
  Around <- MCAround
  Estimate <- MCEstimate
  Limit = 8
SPECIFICATION FairSpec
PROPERTY SearchEnds
\* The searches are over.
CHECK_DEADLOCK FALSE
