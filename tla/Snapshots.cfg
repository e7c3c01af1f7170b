\* A queue of three, two per tick, a client that repeats and reorders, and an observer.
CONSTANTS
  MaxQueue = 3
  PerTick = 2
  MaxSeq = 6
SPECIFICATION FairSpec
INVARIANTS AckMatches RecentKept FollowedClosely
PROPERTIES InOrder LatestIsAcked
