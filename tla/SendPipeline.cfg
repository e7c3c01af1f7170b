\* Three producers; two coroutines where the code is to need one.
CONSTANTS
  Producer = {p1, p2, p3}
  Worker = {w1, w2}
  MaxMsg = 5
SPECIFICATION FairSpec
INVARIANTS OneSender NoLostWakeup
PROPERTIES StreamSpec Drains
\* A session that is closing and has nothing left to send stops.
CHECK_DEADLOCK FALSE
