\* Three helpers, two calls of the pool, two dispatchers and a handler that
\* posts just enough packets; Ctrl-C comes at any time, up to twice.
CONSTANTS
  Helper = {h1, h2, h3}
  Caller = h0
  None = None
  MaxRound = 2
  Dispatcher = {d1, d2}
  QuitPackets = 2
  MaxSignals = 2
SPECIFICATION ServerSpec
INVARIANT TaskAlive
PROPERTIES CallSpec Returns ServerStops
\* A server that has ended stops.
CHECK_DEADLOCK FALSE
