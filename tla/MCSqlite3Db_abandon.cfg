SPECIFICATION AbandonSpec
CONSTANTS
  Connections = {k1}
  Coroutines = {c1, c2}
  NoConn = NoConn
  Calls = {}
  MeetFullQueue = {}
INVARIANTS
  NotTouchedByTwo
CHECK_DEADLOCK FALSE
