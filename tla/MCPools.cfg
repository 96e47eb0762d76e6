SPECIFICATION MCSpec
CONSTANTS
  Jobs = {j1, j2}
  Workers = {w1, w2}
  MaxQueueSize = 1
  Connections = {k1}
  Coroutines = {c1, c2, c3}
  NoConn = NoConn
  Calls = {}
  MeetFullQueue = {"submit"}
INVARIANTS
  TypeOK
  PostedOnce
  ResultBeforeResume
  NoSleepOnWork
  DestructorDrains
PROPERTIES
  ImplementsFuture
  ImplementsFairFuture
  UsesPoolProperly
  ClientsServed
CHECK_DEADLOCK FALSE
