SPECIFICATION MCSpec
CONSTANTS
  Coroutines = {c1, c2}
  Keys = {k1, k2}
  Parents = {0, 1}
  MaxId = 2
  Things = {1, 2}
  Records = Records
  Relations <- MCRelations
  Columns <- MCColumns
  Prepared = {"all", "one", "union", "cte"}
  MaxCalls = 3
  Connections = {d1, d2}
  NoConn = NoConn
  Third = c3
SYMMETRY Symmetric
INVARIANT MirroredRelationQueried
CHECK_DEADLOCK FALSE
