SPECIFICATION Spec
CONSTANTS
  acc = acc
  c1 = c1
  c2 = c2
  NullHandle = null
  Tasks = {acc, c1, c2}
  Root = acc
  Fds = {3, 4, 5}
  FdOf <- TheirFds
  Workloads <- SafetyWorkloads
  Timeouts = {1}
  Cycles = {0, 1}
  MaxWakeupTurn = 2
  SqSize = 1
  GracePeriod = 1
  MaxDeadlines = 2
INVARIANTS
  OneHolder
  TimeoutIsGenuine
  NoLostReadiness
  PostedIsSignalled
  TablesAgree
CHECK_DEADLOCK FALSE
