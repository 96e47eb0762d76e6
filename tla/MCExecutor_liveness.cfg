SPECIFICATION FairSpec
CONSTANTS
  acc = acc
  c1 = c1
  c2 = c2
  NullHandle = null
  Tasks = {acc, c1, c2}
  Root = acc
  Fds = {3, 4, 5}
  FdOf <- TheirFds
  Workloads <- LivenessWorkloads
  Timeouts = {1}
  Cycles = {}
  MaxWakeupTurn = 1
  SqSize = 1
  GracePeriod = 1
  MaxDeadlines = 2
PROPERTIES
  SuspensionsEnd
  ShutdownReturns
CHECK_DEADLOCK FALSE
