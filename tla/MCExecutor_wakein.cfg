SPECIFICATION Spec
CONSTANTS
  acc = acc
  c1 = c1
  c2 = c2
  NullHandle = null
  Tasks = {acc, c1, c2}
  Root = acc
  Fds = {3, 4, 5}
  FdOf <- TheirFds
  Workloads <- WakeInWorkload
  Timeouts = {1}
  Cycles = {1}
  MaxWakeupTurn = 3
  SqSize = 1
  GracePeriod = 1
  MaxDeadlines = 2
INVARIANTS
  OnlyCoroutinesAreResumed
CHECK_DEADLOCK FALSE
