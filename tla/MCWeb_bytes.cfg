SPECIFICATION MCSpec
CONSTANTS
  Coroutines = {c1, c2, c3, c4}
  Pipes = {p1, p2}
  NoPipe = NoPipe
  MaxPipes = 2
  ChunkSize = 2
  FileSize = 3
  MaxKey = 3
  a1 = a1
  a2 = a2
  b1 = b1
  ThreadOf <- MCThreadOf
  Workloads <- MCWorkloads
  Lengths <- MCLengths
  Cases <- MCCases
  CacheRules <- MCCacheRules
  Formatters <- MCFormatters
  Requests = {r1, r2, r3}
  NoRequest = NoRequest
  Forms <- MCForms
  Heads <- MCHeads
INVARIANT FileBytesServed
CHECK_DEADLOCK FALSE
