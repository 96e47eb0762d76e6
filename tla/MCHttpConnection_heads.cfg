SPECIFICATION Spec
CONSTANTS
  Clients <- AllClients
  SingleRead = 3
  MaxHeader = 4
  MaxContent = 5
  MaxTEChunk = 3
  MaxTE = 4
  BufSizes = {2, 4}
  Scratch = 4
  Word = 64
  MaxPartials = 2
  MaxChunks = 1
INVARIANTS
  AnswersHaveHeads
CHECK_DEADLOCK FALSE
