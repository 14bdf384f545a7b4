SPECIFICATION FairSpec
CONSTANTS
  BufSize = 2
  BufNum = 2
  MaxLoops = 3
  MaxChunks = 1
  MaxSkip = 1
PROPERTIES
  CallbackReturns
CHECK_DEADLOCK FALSE
