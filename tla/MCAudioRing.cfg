SPECIFICATION FairSpec
CONSTANTS
  BufSize = 2
  BufNum = 2
  MaxLoops = 4
  MaxChunks = 6
  MaxSkip = 1
INVARIANTS
  TypeOK
  OneOwner
  StopKeepsBuffers
PROPERTIES
  ImplementsFifo
  DropMeansFull
  StopCompletes
CHECK_DEADLOCK FALSE
