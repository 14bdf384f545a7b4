SPECIFICATION FairSpec
CONSTANTS
  Size = 2
  MaxLoops = 3
  StallLoops = 1
  Delay = 1
  VidFormat = "AVI"
  MaxDrift = 1
  MaxFrames = 3
  MaxSkip = 0
  MaxCaptures = 1
PROPERTIES
  StopCompletes
  FramesProcessed
  FinishedMeansProcessed
