SPECIFICATION Spec
CONSTANTS
  Size = 2
  MaxLoops = 3
  StallLoops = 1
  Delay = 0
  VidFormat = "MKV"
  MaxDrift = 0
  MaxFrames = 4
  MaxSkip = 0
  MaxCaptures = 1
INVARIANT HandshakeMeansStopped
