SPECIFICATION Spec
CONSTANTS
  Size = 2
  MaxLoops = 2
  StallLoops = 1
  Delay = 1
  VidFormat = "MKV"
  MaxDrift = 1
  MaxFrames = 3
  MaxSkip = 1
  MaxCaptures = 3
CONSTRAINT LastStart
INVARIANTS
  TypeOK
  RingInv
  NoUseAfterFree
  FileInOrder
  FramecountExact
PROPERTY
  ImplementsFifo
