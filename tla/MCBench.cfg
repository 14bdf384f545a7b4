SPECIFICATION BenchSpec
CONSTANTS
  NPics = 2
  Formats = {"file", "raw"}
  Patience = {TRUE, FALSE}
  MaxNames = 3
  BufferSize = 3
  MaxFile = 5
  Cell = {x, y}
  Hole = hole
  HeaderSize = 30
  MaxRiff = 40
  MaxMaster = 2
  Lengths = {3, 8}
  Ahead = {0, 2}
  MaxChunks = 5
  SegmentAt = 10
  HeaderEnd = 30
  TimeScale = 2
  Second = 5
  KeySize = 30
  StreamSize = 60
  FullSize = 80
  RelativeHalf = 4
  BlockSizes = {4, 25}
  Steps = {0, 5}
  MaxPackets = 4
  MaxDelayed = 3
  Delays = {0, 1, 3, 4}
  MaxFrames = 9
  FocusMin = 0
  FocusMax = 6
  FocusStep = 1
  ClickLeft = 2
  ClickRight = 7
  FrameTime = 33
  Scenes <- MCScenes
  MaxClicks = 2
  Cameras <- MCCameras
  Values = {0, 1, 2}
INVARIANTS
  TypesOK
  NoPictureLost
  NameInUse
  SavedAtExit
  AviPatched
  AviIndex
  MkvBlocks
  MkvCues
  StampsFollow
  SettingsArrive
  PanelShowsDevice
PROPERTIES
  ImplementsFile
  FocusIsBest
  TrackKeepsSharp
  FocusSettles
CHECK_DEADLOCK FALSE
