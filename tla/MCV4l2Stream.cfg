SPECIFICATION FairSpec
CONSTANTS
  NB_BUFFER = 2
  Sizes = {1, 2}
  Rates = {"a", "b"}
  InitSize = 1
  InitRate = "a"
  Methods = {"mmap", "read"}
  Haste = {TRUE, FALSE}
  CanFail = {"enable", "disable", "dequeue", "queue", "query", "map", "request", "format", "apply", "decode", "overlay"}
  MaxFailures = 1
  MaxRequests = 2
INVARIANTS
  TypeOK
  NoBufferLost
  SettingsApplied
  RestartWorks
PROPERTIES
  FramesKeepComing
CHECK_DEADLOCK FALSE
