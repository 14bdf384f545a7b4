SPECIFICATION FairSpec
CONSTANTS
  MaxThreads = 2
  MaxDialogs = 2
  Options = {"timed", "exit", "untimed", "later"}
  CanFail = {"init", "thread", "video"}
  Patience = {TRUE, FALSE}
INVARIANTS
  TypeOK
  OneIOThread
  NoUseAfterFree
  NotReentered
PROPERTIES
  StopsComplete
CHECK_DEADLOCK FALSE
