SPECIFICATION Spec
CONSTANTS
  MaxThreads = 2
  MaxDialogs = 1
  Options = {"later"}
  CanFail = {"init"}
  Patience = {TRUE}
INVARIANTS
  DiskChecked
