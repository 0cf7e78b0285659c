CONSTANTS
  Euids = {1, 2}
  Pairable = {1}
  Default = 1
  Times = {2}
  ActiveTime = 2
  MaxCommands = 1
SPECIFICATION FairSpec
INVARIANTS
  SleepFits
  StopNeedsNoLock
PROPERTIES
  PairedIsKept
  InactiveIsSought
