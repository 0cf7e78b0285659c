CONSTANTS
  Euids = {1}
  Pairable = {1}
  Default = 1
  Times = {0, 2}
  ActiveTime = 2
  MaxCommands = 1
SPECIFICATION Spec
INVARIANT
  AssertHolds
