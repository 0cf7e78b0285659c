CONSTANTS
  Sensors = 2
  Width = 8
  WriteBase = 3
  ReadBase = 5
  MaxListens = 3
  MaxRestarts = 2
  Values = {1, 2}
  Requests = {0, 4}
  MaxRequests = 2
  Switches = 2
  States = {0, 1}
  MaxFailed = 2
  Retries = 2
  MaxSets = 2
  MaxFailures = 2
  Devices = {d1, d2}
  Attempts = 2
  MaxScans = 1
  MaxPairings = 2
  MaxReboots = 1
  Refreshes = {0, 1, 2, 4, 5}
  Longest = 4
  Default = 3
  MaxChanges = 3
  Leds = {1, 2}
  MaxOrders = 2
  MaxQueued = 1
  MaxUpsets = 1
SPECIFICATION ModulesSpec
INVARIANTS
  ModulesTypeOK
  PairedIsRight
  ActualIsRight
  SettingsAreKept
PROPERTIES
  RequestsAreFollowed
  RightSwitch
CHECK_DEADLOCK FALSE
