CONSTANTS
  Base = 16
  Devices = {0, 5, 6, 13, 27, 98}
  Numbers <- SomeNumbers
  Wanted <- SomeWanted
  Strengths = {3}
  Chosen = {0, 1, 2, 3, 8, 300}
  MaxReadings = 2
  Registered = {"JA85ST", "JA83P", "TP82N", "other"}
  MaxSeconds = 3
  MaxTells = 3
  MaxSets = 2
  MaxHands = 2
  MaxVirtual = 2
  AskIds = {999, 1003, 1006}
  ServerIds = {2000}
  OverTCP = TRUE
  MaxAsks = 3
  MaxDepth = 2
  Bits = 8
  Hosts = {0, 1, 127, 129, 254, 255}
  Interfaces <- SomeInterfaces
  PageValues = {0, 1, 2}
  SEND_RETRY = 2
  MaxCalls = 3
  Msgs = {"message"}
  Limit = 50
  Epoch = 100
  Round = 2
  Delay = 1
  MaxTime = 6
  MaxBlackouts = 2
  MaxRestarts = 1
SPECIFICATION ServicesSpec
INVARIANTS
  ServicesTypeOK
  PanIsRight
  DevicesAreRight
  AnswersAreOwn
  FindsHosts
  RegulatorIsRight
  RestoredIsClose
CHECK_DEADLOCK FALSE
