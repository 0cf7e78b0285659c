CONSTANTS
  MaxTokens = 2
  Chunks = {2}
  MaxCommands = 4
  MaxDrops = 2
  Lengths <- FourMessages
  MaxFrame = 6
  TwoFrames = TRUE
  Optional = {"mqtt", "distributor", "pressure", "leds", "jablotron"}
SPECIFICATION StreamsSpec
INVARIANTS
  NeverEmpty
  ArriveInOrder
  TornHasCause
  StopIsClean
PROPERTIES
  QueuedIsHandled
  Stops
CHECK_DEADLOCK FALSE
