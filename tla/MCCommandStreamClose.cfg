CONSTANTS
  MaxTokens = 2
  Chunks = {2}
  MaxCommands = 1
  MaxDrops = 1
SPECIFICATION FairSpec
PROPERTY
  EndIsNoticed
CHECK_DEADLOCK FALSE
