CONSTANTS
  t1 = t1
  t2 = t2
  Recv = Recv
  Modules = {t1, t2}
  Tries = 2
  IdLimit = 8
  StartIds = {0}
  MaxRequests = 2
  MaxCommands = 0
  MaxDrops = 0
SPECIFICATION Spec
INVARIANT
  AnswerIsMine
CHECK_DEADLOCK FALSE
