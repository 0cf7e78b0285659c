CONSTANTS
  t1 = t1
  t2 = t2
  Recv = Recv
  Modules = {t1, t2}
  Tries = 2
  IdLimit = 8
  StartIds = {2}
  MaxRequests = 2
  MaxCommands = 1
  MaxDrops = 1
SPECIFICATION FairSpec
INVARIANTS
  RegisterComesFirst
  AnswerIsMine
  RequestsAreCleared
PROPERTIES
  CallReturns
  Reconnects
CHECK_DEADLOCK FALSE
