CONSTANTS
  a1 = a1
  s1 = s1
  r1 = r1
  None = None
  Msgs = {a1, s1}
  DataMsgs = {a1, s1}
  ActuatorMsgs = {a1}
  Dist = TRUE
  MinItems = 2
  EmptyReplyIsOk = TRUE
  RestartMidStore = TRUE
  MaxBlackouts = 1
  MaxRestarts = 1
SPECIFICATION Spec
PROPERTY
  RemovedMeansSent
