CONSTANTS
  m1 = m1
  m2 = m2
  m3 = m3
  None = None
  Msgs = {m1, m2, m3}
  Times = {1, 2, 3}
  FirstTime <- Stamped
  LaterTime <- Corrected
  MaxRetries = 1
  Readings <- SomeReadings
  MaxMessages = 3
  MaxStores = 2
SPECIFICATION RecordsSpec
INVARIANTS
  QueuedIsRecorded
  RepeatHasCause
  BackupIsFaithful
PROPERTIES
  ReachesListeners
CHECK_DEADLOCK FALSE
