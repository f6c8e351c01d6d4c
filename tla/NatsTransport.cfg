SPECIFICATION Spec
CONSTANTS
  NPlates = 2
  MaxQueue = 1
  FirstSeq = 0
  Budget <- Faults
INVARIANTS
  PersistedSafe
  QueueBound
  NoStrandedFile
PROPERTIES
  Implements
CHECK_DEADLOCK FALSE
