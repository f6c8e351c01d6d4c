SPECIFICATION FairSpec
CONSTANTS
  NPlates = 2
  MaxQueue = 1
  FirstSeq = 0
  Budget <- LiveFaults
PROPERTIES
  EventuallyDelivered
CHECK_DEADLOCK FALSE
