SPECIFICATION FairSpec
CONSTANTS
  NPlates = 1
  MaxQueue = 1
  FirstSeq = 0
  Budget <- OnlyStop
PROPERTIES
  StopReturns
CHECK_DEADLOCK FALSE
