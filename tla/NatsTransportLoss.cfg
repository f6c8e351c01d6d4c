SPECIFICATION Spec
CONSTANTS
  NPlates = 1
  MaxQueue = 1
  FirstSeq = 0
  Budget <- OnlyCore
INVARIANTS
  GuaranteedDelivery
CHECK_DEADLOCK FALSE
