CONSTANTS
  mono = mono
  rgb = rgb
  Serials = {rgb}
  Mono = {}
  FailThreshold = 2
  MaxShift = 1
  FallbackShift = 1
  MayCommand = TRUE
  MayReapply = TRUE
  MayStop = TRUE
SPECIFICATION FairSpec
INVARIANTS StoreFindsEmpty OneWorkerPerCamera NothingOutlives
PROPERTY RetriesUntilConnected
CHECK_DEADLOCK FALSE
