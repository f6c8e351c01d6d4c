CONSTANTS
  mono = mono
  rgb = rgb
  Serials = {rgb}
  Mono = {}
  FailThreshold = 2
  MaxShift = 2
  FallbackShift = 2
  MayCommand = FALSE
  MayReapply = FALSE
  MayStop = FALSE
SPECIFICATION Spec
INVARIANT AbsentMeansReconnecting
CHECK_DEADLOCK FALSE
