CONSTANTS
  mono = mono
  rgb = rgb
  Serials = {rgb}
  Mono = {}
  FailThreshold = 2
  MaxShift = 2
  FallbackShift = 2
  MayCommand = FALSE
  MayReapply = FALSE
  MayStop = TRUE
SPECIFICATION Spec
INVARIANT JoinsOnlyFinished
CHECK_DEADLOCK FALSE
