CONSTANTS
  mono = mono
  rgb = rgb
  Serials = {rgb}
  Mono = {}
  FailThreshold = 2
  MaxShift = 2
  FallbackShift = 2
  MayCommand = FALSE
  MayReapply = TRUE
  MayStop = FALSE
SPECIFICATION Spec
INVARIANT PointerSafety
CHECK_DEADLOCK FALSE
