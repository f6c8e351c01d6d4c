CONSTANTS
  mono = mono
  rgb = rgb
  Serials = {rgb, mono}
  Mono = {mono}
  FailThreshold = 2
  MaxShift = 1
  FallbackShift = 1
  MayCommand = FALSE
  MayReapply = FALSE
  MayStop = FALSE
SPECIFICATION Spec
INVARIANTS PointerSafety
CHECK_DEADLOCK FALSE
