CONSTANTS
  a = a
  a2 = a2
  b = b
  Texts = {a, a2, b}
  NoText = NoText
  Similar = {{a, a2}}
  TrackGap = 1
  PassGap = 1
  PruneAfter = 5
  Cooldown = 2
  MinSightings = 2
  RecedingSightings = 0
  ConfirmAgreeing = 2
  ConfirmSightings = 3
  MaxSamples = 4
  DirectionEnable = TRUE
  HoldSightings = 0
  SendCooldown = 5
  Gaps = {1}
  OtherGaps = {1}
  MaxReads = 1
  MaxPasses = 2
SPECIFICATION Spec
PROPERTY ShortPassUnknown
