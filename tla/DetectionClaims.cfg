\* Four claims that do not hold; TLC stops at the first, so check them one at a time.
CONSTANTS
  a = a
  a2 = a2
  b = b
  Texts = {a, a2, b}
  NoText = NoText
  Similar = {{a, a2}}
  TrackGap = 1
  PassGap = 1
  PruneAfter = 5
  Cooldown = 1
  MinSightings = 2
  RecedingSightings = 0
  ConfirmAgreeing = 2
  ConfirmSightings = 3
  MaxSamples = 3
  DirectionEnable = TRUE
  HoldSightings = 2
  SendCooldown = 5
  Gaps = {1, 5}
  OtherGaps = {5}
  MaxReads = 1
  MaxPasses = 2
SPECIFICATION Spec
INVARIANTS NeverLost SettledIsStored
PROPERTIES CorrectionHasRow TextChangeIsSent
