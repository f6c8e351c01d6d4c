CONSTANTS
  a = a
  a2 = a2
  b = b
  Texts = {a, a2, b}
  NoText = NoText
  Similar = {{a, a2}}
  TrackGap = 1
  PassGap = 1
  PruneAfter = 5
  Cooldown = 1
  MinSightings = 2
  RecedingSightings = 3
  ConfirmAgreeing = 2
  ConfirmSightings = 4
  MaxSamples = 4
  DirectionEnable = TRUE
  HoldSightings = 2
  SendCooldown = 5
  Gaps = {1, 5}
  OtherGaps = {5}
  MaxReads = 2
  MaxPasses = 2
SYMMETRY Alike
SPECIFICATION Spec
INVARIANTS FinalIsEarned HoldIsOfThisPass LastSentIsStored
PROPERTIES FinalStays RowKeepsDirection CorrectionChangesRow HeldLostOnlyByGap
