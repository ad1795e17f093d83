CONSTANTS
  OffsetQ = 8
  RateToOffset = 4
  MaxInnovation = 4
  alpha = 2
  beta = 32
  N = 3
  MIN_POINTS = 2
  SlopeQ = 16
  NoPoint = NoPoint
  NoTracker = NoTracker
  Gaps <- MCGaps
  Observed <- MCObserved
  Outlier = 20
  Settled = 2
SPECIFICATION TrackerSpec
INVARIANTS
  FilterBounded
  LineSound
PROPERTY
  Settles
