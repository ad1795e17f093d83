CONSTANTS
  WINDOW = 5
  MIN_SAMPLES = 2
  NsPerUs = 4
  MinSpanUs = 2
  SlopeScale = 5
  MaxDrift = 6
  U32_MAX = 1000
  NoSample = NoSample
  None = None
  Sample <- MCSample
  Readings <- MCReadings
  Times <- MCTimes
SPECIFICATION Spec
INVARIANTS
  TypeOK
  AnswersWithinWindow
  InverseConsistent
  ResidualCovers
PROPERTY
  RefinesWindow
