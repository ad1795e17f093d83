CONSTANTS
  WINDOW = 2
  MIN_SAMPLES = 2
  NsPerUs = 2
  MinSpanUs = 3
  SlopeScale = 5
  MaxDrift = 6
  U32_MAX = 1000
  NoSample = NoSample
  None = None
  ap1 = ap1
  ap2 = ap2
  AP = {ap1, ap2}
  Network = {ap1}
  ApBase <- MCApBase
  OwnBase <- MCOneClock
  StampBase = 5
  InstantBase = 3
  ExtraBase = 2
  ExtraPerUs = 3
  Epoch = 4
  RawMod = 1
  CHANNEL_DEPTH = 1
  EmaDivisor = 2
  InstantAlpha = 2
  InstantBeta = 4
  ExtraAlpha = 2
  ExtraBeta = 4
  OffsetQ = 8
  RateToOffset = 8
  MaxInnovation = 2
  HookAtInstall = FALSE
  HookMidway = TRUE
  Queries = {"extra_filtered"}
  MaxLatency = 0
  MaxDelay = 1
  MaxAge = 0
  MaxTime = 2
  MaxFrames = 4
SPECIFICATION Spec
INVARIANTS
  FilteredAnswersTrue

