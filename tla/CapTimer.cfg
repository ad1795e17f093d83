CONSTANTS
  RawMod = 8
  Contexts = {"driver", "executor"}
  Channels = {"ch0"}
  TicksPerUs = 3
  InstantBase = 3
  Q = 64
  Cap0 = 1
  Calibration = 6
  None = None
  MaxCapture = 3
  MaxGap = 7
  MaxPollDelay = 2
  MaxTicks = 18
SPECIFICATION Spec
INVARIANTS
  TypeOK
  CaptureNeverBehind
  EdgeExact
  PredictionClose
PROPERTY
  CaptureAddsElapsed
