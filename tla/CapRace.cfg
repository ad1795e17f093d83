CONSTANTS
  RawMod = 8
  Contexts = {"driver", "executor"}
  Channels = {}
  TicksPerUs = 3
  InstantBase = 3
  Q = 64
  Cap0 = 1
  Calibration = 6
  None = None
  MaxCapture = 3
  MaxGap = 7
  MaxPollDelay = 2
  MaxTicks = 20
SPECIFICATION Spec
INVARIANT CaptureExact
