CONSTANTS
  Interval = 2
  SeqMod = 3
  None = None
  MaxTime = 7
  MaxPackets = 4
  Base = 3
  SeqLen = 1
  NsLen = 3
  MAGIC <- MCMagic
  Headers <- MCHeaders
  Trailers <- MCTrailers
  MaxInAir = 2
SPECIFICATION BroadcastSpec
INVARIANTS
  NeverEarly
  HeardAsSent
PROPERTY
  NeverBackwards
