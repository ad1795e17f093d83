CONSTANTS
  Boards = {a, b}
  Period = 15
  Width = 1
  MinLead = 4
  Slack = 1
  Err = 1
  MaxPreempt = 1
  MaxWake = 2
  MaxPoll = 2
  None = None
  MaxTime = 48
SPECIFICATION Spec
INVARIANTS
  Agreement
  ReportsNearTick
PROPERTIES
  EveryTickOnce
  NoEdgeLost
