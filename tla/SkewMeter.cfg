CONSTANTS
  Kinds <- MCKinds
  TxErrors <- MCTxErrors
  RxErrors <- MCRxErrors
  Period = 12
  match_window = 4
  limit_us = 0
  NsPerUs = 2
  Recent = 2
  Percent = 60
  None = None
  MaxTick = 3
  MaxQueued = 1
SPECIFICATION Spec
INVARIANTS
  DeltasTrue
  HistoryBounded
  VerdictTrue
  StatisticsTrue
PROPERTY
  ReceptionPaired
CHECK_DEADLOCK FALSE
