CONSTANTS
  Capacity = 2
  MaxStreams = 2
  MaxSockets = 2
  RxCap = 2
  TxCap = 2
  Traffic <- Cases
SPECIFICATION Spec
INVARIANTS
  NoJunk
CHECK_DEADLOCK FALSE
