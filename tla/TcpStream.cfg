CONSTANTS
  Capacity = 2
  MaxStreams = 2
  MaxSockets = 2
  RxCap = 2
  TxCap = 2
  Traffic <- Cases
SPECIFICATION FairSpec
INVARIANTS
  TypeOK
  RequestsTracked
  NothingMislaid
PROPERTIES
  Duplex
  Listens
CHECK_DEADLOCK FALSE
