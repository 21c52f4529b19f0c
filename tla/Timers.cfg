CONSTANTS
  Capacity = 2
  MaxTimers = 2
  Others = {o1}
  BaseMs = 1
  MaxMs = 3
  JitterMs = 2
  Caps <- CapsOfADaemon
SPECIFICATION FairSpec
INVARIANTS
  TypeOK
  Asleep
  OneSleep
PROPERTIES
  WakesAgain
