SPECIFICATION Spec
CONSTANTS
  NSlots = 2
  Configs <- AllConfigs
  LaunchGrace = 1
  DeadStrikes = 2
  PollBase = 1
  PollMax = 2
  PollCriticalBase = 1
  PollCriticalMax = 1
  EntryBackoffBase = 1
  EntryBackoffMax = 2
  SettleTime = 2
  NeverUpTries = 1
  LaunchTries = 2
  LaunchRetry = 0
  Heartbeat = 2
  MaxWait = 2
  CountMax = 2
  Lateness = 0
INVARIANTS TypeOK CeilingHolds DisarmEarned QueueSound SettledIsStable DoneIsFinal
PROPERTIES TerminalIsFinal UpdateOwnsItsEntry
CHECK_DEADLOCK FALSE
