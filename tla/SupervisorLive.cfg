SPECIFICATION HFairSpec
CONSTANTS
  NSlots = 2
  Configs <- FairConfigs
  LaunchGrace = 1
  DeadStrikes = 2
  PollBase = 1
  PollMax = 1
  PollCriticalBase = 1
  PollCriticalMax = 1
  EntryBackoffBase = 1
  EntryBackoffMax = 2
  SettleTime = 1
  NeverUpTries = 1
  LaunchTries = 2
  LaunchRetry = 0
  Heartbeat = 1
  MaxWait = 1
  CountMax = 3
  Lateness = 0
PROPERTIES SequenceEnds DeathIsAnswered GrantsAreSpaced
CHECK_DEADLOCK FALSE
