CONSTANTS
  Events <- TwoKeys
  BatchSize = 2
  AttemptCap = 1
  FaultKinds = {"crash"}
  MaxFaults = 1
  Threads = {t1}
  NoEvent = NoEvent
  NoKey = NoKey
  MaxAttempts = 1
  MaxRetries = 0
  Resubmits = FALSE
  DebugMode = FALSE
SPECIFICATION FairSpec
PROPERTIES AckedLeavesQueue
