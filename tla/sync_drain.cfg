CONSTANTS
  Events <- TwoKeys
  BatchSize = 1
  AttemptCap = 1
  FaultKinds = {"link", "post"}
  MaxFaults = 3
  Threads = {t1}
  NoEvent = NoEvent
  NoKey = NoKey
  MaxAttempts = 6
  MaxRetries = 1
  Resubmits = FALSE
  DebugMode = TRUE
SPECIFICATION FairSpec
PROPERTIES QueueDrains OfflineEnds OverdueResolved
