CONSTANTS
  Events <- TwoKeysChanged
  BatchSize = 2
  AttemptCap = 1
  FaultKinds = {"link", "post", "crash", "stop"}
  MaxFaults = 2
  Threads = {t1}
  NoEvent = NoEvent
  NoKey = NoKey
  MaxAttempts = 1
  MaxRetries = 0
  Resubmits = FALSE
  DebugMode = FALSE
SPECIFICATION FairSpec
PROPERTIES MeetsPromise CallsInOrder
