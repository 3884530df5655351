CONSTANTS
  Events <- TwoKeysChanged
  BatchSize = 2
  AttemptCap = 1
  FaultKinds = {"link", "post", "crash", "stop", "database"}
  MaxFaults = 2
  Threads = {t1, t2}
  NoEvent = NoEvent
  NoKey = NoKey
  MaxAttempts = 1
  MaxRetries = 0
  Resubmits = TRUE
  DebugMode = FALSE
SYMMETRY ThreadSymmetry
SPECIFICATION Spec
INVARIANTS PipelineInv NoEventLost
PROPERTIES KeepsPromise
