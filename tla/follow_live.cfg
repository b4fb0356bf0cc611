\* Every record reaches the store: holds, retries, a cancellation, a crash.
SPECIFICATION FairSpec
CONSTANTS
  a = a
  b = b
  Paths = {a}
  MaxGen = 1
  MaxPos = 2
  Shape <- Windows
  StartAt = "checkpoint"
  Failures = {"hold", "retry"}
  Moves = {}
  MaxCrash = 1
  MaxFail = 1
  MaxRounds = 2
  Samples <- MCSamples
  Bad <- Nothing
PROPERTY EventuallyStored
