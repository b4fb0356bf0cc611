\* A batch is lost between queueing a sample and publishing its offset.
SPECIFICATION Spec
CONSTANTS
  a = a
  b = b
  Paths = {a}
  MaxGen = 1
  MaxPos = 2
  Shape <- Plain
  StartAt = "checkpoint"
  Failures = {"fatal"}
  Moves = {}
  MaxCrash = 0
  MaxFail = 1
  MaxRounds = 2
  Samples <- MCSamples
  Bad <- Nothing
INVARIANT FeederFrozen
