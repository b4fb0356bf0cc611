\* Files renamed, removed and rewritten under the follower, with windows open and failed saves.
SPECIFICATION Spec
CONSTANTS
  a = a
  b = b
  Paths = {a}
  MaxGen = 2
  MaxPos = 2
  Shape <- Windows
  StartAt = "checkpoint"
  Failures = {"save"}
  Moves = {"fragment", "rotate", "remove", "rewrite"}
  MaxCrash = 0
  MaxFail = 1
  MaxRounds = 1
  Samples <- MCSamples
  Bad <- Nothing
CHECK_DEADLOCK FALSE
INVARIANT DrainComplete
INVARIANT CheckpointHonest
