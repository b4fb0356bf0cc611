\* A file of joined records is rotated: lost batches, failed saves, a cancellation, a crash.
SPECIFICATION Spec
CONSTANTS
  a = a
  b = b
  Paths = {a}
  MaxGen = 2
  MaxPos = 2
  Shape <- Mixed
  StartAt = "checkpoint"
  Failures = {"fatal", "save"}
  Moves = {"rotate"}
  MaxCrash = 1
  MaxFail = 1
  MaxRounds = 1
  Samples <- MCSamples
  Bad <- Nothing
INVARIANT TypeInv
INVARIANT AckInv
INVARIANT CheckpointHonest
PROPERTY ResumeNeverRegresses
