\* Two files share one sink, one with an open window: every kind of failure, spec
\* reloads, a directory that cannot be read once.
SPECIFICATION Spec
CONSTANTS
  a = a
  b = b
  Paths = {a, b}
  MaxGen = 1
  MaxPos = 1
  Shape <- Beside
  StartAt = "checkpoint"
  Failures = {"hold", "retry", "fatal"}
  Moves = {"blip", "reload"}
  MaxCrash = 0
  MaxFail = 1
  MaxRounds = 2
  Samples <- MCSamples
  Bad <- Nothing
INVARIANT AckedIsStored
