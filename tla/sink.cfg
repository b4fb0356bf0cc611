\* Two writers at a cap of two samples, every outcome of a request, one too large.
SPECIFICATION FairSpec
CONSTANTS
  w1 = w1
  w2 = w2
  Writers = {w1, w2}
  Sets = {1, 2}
  Puts <- TwoEach
  SetOf <- Split
  Bytes <- OneLarge
  Bad <- FirstBad
  Unencodable <- FirstUnencodable
  Decls = {"f"}
  BatchSize = 3
  BatchBytes = 8
  MinBatchBytes = 2
  MaxBuffered = 2
  MaxFatalDrops = 2
  MaxRounds = 2
  EnvelopeBytes = 1
  StoreLimit = 4
  Failures = {"auth", "retry", "cancel", "fatal"}
  MaxFail = 1
CHECK_DEADLOCK FALSE
INVARIANT CountersExact
INVARIANT NoneLostNoneTwice
INVARIANT OrderKept
INVARIANT AckCovers
INVARIANT SoftCap
PROPERTY Implements
PROPERTY NoWriterStuck
PROPERTY EventuallyOut
