\* Two handlers, two requests or a retry, and one drop, sweep, failure or stop.
SPECIFICATION Spec
CONSTANTS
  h1 = h1
  h2 = h2
  s1 = s1
  s2 = s2
  Handlers = {h1, h2}
  Sets = {s1, s2}
  Requests <- SomeRequests
  Before = {s2}
  DefaultRet = 1
  Durable = FALSE
  MaxSets = 1
  IdemMax = 1
  MaxRequest = 2
  MaxBuffered = 4
  MaxSlots = 2
  MaxTry = 2
  MaxEvent = 1
CHECK_DEADLOCK FALSE
SYMMETRY Symmetry
INVARIANT NeverTwice
INVARIANT AnsweredKept
INVARIANT Described
INVARIANT ETagHonest
INVARIANT CleanStop
