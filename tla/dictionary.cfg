\* Two writers, two labels, two shards, a sweep, a failed engine write and a crash.
SPECIFICATION Spec
CONSTANTS
  w1 = w1
  w2 = w2
  l1 = l1
  l2 = l2
  a = a
  b = b
  s1 = s1
  s2 = s2
  Writers = {w1, w2}
  Labels = {l1, l2}
  Values = {a, b}
  Shards = {s1, s2}
  MaxKeys = 2
  MaxCard = 2
  Old <- Packed
  MaxPos = 3
  MaxWrite = 3
  MaxFail = 1
  MaxCrash = 1
SYMMETRY Alike
CHECK_DEADLOCK FALSE
INVARIANT RowResolves
INVARIANT RestartResolves
INVARIANT LookupExact
