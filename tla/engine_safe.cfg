\* Two clients, two sets, a failed write, a restart or crash, every profile.
SPECIFICATION Spec
CONSTANTS
  c1 = c1
  c2 = c2
  s1 = s1
  s2 = s2
  k1 = k1
  k2 = k2
  Clients = {c1, c2}
  Sets = {s1, s2}
  Keys = {k1, k2}
  Batches <- Pairs
  Old = {k1}
  Profiles = {"batch", "stream", "paranoid"}
  MaxId = 2
  MaxFail = 1
  MaxCrash = 1
SYMMETRY Alike
CHECK_DEADLOCK FALSE
INVARIANT NoOrphans
INVARIANT AckedReadable
INVARIANT ScanExact
PROPERTY KeepsContract
