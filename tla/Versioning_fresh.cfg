SPECIFICATION Spec
CONSTANTS
  f1 = f1  f2 = f2  w1 = w1  w2 = w2  w3 = w3
  c1 = c1  c2 = c2  c3 = c3  c4 = c4
  None = None  NoContent = NoContent
  Files = {f1}
  Contents = {c1, c2, c3}
  Writers = {w1, w2}
  MaxCommits = 3
  Interval = 3
  MaxCrashes = 1
  Ops = {"create", "commit", "raw", "read", "rename", "purge"}
  Recurring = FALSE
  Overlap = TRUE
SYMMETRY Symmetry
INVARIANTS
  TypeOK
  Restorable
  ReadersFindBlobs
PROPERTIES
  HeadAdvances
CHECK_DEADLOCK FALSE
