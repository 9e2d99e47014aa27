SPECIFICATION Spec
CONSTANTS
  f1 = f1  f2 = f2  w1 = w1  w2 = w2  w3 = w3
  c1 = c1  c2 = c2  c3 = c3  c4 = c4
  None = None  NoContent = NoContent
  Files = {f1, f2}
  Contents = {c1, c2}
  Writers = {w1}
  MaxCommits = 5
  Interval = 3
  MaxCrashes = 0
  Ops = {"create", "commit", "raw", "rollback", "rename", "purge"}
  Recurring = TRUE
  Overlap = FALSE
SYMMETRY Symmetry
INVARIANTS
  Restorable
  ChainsCut
  NoLeak
CHECK_DEADLOCK FALSE
