\* An image and another file, one worker: what the user attaches and makes.
SPECIFICATION Spec
CONSTANTS
  n1 = n1
  n2 = n2
  Files = {f1, f2}
  Images = {f1}
  Names = {n1, n2}
  Workers = {w1}
  TagIds = {1, 2, 3}
  FirstTags <- TwoManual
  MaxCommits = 1
  MaxAttempts = 1
  MaxEdits = 2
  MaxFaults = 1
  HandKinds = {"manual", "ai"}
  None = None
CHECK_DEADLOCK FALSE
INVARIANTS HandWorkStays
