\* One image, two commits, two workers, a crash: what the runs say.  The
\* names proposed are of no concern here: there are none.
SPECIFICATION FairSpec
CONSTANTS
  n1 = n1
  n2 = n2
  Files = {f1}
  Images = {f1}
  Names = {}
  Workers = {w1, w2}
  TagIds = {}
  FirstTags <- Nothing
  MaxCommits = 2
  MaxAttempts = 2
  MaxEdits = 0
  MaxFaults = 1
  HandKinds = {"manual"}
  None = None
CHECK_DEADLOCK FALSE
INVARIANTS ReadyShowsHead
PROPERTIES AskedIsAnswered
