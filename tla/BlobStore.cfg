SPECIFICATION BlobSpec
CONSTANTS
  c1 = c1  c2 = c2  t1 = t1  t2 = t2  t3 = t3
  NoInode = NoInode  NoContent = NoContent
  Contents = {c1}
  Tasks = {t1, t2, t3}
  Inodes = {1, 2, 3, 4, 5}
  Chunks = 2
  MaxBreaks = 1
  Delete = TRUE
SYMMETRY Symmetry
INVARIANTS
  SettledComplete
  NothingHalf
