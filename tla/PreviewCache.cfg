\* One file, two commits, two processes with different formats.
SPECIFICATION FairSpec
CONSTANTS
  server = server
  cli = cli
  jpg = jpg
  webp = webp
  Files = {f1}
  Workers = {server, cli}
  Clients = {r1}
  MaxCommits = 3
  Watched = {2}
  Exts = {jpg, webp}
  Format <- TwoFormats
  MaxAttempts = 2
  MaxFaults = 1
  None = None
CHECK_DEADLOCK FALSE
INVARIANTS PreviewOfItsCommit NoOrphan
PROPERTIES Heals
