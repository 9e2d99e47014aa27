SPECIFICATION FairSpec
CONSTANTS
  j1 = j1  j2 = j2  j3 = j3  s1 = s1  s2 = s2  d1 = d1
  server = server  cli = cli  preview = preview  tag = tag  key = key
  NoKey = NoKey  NoJob = NoJob
  Jobs <- MixedJobs
  Kinds = {preview, tag}
  Keys = {key}
  Row <- MixedRow
  Workers <- MixedWorkers
  Procs = {server, cli}
  Servers = {server}
  ProcOf <- Mixed
  Leads <- MixedWorkers
  Handles <- DrainPreviews
  MaxAttempts = 2
  Backoff <- OneBackoff
  Lease = 1
  Retention = 1
  Horizon = 1
  MaxCrashes = 1
  MaxStalls = 0
  MaxStoreErrors = 1
PROPERTIES
  DrainEnds
  EveryJobSettles
  KeepsPromise
