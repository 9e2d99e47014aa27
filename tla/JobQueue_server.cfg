SPECIFICATION Spec
CONSTANTS
  j1 = j1  j2 = j2  j3 = j3  s1 = s1  s2 = s2  d1 = d1
  server = server  cli = cli  preview = preview  tag = tag  key = key
  NoKey = NoKey  NoJob = NoJob
  Jobs <- OneKeyJobs
  Kinds = {preview, tag}
  Keys = {key}
  Row <- OneKeyRow
  Workers <- ServerWorkers
  Procs = {server}
  Servers = {server}
  ProcOf <- ServerOnly
  Leads = {s1}
  Handles <- BothKinds
  MaxAttempts = 2
  Backoff <- OneBackoff
  Lease = 1
  Retention = 1
  Horizon = 1
  MaxCrashes = 1
  MaxStalls = 1
  MaxStoreErrors = 1
INVARIANTS
  ReportsTrue
  AttemptsBounded
PROPERTIES
  ImplementsPromise
