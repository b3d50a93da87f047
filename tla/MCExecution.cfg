SPECIFICATION FairSpec
CONSTANTS
  t1 = t1
  c1 = c1
  c2 = c2
  resp = resp
  art = art
  x = x
  y = y
  Tasks = {t1}
  Runs = {c1, c2}
  Artifacts = {resp, art}
  Contents = {x, y}
  NoContent = NoContent
  NoResult = NoResult
  NoDir = NoDir
  NoRun = NoRun
  Contracts <- MCContracts
  Approvals <- MCApprovals
  Processors = {"p"}
  Batches <- MCBatches
  Invocations <- MCInvocations
  Host <- MCHost
  Now = 5
  Leeway = 2
INVARIANTS LaunchedOnce RunHasAuthority OneConfinedRun ManifestCoversOutputs WorkerKeepsToApproval
PROPERTIES ImplementsTaskLife RunsEnd RunningResolves
