SPECIFICATION FairSpec
CONSTANTS
  c1 = c1
  c2 = c2
  j1 = j1
  j2 = j2
  Clients = {c1, c2}
  j3 = j3
  j4 = j4
  Jobs = {j1, j2, j3, j4}
  NoJob = NoJob
  NoClient = NoClient
  MaxThreads = 2
  InitJobs = 3
  GrowBy = 1
  SizeLimit = 2
  ResizeIfFull = FALSE
  WakeAtHalfEmpty = TRUE
  Ops = {"add", "finish"}
  Excluded = {"add", "finish"}
  MaxSize = 9
PROPERTIES
  EveryJobCompletes
  FinishReturns
