SPECIFICATION Spec
CONSTANTS
  c1 = c1
  c2 = c2
  j1 = j1
  j2 = j2
  j3 = j3
  Clients = {c1, c2}
  Jobs = {j1, j2, j3}
  NoJob = NoJob
  NoClient = NoClient
  MaxThreads = 2
  InitJobs = 1
  GrowBy = 1
  SizeLimit = 9
  ResizeIfFull = TRUE
  WakeAtHalfEmpty = FALSE
  Ops = {"add", "wait", "drop", "finish", "kill"}
  Excluded = {"add", "kill", "full"}
  MaxSize = 4
SYMMETRY Symmetry
INVARIANTS
  EachJobOnce
  
  BarriersExclusive
  
PROPERTIES
  Fifo
