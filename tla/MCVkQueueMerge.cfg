SPECIFICATION Spec
CONSTANTS
  q1 = q1
  q2 = q2
  t1 = t1
  b1 = b1
  Queues = {q1, q2}
  Binaries = {b1}
  Timelines = {t1}
  Host = Host
  Signaller <- ByHost
  StartThreaded = {}
  MaxValue = 1
  MaxCalls <- FourEach
  MaxBatches = 2
  Mixed = TRUE
  MaxFailures = 0
  Ops = {}
INVARIANTS
  ResetWhenUnused
