SPECIFICATION Spec
CONSTANTS
  q1 = q1
  q2 = q2
  t1 = t1
  b1 = b1
  Queues = {q1, q2}
  Binaries = {b1}
  Timelines = {t1}
  Host = Host
  Signaller <- ByHost
  StartThreaded = {q2}
  MaxValue = 1
  MaxCalls <- TwoEach
  MaxBatches = 2
  Mixed = FALSE
  MaxFailures = 1
  Ops = {"idle", "finish"}
INVARIANTS
  WaitsMatched
  InOrder
  ResetWhenUnused
  DrainedIsSubmitted
  DriverSubmitExclusive
