SPECIFICATION FairSpec
CONSTANTS
  q1 = q1
  q2 = q2
  t1 = t1
  b1 = b1
  Queues = {q1, q2}
  Binaries = {b1}
  Timelines = {t1}
  Host = Host
  Signaller <- ByHost
  StartThreaded = {q2}
  MaxValue = 1
  MaxCalls <- TwoAndOne
  MaxBatches = 1
  Mixed = FALSE
  MaxFailures = 0
  Ops = {"idle", "finish"}
PROPERTIES
  AllSubmitted
  QueueCallsReturn
