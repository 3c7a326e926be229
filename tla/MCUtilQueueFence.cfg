SPECIFICATION FairSpec
CONSTANTS
  Waiters = {w1, w2, w3}
  Workers = {s1, s2}
INVARIANTS SleepersAnnounced
PROPERTIES ImplementsFence WaitReturns
