SPECIFICATION FairSpec
CONSTANTS
  Clients = {c1, c2}
  Points = {p1, p2}
  MaxValue = 3
  NoClient = NoClient
  NoPoint = NoPoint
INVARIANTS RefsExact StateRefsExact PendingOrdered ResultSound
PROPERTIES HeldPointStable ImplementsTimeline WaitTerminates
