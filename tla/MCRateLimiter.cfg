SPECIFICATION FairWatchedSpec
CONSTANTS
  ip1 = ip1
  ip2 = ip2
  l1 = l1
  l2 = l2
  l3 = l3
  r1 = r1
  r2 = r2
  None = None
  IPs <- TwoIPs
  Interval = 2
  Burst = 2
  Cleanup = 4
  Stall = 1
  MaxWindow = 2
  Limiters <- ThreeLimiters
  Requests <- TwoRequests
INVARIANTS
  Inductive
  RateIsKept
PROPERTIES
  ImplementsBucket
  VisitorsAreForgotten
