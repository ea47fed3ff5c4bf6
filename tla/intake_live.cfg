CONSTANTS
  r1 = r1
  r2 = r2
  d1 = d1
  d2 = d2
  None = None
  Requests <- TwoRequests
  Deliveries <- TwoDeliveries
  Genuine <- TwoDeliveries
  Supported <- OneDelivery
  TTL = 2
  MaxFlight = 1
  RateLimit = 1
  Faults = {"lost", "restart", "late"}
SPECIFICATION FairSpec
INVARIANT AckedMeansStarted
PROPERTY EventuallyRun
