CONSTANTS
  r1 = r1
  r2 = r2
  d1 = d1
  d2 = d2
  None = None
  Requests <- TwoRequests
  Deliveries <- OneDelivery
  Genuine <- OneDelivery
  Supported <- OneDelivery
  TTL = 2
  MaxFlight = 1
  RateLimit = 2
  Faults = {"unexpected"}
SPECIFICATION Spec
INVARIANT AckedMeansStarted
