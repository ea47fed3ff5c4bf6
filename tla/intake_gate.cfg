CONSTANTS
  r1 = r1
  r2 = r2
  d1 = d1
  d2 = d2
  None = None
  Requests <- TwoRequests
  Deliveries <- TwoDeliveries
  Genuine <- OneDelivery
  Supported <- TwoDeliveries
  TTL = 3
  MaxFlight = 2
  RateLimit = 2
  Faults = {"timeout", "duplicate", "restart", "lost", "unexpected"}
SPECIFICATION Spec
SYMMETRY RequestSymmetry
INVARIANTS
  TypeOK
  ExclusiveTrigger
PROPERTIES
  LeasePromise
  OnlyFailureFrees
