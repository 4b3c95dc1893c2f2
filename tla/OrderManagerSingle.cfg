SPECIFICATION Spec
CONSTANTS
  MaxOrders = 5
  Qty = 2
  Sides <- LongOnly
  Cap = 1
  Timeout = 3
  MarkGuard = TRUE
  Attempts = 1
  Faults <- ApiFaults
INVARIANTS TypeOK ExposureIsAudited ResultsCounted
