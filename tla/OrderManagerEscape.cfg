SPECIFICATION Spec
CONSTANTS
  MaxOrders = 5
  Qty = 1
  Sides <- LongOnly
  Cap = 2
  Timeout = 2
  MarkGuard = FALSE
  Attempts = 2
  Faults <- CallFaults
INVARIANTS OutcomeIsTrue CapRespected ExitsAreOwn
PROPERTIES Lifecycle CountedOnce
