SPECIFICATION SpecAll
CONSTANTS
  MaxOrders = 3
  Qty = 1
  Sides <- LongOnly
  Cap = 1
  Timeout = 2
  MarkGuard = FALSE
  Attempts = 1
  Faults <- NoFaults
PROPERTY NakedPositionIsDrift
