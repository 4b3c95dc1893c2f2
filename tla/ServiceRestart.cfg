SPECIFICATION FairSpecAll
CONSTANTS
  MaxOrders = 4
  Qty = 1
  Sides <- LongOnly
  Cap = 1
  Timeout = 3
  MarkGuard = TRUE
  Attempts = 1
  Faults <- ErrorsAndDisk
INVARIANTS TypeOKAll ProtectedOnce
PROPERTIES TripStopsEntries EntryDecided
