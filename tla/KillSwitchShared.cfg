SPECIFICATION Spec
CONSTANTS
  LossLimit = 2
  DailyLimit = 3
  Results <- WinOrLose
  MaxStreak = 3
  MaxPnl = 3
  Scripts <- AllScripts
INVARIANTS TypeOK LimitsTrip
PROPERTY TripPersists
