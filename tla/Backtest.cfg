SPECIFICATION Spec
CONSTANTS
    Prices <- MCPrices
    Setups <- MCSetups
    N = 4
    Lots = 5
    TpLots <- MCTpLots
    Slip = 1
    Comm = 0
    MaxLosses = 2
    LimitBars = 2
    FillModels <- MCModels
INVARIANTS TypeOK StreakIsTrue SignalIsResolved ReasonTellsResult StreakBounded
PROPERTIES BreakerIsFinal CycleSpec
CHECK_DEADLOCK FALSE
