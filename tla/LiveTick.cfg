SPECIFICATION Spec
CONSTANTS
    btc = btc
    eth = eth
    Symbols <- SymbolsVal
    Span <- SpanVal
    FirstClock = 11
    LastClock = 13
    TurnCloses = 1
    MaxAttempts = 2
    Lacking = {"M15"}
    Configs <- DefaultVal
INVARIANTS TypeOK WholeM15Bars HtfIsCurrent BarsInOrder
PROPERTY TickEnds
CHECK_DEADLOCK FALSE
