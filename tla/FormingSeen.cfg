SPECIFICATION Spec
CONSTANTS
    btc = btc
    eth = eth
    Symbols <- SymbolsVal
    Span <- SpanVal
    FirstClock = 11
    LastClock = 13
    TurnCloses = 1
    MaxAttempts = 2
    Lacking = {}
    Configs <- DefaultVal
INVARIANT FormingNeverSeen
CHECK_DEADLOCK FALSE
