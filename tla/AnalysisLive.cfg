SPECIFICATION Spec
CONSTANTS
    Span <- SpanVal
    Lookback <- LookbackVal
    SwingLookback = 1
    ObBreakout = 15
    FvgMinGap = 3
    LiqVoidGap = 20
    InefficiencyGap = 50
    EqualTolerance = 10
    DetectorAtr = 3
    ZoneAnchor = "BODY"
    FirstWeekday = 6
    SundayOpenHour = 3
    MonthDays = 2
    YearDays = 365
    AtrPeriod = 3
    AtrWindow = 4
    UseEma = FALSE
    EmaPeriod = 2
    MaxZoneAge = 1
    KindQuality <- QualityVal
    StatusFactor <- StatusVal
    OteLow = 618
    OteHigh = 786
    ClusterTolerance = 20
    Weights <- WeightsVal
    MinScore = 400
    SlBandBuffer = 250
    SlAbsBuffer = 20
    SlMinAtr = 5
    TpMultiples <- TpVal
    MinFactors = 2
    MinRr = 150
    MaxLosses = 5
    MaxDrawdown = 10
    AssetClass = "crypto"
    FundingBuffer = 30
    M15Minutes = 360
    RegimeFilter = TRUE
    RegimeThreshold = 80
    TickSize = 100
    LotSize = 1
    RiskDollar = 20
    MinNotional = 5
    Leverage = 10
    Live = TRUE
    Ahead = 0
    Histories <- HistoriesVal
    Moves <- MovesVal
    MaxSteps = 3
    Accounts <- AccountsVal
    Margin = 1000
INVARIANTS CacheTransparent SetupSound RiskWithinTick FirstOpensConfirmThemselves
PROPERTIES BreaksAreFinal SwingSweepsAreFinal ImbalanceGoneOnlyByAtr PoisOnlyAge
CHECK_DEADLOCK FALSE
