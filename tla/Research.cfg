SPECIFICATION Spec
CONSTANTS
    w1 = w1
    w2 = w2
    Grid <- GridVal
    Workers = {w1, w2}
    Histories <- HistoriesVal
    Bars = 8
    TrainBars = 2
    TestBars = 3
    StepBars = 1
    MinWindows = 3
    Top = 2
    Production = "prod"
    Baselines <- BaselinesVal
    DdTolerance = 120
    OverfitRatio = 60
    Equity = 4
    Scale = 840
SYMMETRY Interchangeable
INVARIANTS CandidatesEarned WindowsAreWhole FlagIsEarned
