\* Every book, a two-rung ladder and three lots; two trades on the tape.
SPECIFICATION MCSpec
CONSTANTS
    Policies <- MCPolicies
    Entry = 100
    Lots = 3
    Stop = 85
    Rungs <- MCRungs
    Shares <- MCShares
    FloorPct = 9
    PeakFloorPct = 50
    ArmPct = 3
    GiveBackPct = 40
    Threshold = 104
    Views <- MCViews
    MaxRestarts = 1
    Step <- MCStep
    DecisionTf = "30m"
    SweepTf = "1m"
    DaySpan = 3
    Close = 2
    Horizon = 4
    MaxTrades = 2
    MaxCuts = 1
    MaxBars = 4
    Prices = {1, 2}
    None = None
INVARIANTS
    Unstranded
    StaircaseHolds
    SustainIsContinuous
    ForcedOut
    DecidesOnTheExchangesBar
    VolumeIsCountedOnce
CHECK_DEADLOCK FALSE
