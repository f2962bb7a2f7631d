SPECIFICATION Spec
CONSTANTS
    fudkii = fudkii
    rtx = rtx
    abc = abc
    xyz = xyz
    t1 = t1
    t2 = t2
    t3 = t3
    s1 = s1
    s2 = s2
    Tasks <- MCTasks
    Books <- MCBooks
    Symbols = {abc, xyz}
    Ids = {s1, s2}
    BookOf <- MCBookOf
    SymbolOf <- MCSymbolOf
    IdOf <- MCIdOf
    Twins <- MCTwins
    Initial = 10
    Outlays = {5}
    Slips = {1}
    Charge = 1
    PnLs = {2}
    PositionPct = 60
    MaxPerBook = 2
    MaxPerUnderlying = 1
    MaxUnderlyingPct = 60
    MaxMishaps = 1
    MaxInterventions = 1
    StartModes = {"PAPER", "LIVE_CAPPED"}
    BreakerCap = 1
    MaxOpenLive = 1
    MaxOrdersPerDay = 2
    DailyLossPct = 20
    MaxDrawdownPct = 40
INVARIANTS
    DeployedIsAccountedFor
    NoDoubleSpend
    OnePositionPerOrder
    OrderRowFirst
PROPERTY
    HoldsSettle
CHECK_DEADLOCK FALSE
