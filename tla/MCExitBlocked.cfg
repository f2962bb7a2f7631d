SPECIFICATION Spec
CONSTANTS
    p1 = p1
    p2 = p2
    fudkii = fudkii
    Positions = {p1, p2}
    Books = {fudkii}
    BookOf <- MCBookOf
    Qty <- MCQty
    EntryCost <- MCEntryCost
    NTargets <- MCNTargets
    RungLots <- MCRungLots
    Rules = {"SL_OP"}
    StartModes = {"PAPER"}
    SwitchModes = {"SHADOW", "PAPER", "LIVE"}
    Initial = 20
    Invested <- MCInvested
    Charge = 1
    PnLs <- MCPnLs
    MaxTrouble = 1
    MaxInterventions = 0
    MaxRefusals = 1
    MaxMishaps = 0
    BreakerCap = 2
    MaxOpenLive = 2
    MaxOrdersPerDay = 9
    DailyLossPct = 20
    MaxDrawdownPct = 40
INVARIANT
    ExitNeverBlocked
CHECK_DEADLOCK FALSE
