SPECIFICATION MCSpec
CONSTANTS
  Ids = {1, 2}
  ParentOf <- MCParentOf
  Contract <- MCContract
  Lots = 1
  ArmFor = 0
  MaxTime = 1
  MaxNet = 1
  MaxCalls = 2
  MaxTroubles = 1
  None = None
  DailyLossPct = 30
  MaxDrawdownPct = 60
  Initial = 10
  Outlay = 5
  Results <- MCResults
  MaxDay = 2
  MaxTrades = 3
  MaxResets = 1
  MaxCrashes = 1
  BarLength = 6
  Ttl = 7
  MinBars = 4
  AvgBars = 1
  Multiplier = 4
  Floor = 1
  Volumes = {1, 4}
  MaxDecisions = 3
  MaxSilent = 0
  MaxAgain = 1
INVARIANT
    DailyLossEndsWithItsDay
CHECK_DEADLOCK FALSE
