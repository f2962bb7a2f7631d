SPECIFICATION LegsSpec
CONSTANTS
  Rupee = 60
  TickSize = 3
  PerWeek = 3
  MinWeekly = 3
  MinVolume = 100
  Tolerance = 200
  Strikes = {1010, 1020}
  PerSide = 2
  Spots = {1005, 1015}
  LadderOf <- MCLadders
  First = 3
  LastDay = 4
  Tries = 1
  Styles <- MCBooks
  Premiums <- MCPremiums
  Hands = {2, 6}
  Shares <- MCShares
  Moves = 1
  None = None
  NoLevels = None
INVARIANT
    PlanIsKept
PROPERTY
    FailedLegsAreAskedAgain
CHECK_DEADLOCK FALSE
