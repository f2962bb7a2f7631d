SPECIFICATION DailySpec
CONSTANTS
  Count = 2
  Batch = 2
  Watched = {1}
  MinBars = 1
  PerWeek = 2
  First = 1
  Final = 2
  Filed = {}
  Unfiled = {1}
  Stops = 1
  Nothing = Nothing
INVARIANT
    LevelsAreTheBrokers
PROPERTY
    Heals
CHECK_DEADLOCK FALSE
