SPECIFICATION DailySpec
CONSTANTS
  Count = 2
  Batch = 1
  Watched = {1}
  MinBars = 1
  PerWeek = 2
  First = 1
  Final = 2
  Filed = {}
  Unfiled = {2}
  Stops = 1
  Nothing = Nothing
PROPERTY MarkedNamesAreAsked
CHECK_DEADLOCK FALSE
