SPECIFICATION MCSpec
CONSTANTS
  Codes = {1, 2, 3}
  Pinned = {3}
  Leg <- MCLeg
  DepthCap = 3
  MaxWatched = 2
  MaxCuts = 1
  MaxMoves = 2
  Callers = {c1, c2}
  Window = 3
  MinAge = 4
  Day = 8
  Fallback = 5
  Horizon = 11
  MaxTroubles = 1
  None = None
INVARIANTS
    SubscriptionsSurvive
    CodeNotReplayed
PROPERTY
    DepthConverges
CHECK_DEADLOCK FALSE
