SPECIFICATION MCSpec
CONSTANTS
  Slots = 2
  Bars = {1}
  Operators = {o1}
  MaxTakes = 1
  MaxBoots = 1
  Rupee = 60
  TickSize = 3
  Atr = 60
  Tolerance = 25
  FutureGaps = {90}
  Spot = 1000
  Atrs = {0, 15}
  Targets = {None, 985, 1030}
  Kinds = {"good", "thin"}
  Expiries = {0, 7}
  SegmentList <- MCSegments
  Contracts <- MCContracts
  Kind <- MCKind
  Segment <- MCSegment
  Strike <- MCStrike
  ExpiresOn <- MCExpiry
  ListedAt <- MCListed
  Close <- MCClose
  FuturesCount = 2
  PerSide = 1
  Band = 20
  MinDays = 2
  KeptFiles = 2
  LastDay = 2
  MaxFailures = 1
  MaxStops = 1
  MaxBuys = 1
  None = None
INVARIANTS
    UniverseIsPriced
    OiSourceSurvivesRoll
    OneEntryPerSignal
    EntriesAreShown
    PlansAreSound
    AgeIsBounded
CHECK_DEADLOCK FALSE
