SPECIFICATION MCSpec
CONSTANTS
  Tasks = {t1, t2}
  Refs = {s1}
  Cap = 1
  Nightly = 2
  Keys = {k1, k2}
  MaxHyps = 2
  Frame = 3
  Cooldown <- MCCooldown
  DayCap = 1
  Ttl = 4
  Reeval = 2
  Gate = 1
  Signals <- MCSignals
  Ids = {1, 2}
  Prices = {1, 2, 3, 5, 6}
  MaxTime = 10
  Options = {o1}
  Legs = {e}
  Quotes = {1, 2}
  Secs = 3
  Days = 2
  CandidateTtl = 1
  AfterClose = 1
  FlushEvery = 2
  Keep = 1
  Ticks = {100, 106, 112}
  Levels = {98, 104, 110, 114}
  Slip = 1
  Purse = 300
  Lot = 2
  Arm = 3
  Giveback = 40
  TimeStop = 3
  PerDay = 4
  Warm = 0
  MaxBars = 5
  MaxTroubles = 1
  None = None
SYMMETRY MCSymmetry
INVARIANTS
    SpendIsBounded
    EveryHoldIsReplayable
    RetirementIsAnnounced
    LadderIsTheBacktester
CHECK_DEADLOCK FALSE
