CONSTANTS
  btc = btc
  eth = eth
  Pairs = {btc, eth}
  Signals <- MCSignals
  Outcomes <- MCOutcomes
  Drifts <- MCDrifts
  Capital = 100
  MaxOpenPositions = 2
  MaxTotalExposure = 900
  MaxDailyLoss = 45
  ConsecutiveLossLimit = 2
  ClusterWindow = 1
  Cooldown = 1
  MinConfidence = 700
  MinConfidenceScale = 500
  RiskPerTrade = 10
  MaxPosition = 400
  MinStopLoss = 20
  MaxStopLoss = 80
  DayLength = 2
  MaxPositions = 4
  MaxTime = 3
  OperatorAt = {2}
SPECIFICATION Spec
INVARIANTS TypeOK CooldownKept DayLossBounded
PROPERTIES StreakHalts EntryWithinBounds
SYMMETRY Symmetry
CHECK_DEADLOCK FALSE
