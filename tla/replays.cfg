CONSTANTS
  btc = btc
  eth = eth
  NoValue = NoValue
  Symbols <- MCSymbols
  Candles <- MCCandles
  Options <- MCOptions
  FirstOpen = 1000
  StartingEquity = 1000
  Fee = 5
  CandleMinutes = 60
  Suppressed = {"MEAN_REVERSION"}
  MaxCandles = 5
  MinSample = 2
  MinExpectancy = 0
  MinExitProfit = 5
  MinExitLoss = 5
  HardLossCut = 15
  MaxOpenPositions = 2
  MaxTotalExposure = 900
  MaxDailyLoss = 45
  ConsecutiveLossLimit = 1
  ClusterWindow = 1
  Cooldown = 1
  MinConfidence = 700
  MinConfidenceScale = 500
  RiskPerTrade = 10
  MaxPosition = 400
  MinStopLoss = 15
  MaxStopLoss = 80
  DayLength = 2
  Bars <- MCBars
  SyntheticSignals <- MCSyntheticSignals
  SlippageRate = 5
  StaticStopLoss = 80
  MaxBars = 4
  SimMaxPosition = 1000
  SimMaxExposure = 1000
SPECIFICATION ReplaysSpec
INVARIANTS TypesOK AccountMirrored MoneyKept HardLossIsCut ReportAddsUp
PROPERTY ExitsAreReal
CHECK_DEADLOCK FALSE
