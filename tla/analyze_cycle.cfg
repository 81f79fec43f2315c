CONSTANTS
  btc = btc
  eth = eth
  Symbols = {btc, eth}
  Markets <- MCMarkets
  Texts <- MCTexts
  Prefilter = TRUE
  MaxRepairs = 1
  Budget = 3
  Threshold = 2
  MaxFailures = 3
  MinExitProfit = 5
  MinExitLoss = 5
  HardLossCut = 15
SPECIFICATION Spec
INVARIANTS TypeOK SkipChangesNothing TradesAreEarned OnePagePerOutage
CONSTRAINT Alone
CHECK_DEADLOCK FALSE
