CONSTANTS
  Symbols = {btc}
  Replicas = {r1, r2}
  MaxCandles = 3
  MaxSignals = 2
  MaxMessages = 2
  BatchSize = 2
  Faults = {"schedulerCrash", "consumerCrash", "exception", "slow", "resent"}
SPECIFICATION Spec
INVARIANTS TypeOK AckedIsDecided
PROPERTY CandleOnceSpec
SYMMETRY Symmetry
CHECK_DEADLOCK FALSE
