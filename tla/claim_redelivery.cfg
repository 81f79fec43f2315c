CONSTANTS
  Symbols = {btc}
  Replicas = {r1}
  MaxCandles = 1
  MaxSignals = 1
  MaxMessages = 1
  BatchSize = 1
  Faults = {"exception"}
SPECIFICATION FairSpec
PROPERTY AtLeastOnce
CHECK_DEADLOCK FALSE
