CONSTANTS
  Symbols = {btc, eth}
  Replicas = {r1, r2}
  MaxCandles = 1
  MaxSignals = 2
  MaxMessages = 2
  BatchSize = 1
  Faults = {"schedulerCrash"}
SPECIFICATION FairSpec
PROPERTIES PublishedDecided LockReleased
CHECK_DEADLOCK FALSE
