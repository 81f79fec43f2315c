CONSTANTS
  Pairs = {btc}
  NoPair = NoPair
  MaxSignals = 1
  MaxOrders = 2
  MaxPositions = 2
  MaxTrades = 1
  MaxOpenPositions = 1
  Faults = {}
SPECIFICATION Spec
INVARIANT OnePositionPerOrder
CHECK_DEADLOCK FALSE
