CONSTANTS
  Pairs = {btc}
  NoPair = NoPair
  MaxSignals = 2
  MaxOrders = 8
  MaxPositions = 4
  MaxTrades = 2
  MaxOpenPositions = 1
  Faults = {"lookup"}
SPECIFICATION FairSpec
PROPERTIES ClosedTradeBooked SubmittedSettled
CHECK_DEADLOCK FALSE
