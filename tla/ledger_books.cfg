CONSTANTS
  Pairs = {btc}
  NoPair = NoPair
  MaxSignals = 3
  MaxOrders = 5
  MaxPositions = 3
  MaxTrades = 2
  MaxOpenPositions = 1
  Faults = {"crash", "lookup", "lostReply", "noTradeId"}
SPECIFICATION Spec
INVARIANTS TypeOK FilledEntryHasPosition PositionHasEntry ClosedWhenGone ExitOfOwnTrade ExitOrderClosesOne
PROPERTY OwnTradeFirst
CHECK_DEADLOCK FALSE
