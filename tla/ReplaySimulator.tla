---------------------------- MODULE ReplaySimulator ----------------------------
(***************************************************************************)
(* tools/historical_replay: synthetic signals against given candles.  Each *)
(* candle, in the order of open time and symbol, first executes the order  *)
(* that waits for its symbol, then Freqtrade's safety exits, then hands    *)
(* its signal to the risk engine's own rules, which may leave an order for *)
(* the symbol's next candle; at last the equity is recorded.               *)
(*                                                                         *)
(* The candle that closes at the instant n opens at n - 1.  Prices and     *)
(* amounts are whole numbers, rates permille, each rounded down.           *)
(***************************************************************************)
EXTENDS Integers, Sequences, FiniteSets, FiniteSetsExt, SequencesExt

CONSTANTS
    Symbols,              \* the symbols in the order of their names
    Bars,                 \* [symbol -> bar]: what may close together, relative to the last close
    Signals,              \* the signals a candle may have
    FirstPrice, StartingEquity,
    FeeRate, SlippageRate, StaticStopLoss,
    CandleMinutes,
    MaxCandles,           \* bound: candles of each symbol
    MaxOpenPositions, MaxTotalExposure, MaxDailyLoss, ConsecutiveLossLimit,
    ClusterWindow, Cooldown, MinConfidence, MinConfidenceScale, RiskPerTrade,
    MaxPosition, MinStopLoss, MaxStopLoss, DayLength

Pairs == Range(Symbols)

\* What the constants have to be; an instance assumes it of its own.
SimulatorConstants ==
    /\ Symbols \in Seq(Pairs) /\ IsInjective(Symbols)
    /\ FeeRate \in 0 .. 999 /\ SlippageRate \in 0 .. 999 /\ StaticStopLoss \in 1 .. 999
    /\ {FirstPrice, StartingEquity, MinStopLoss, DayLength} \subseteq Nat \ {0}
    /\ {MaxCandles, CandleMinutes, MaxOpenPositions, Cooldown, MinConfidence,
        MinConfidenceScale, RiskPerTrade, MaxPosition, MaxTotalExposure, MaxDailyLoss,
        ConsecutiveLossLimit, ClusterWindow} \subseteq Nat
    /\ MaxStopLoss \in MinStopLoss .. 1000
    /\ \A group \in Bars : \A s \in Pairs :
          group[s] \in [open : Nat, high : Nat, low : Nat, close : Nat]
    /\ Signals \subseteq [action : {"BUY", "SELL", "HOLD"}, confidence : 0 .. 1000, stop : Nat]

VARIABLES
    clock,       \* the candles under way close at this instant
    turn,        \* symbols whose candle has been processed
    filled,      \* whether the current one's order and exits have been
    bars,        \* [symbol -> the candle under way]
    cash,
    positions,
    pending,     \* the order of a symbol that waits for its next candle
    trades,
    lastPrices,  \* last_prices, where a symbol has one
    switch,      \* killswitch_enabled
    worst        \* the equity curve: its peak and its deepest drawdown

vars == <<clock, turn, filled, bars, cash, positions, pending, trades, lastPrices, switch, worst>>

Init ==
    /\ clock = 0
    /\ turn = Len(Symbols)
    /\ filled = FALSE
    /\ bars = [s \in Pairs |-> [open |-> FirstPrice, high |-> FirstPrice,
                                low |-> FirstPrice, close |-> FirstPrice]]
    /\ cash = StartingEquity
    /\ positions = <<>>
    /\ pending = <<>>
    /\ trades = <<>>
    /\ lastPrices = <<>>
    /\ switch = FALSE
    /\ worst = [peak |-> 0, drawdown |-> 0]

Without(f, s) == [x \in DOMAIN f \ {s} |-> f[x]]
With(f, s, v) == [x \in DOMAIN f \cup {s} |-> IF x = s THEN v ELSE f[x]]

\* --- money ---------------------------------------------------------------
FeeOf(amount) == (amount * FeeRate) \div 1000
Cost(p) == p.stake + p.fee
Gross(p, price) == (p.stake * price) \div p.entry
Proceeds(p, price) == Gross(p, price) - FeeOf(Gross(p, price))
Slipped(price) == (price * (1000 - SlippageRate)) \div 1000

\* _equity: what was last seen of a symbol may be its previous close.
Equity ==
    cash + MapThenSumSet(LAMBDA s :
        Proceeds(positions[s], IF s \in DOMAIN lastPrices THEN lastPrices[s] ELSE positions[s].entry),
        DOMAIN positions)

\* --- the account ----------------------------------------------------------
Entries == {s \in DOMAIN pending : pending[s].side = "BUY"}

Reserved == MapThenSumSet(LAMBDA s : pending[s].stake + FeeOf(pending[s].stake), Entries)

\* The losses since the last trade that was none, the latest close first; of
\* closes at one instant the one recorded first comes first.
Latest == SortSeq([i \in DOMAIN trades |-> i], LAMBDA i, j :
            trades[i].closed > trades[j].closed \/ (trades[i].closed = trades[j].closed /\ i < j))
Streak ==
    LET ends == {n \in DOMAIN Latest : trades[Latest[n]].net >= 0}
    IN  IF ends = {} THEN Len(trades) ELSE Min(ends) - 1

Free == Max({cash - Reserved, 0})

LastClosed(s) == Max({-Cooldown} \cup {t.closed : t \in {u \in Range(trades) : u.symbol = s}})

Account ==
    [equity |-> Equity,
     free |-> Free,
     symbols |-> DOMAIN positions \cup Entries,
     exposure |-> MapThenSumSet(LAMBDA s : positions[s].stake, DOMAIN positions)
                    + MapThenSumSet(LAMBDA s : pending[s].stake, Entries),
     daily |-> FoldLeft(LAMBDA sum, t :
                  IF t.closed \div DayLength = clock \div DayLength THEN sum + t.net ELSE sum, 0, trades),
     losses |-> Streak,
     lastClosed |-> [s \in Pairs |-> LastClosed(s)]]

\* The rules of the risk engine; they read the table only through the account,
\* but for the exit rules, which read the symbols of the open positions.
Engine == INSTANCE RiskRules
    WITH positions <- SetToSeq({[pair |-> s, status |-> "open"] : s \in DOMAIN positions \cup Entries}),
         now <- clock, resetAt <- 0, switch <- IF switch THEN "operator" ELSE "off",
         Capital <- StartingEquity, Signals <- {}, Outcomes <- {}, Drifts <- {0},
         MaxPositions <- 0, MaxTime <- 0, OperatorAt <- {}

\* --- one candle ------------------------------------------------------------
\* A step of a candle maps the books to the books: the record of what it may
\* change.
Books == [cash |-> cash, positions |-> positions, trades |-> trades]

ClosePosition(b, s, at, price, reason) ==
    LET p == b.positions[s]
    IN  [cash |-> b.cash + Proceeds(p, price),
         positions |-> Without(b.positions, s),
         trades |-> Append(b.trades, [symbol |-> s, opened |-> p.opened, closed |-> at,
                                      net |-> Proceeds(p, price) - Cost(p), reason |-> reason])]

\* Mutant: the fee of the entry is forgotten.
EntryCost_NoFee(order) == order.stake

EntryCost(order) == order.stake + FeeOf(order.stake)

\* _execute_pending, at the open.  An entry that cannot be paid is dropped.
ExecuteBuy(b, s, order, k) ==
    IF EntryCost(order) > b.cash \/ s \in DOMAIN b.positions THEN b
    ELSE [b EXCEPT
            !.cash = @ - EntryCost(order),
            !.positions = With(@, s,
                [opened |-> clock - 1, stake |-> order.stake, fee |-> FeeOf(order.stake),
                 entry |-> (k.open * (1000 + SlippageRate)) \div 1000])]

ExecutePending(b, s, k) ==
    CASE s \notin DOMAIN pending -> b
      [] s \in Entries -> ExecuteBuy(b, s, pending[s], k)
      [] OTHER -> IF s \in DOMAIN b.positions
                  THEN ClosePosition(b, s, clock - 1, Slipped(k.open), "signal_exit")
                  ELSE b

StopPrice(p) == (p.entry * (1000 - StaticStopLoss)) \div 1000

\* _roi_target.
RoiTarget(minutes) ==
    CASE minutes < 60 -> 100
      [] minutes \in 60 .. 119 -> 50
      [] minutes \in 120 .. 239 -> 20
      [] minutes >= 240 -> 0

\* _net_return_at_price, and _price_for_net_return, its inverse.
Returns(p, price, target) == Proceeds(p, price) * 1000 >= Cost(p) * (1000 + target)
PriceForReturn(p, target) ==
    (Cost(p) * (1000 + target) * p.entry) \div (p.stake * (1000 - FeeRate)) + 1

\* The loss is assumed to come first; it is filled at the stop even when the
\* candle opened below it.
SafetyExits(b, s, k) ==
    IF s \notin DOMAIN b.positions THEN b
    ELSE LET p == b.positions[s]
             target == RoiTarget((clock - p.opened) * CandleMinutes)
             fill == PriceForReturn(p, target)
             trigger == (fill * 1000) \div (1000 - SlippageRate)
         IN  CASE k.low <= StopPrice(p) ->
                    ClosePosition(b, s, clock, Slipped(StopPrice(p)), "stop_loss")
               [] k.low > StopPrice(p) /\ Returns(p, Slipped(k.open), target) ->
                    ClosePosition(b, s, clock - 1, Slipped(k.open), "roi")
               [] k.low > StopPrice(p) /\ ~Returns(p, Slipped(k.open), target) ->
                    IF k.high >= trigger THEN ClosePosition(b, s, clock, fill, "roi") ELSE b

Current == Symbols[turn + 1]

FillCandle ==
    /\ turn < Len(Symbols)
    /\ ~filled
    /\ LET b == SafetyExits(ExecutePending(Books, Current, bars[Current]), Current, bars[Current])
       IN  /\ cash' = b.cash
           /\ positions' = b.positions
           /\ trades' = b.trades
    /\ pending' = Without(pending, Current)
    /\ lastPrices' = With(lastPrices, Current, bars[Current].close)
    /\ filled' = TRUE
    /\ UNCHANGED <<clock, turn, bars, switch, worst>>

\* _record_equity, and maximum_drawdown over the curve so far.
RecordEquity ==
    LET peak == Max({worst.peak, Equity})
        depth == IF peak > 0 THEN ((peak - Equity) * 1000) \div peak ELSE 0
    IN  worst' = [peak |-> peak, drawdown |-> Max({worst.drawdown, depth})]

CandleDone ==
    /\ turn < Len(Symbols)
    /\ filled
    /\ turn' = turn + 1
    /\ filled' = FALSE
    /\ RecordEquity
    /\ UNCHANGED <<clock, bars, cash, positions, trades, lastPrices>>

\* The order of a symbol is gone before its signal is read: no signal is ever a
\* duplicate.
Viewed(sig) ==
    [pair |-> Current, action |-> sig.action, confidence |-> sig.confidence, stop |-> sig.stop,
     stale |-> FALSE, duplicate |-> Current \in DOMAIN pending]

NoSignal == CandleDone /\ UNCHANGED <<pending, switch>>

ExitSignal(sig) ==
    /\ sig.action = "SELL"
    /\ CandleDone
    /\ pending' = IF Engine!ApprovedExit(Viewed(sig))
                  THEN With(pending, Current, [side |-> "SELL", stake |-> 0])
                  ELSE pending
    /\ UNCHANGED switch

EntrySignal(sig) ==
    /\ sig.action # "SELL"
    /\ CandleDone
    /\ LET verdict == Engine!Verdict(Viewed(sig), Account)
       IN  /\ pending' = IF verdict = "APPROVED"
                         THEN With(pending, Current,
                                   [side |-> "BUY", stake |-> Engine!Size(Viewed(sig), Account)])
                         ELSE pending
           /\ switch' = (switch \/ verdict \in Engine!Trips)

\* So many permille of a price; a price is never less than one unit.
PriceAt(price, rate) == Max({1, (price * rate) \div 1000})

NextBars ==
    /\ turn = Len(Symbols)
    /\ clock < MaxCandles
    /\ clock' = clock + 1
    /\ turn' = 0
    /\ \E group \in Bars :
         bars' = [s \in Pairs |->
            LET at(part) == PriceAt(bars[s].close, group[s][part])
            IN  [open |-> at("open"), high |-> at("high"), low |-> at("low"), close |-> at("close")]]
    /\ UNCHANGED <<filled, cash, positions, pending, trades, lastPrices, switch, worst>>

Next ==
    \/ NextBars
    \/ FillCandle
    \/ NoSignal
    \/ \E sig \in Signals : ExitSignal(sig) \/ EntrySignal(sig)

Spec == Init /\ [][Next]_vars

-----------------------------------------------------------------------------
(* Properties. *)

\* Types; a symbol has no order left once its candle was filled, unless that
\* candle's own signal left one.
TypeOK ==
    /\ clock \in 0 .. MaxCandles /\ turn \in 0 .. Len(Symbols) /\ filled \in BOOLEAN
    /\ cash \in Nat
    /\ DOMAIN positions \subseteq Pairs /\ Cardinality(DOMAIN positions) <= MaxOpenPositions
    /\ \A s \in DOMAIN positions : positions[s].stake \in Nat /\ positions[s].opened < clock
    /\ \A s \in DOMAIN pending : pending[s].side \in {"BUY", "SELL"} /\ pending[s].stake \in Nat
    /\ \A t \in Range(trades) : t.opened <= t.closed /\ t.closed <= clock
    /\ filled => Current \notin DOMAIN pending
    /\ worst.drawdown \in 0 .. 1000

\* No money appears or is lost: what is in hand and what the open positions cost
\* is the starting equity and the net result of the trades (_execute_pending,
\* _close_position).
BooksBalance ==
    cash + MapThenSumSet(LAMBDA s : Cost(positions[s]), DOMAIN positions)
        = StartingEquity + FoldLeft(LAMBDA sum, t : sum + t.net, 0, trades)

\* The entries that wait were sized one after the other, each to what the others
\* left free: when they cannot all be paid, it is for the fee of one of them, which
\* sizing does not set aside; that one may be dropped at its open
\* (_account_state, _execute_pending).
OnlyAFeeIsShort ==
    Reserved > cash =>
        \E s \in Entries : Reserved - FeeOf(pending[s].stake) <= cash
=============================================================================
