------------------------------- MODULE Backtest -------------------------------
(***************************************************************************)
(* scripts/backtest: history is replayed candle by candle.  At each close  *)
(* the ledger first applies, for every symbol, the exits Freqtrade makes   *)
(* on its own (ledger.py mirrors ExternalSignalStrategy); then each symbol *)
(* is decided in turn, by the rubric alone (mechanical_replay.py) or by    *)
(* the answer of the LLM service (replay.py), and the risk engine's own    *)
(* rules run against the ledger's account.  A decision is filled at the    *)
(* open of the next candle.                                                *)
(*                                                                         *)
(* Time counts candles, prices and amounts are whole numbers, percentages  *)
(* permille, each rounded down.                                            *)
(***************************************************************************)
EXTENDS MarketRubric, Performance, Sequences, SequencesExt

CONSTANTS
    Symbols,              \* the symbols in the order they are processed
    Candles,              \* [symbol -> candle]: what may close together, relative to the open
    Options,              \* the command lines: records of three flags
    FirstOpen,            \* the open of the first candle
    StartingEquity, Fee,  \* the fee and the slippage of one leg
    CandleMinutes,
    Suppressed,           \* --suppress-buy-regimes
    MaxCandles,           \* bound: candles
    MaxOpenPositions, MaxTotalExposure, MaxDailyLoss, ConsecutiveLossLimit,
    ClusterWindow, Cooldown, MinConfidence, MinConfidenceScale, RiskPerTrade,
    MaxPosition, MinStopLoss, MaxStopLoss, DayLength

Pairs == Range(Symbols)

ASSUME BacktestAssumption ==
    /\ Symbols \in Seq(Pairs) /\ IsInjective(Symbols)
    /\ {FirstOpen, StartingEquity, MinStopLoss, DayLength} \subseteq Nat \ {0}
    /\ {MaxCandles, CandleMinutes, MaxOpenPositions, Cooldown, MinConfidence,
        MinConfidenceScale, RiskPerTrade, MaxPosition, MaxTotalExposure, MaxDailyLoss,
        ConsecutiveLossLimit, ClusterWindow} \subseteq Nat
    /\ Fee \in 0 .. 1000 /\ MaxStopLoss \in MinStopLoss .. 1000
    /\ Options \subseteq [llm : BOOLEAN, ignoreSwitch : BOOLEAN, compounding : BOOLEAN]
    /\ \A group \in Candles : \A s \in Pairs :
          /\ group[s] \in [high : Nat, low : Nat, close : Nat, gap : Nat, shape : MarketType]
          /\ group[s].low <= Min({1000, group[s].close})
          /\ group[s].high >= Max({1000, group[s].close})

\* NULL is no value of a column.
ASSUME NullAssumption == NoValue \notin Int \cup Regimes \cup Volatilities \cup Buckets

VARIABLES
    options,  \* the command line
    clock,    \* candles closed
    stage,    \* what is being done at this close, and how many symbols had their turn
    candle,   \* [symbol -> the candle that closed, with the open of the next]
    ledger,   \* the Ledger
    journal   \* the dimensions of the open positions and of the closed trades

vars == <<options, clock, stage, candle, ledger, journal>>

NoDims == [regime |-> NoValue, volatility |-> NoValue, score |-> NoValue]

Init ==
    /\ options \in Options
    /\ clock = 0
    /\ stage = [name |-> "next", turn |-> 0]
    /\ candle = [s \in Pairs |-> [open |-> FirstOpen, high |-> FirstOpen, low |-> FirstOpen,
                                  close |-> FirstOpen, next |-> FirstOpen, shape |-> NoValue]]
    /\ ledger = [positions |-> <<>>, trades |-> <<>>, streak |-> 0, tripped |-> FALSE,
                 realized |-> 0, lastClosed |-> [s \in Pairs |-> -Cooldown]]
    /\ journal = [entry |-> <<>>, trade |-> <<>>]

\* --- the ledger ----------------------------------------------------------
Open == DOMAIN ledger.positions
Equity == StartingEquity + (IF options.compounding THEN ledger.realized ELSE 0)
Exposure == MapThenSumSet(LAMBDA s : ledger.positions[s].stake, Open)

FreeBalance == Max({Equity - Exposure, 0})

DailyPnl ==
    MapThenSumSet(LAMBDA i : ledger.trades[i].result,
                  {i \in DOMAIN ledger.trades :
                      ledger.trades[i].closed \div DayLength = clock \div DayLength})

\* account_state: what evaluate() is given in place of load_account_state.
LedgerAccount ==
    [equity |-> Equity, free |-> FreeBalance, symbols |-> Open, exposure |-> Exposure,
     daily |-> DailyPnl, losses |-> ledger.streak, lastClosed |-> ledger.lastClosed]

\* The same trades as rows of the positions table.
Rows ==
    LET closed == [i \in DOMAIN ledger.trades |->
                     [pair |-> ledger.trades[i].pair, stake |-> 0, risk |-> 0,
                      opened |-> ledger.trades[i].opened, closed |-> ledger.trades[i].closed,
                      result |-> ledger.trades[i].result, known |-> TRUE, status |-> "booked"]]
        open == [s \in Open |->
                     [pair |-> s, stake |-> ledger.positions[s].stake, risk |-> 0,
                      opened |-> ledger.positions[s].opened, closed |-> 0,
                      result |-> 0, known |-> FALSE, status |-> "open"]]
    IN  closed \o SetToSeq(Range(open))

\* The rules and the account state of the risk engine, over these rows.
Engine == INSTANCE RiskRules
    WITH positions <- Rows, now <- clock, resetAt <- 0,
         switch <- IF ledger.tripped /\ ~options.ignoreSwitch THEN "operator" ELSE "off",
         Capital <- StartingEquity, Signals <- {}, Outcomes <- {}, Drifts <- {0},
         MaxPositions <- 0, MaxTime <- 0, OperatorAt <- {}

Without(f, s) == [x \in DOMAIN f \ {s} |-> f[x]]
With(f, s, v) == [x \in DOMAIN f \cup {s} |-> IF x = s THEN v ELSE f[x]]

\* What comes back, less what was staked: both legs pay the fee.
Pnl(p, price) == (p.stake * price * (1000 - Fee)) \div (p.entry * (1000 + Fee)) - p.stake

\* Mutant: a loss of the static exits is not counted.
NextStreak_SignalsOnly(pnl, reason) ==
    IF pnl < 0 THEN (IF reason = "llm_sell_signal" THEN ledger.streak + 1 ELSE ledger.streak) ELSE 0

NextStreak(pnl, reason) == IF pnl < 0 THEN ledger.streak + 1 ELSE 0

\* Mutant: the dimensions of an entry are carried by the first exit only.
Carried_Stays(s, opened) ==
    [entry |-> journal.entry,
     trade |-> With(journal.trade, <<s, opened>>,
                    IF s \in DOMAIN journal.entry THEN journal.entry[s] ELSE NoDims)]

\* _carry_entry_dims; replay.py keeps no dimensions.
Carried(s, opened) ==
    [entry |-> Without(journal.entry, s),
     trade |-> With(journal.trade, <<s, opened>>,
                    IF s \in DOMAIN journal.entry THEN journal.entry[s] ELSE NoDims)]

\* The position as the high of this candle leaves it.
Seen(p, k) == [p EXCEPT !.peak = Max({@, k.high})]

RecordClose(s, price, reason) ==
    LET p == Seen(ledger.positions[s], candle[s])
        pnl == Pnl(p, price)
    IN  /\ ledger' = [ledger EXCEPT
              !.positions = Without(@, s),
              !.trades = Append(@, [pair |-> s, opened |-> p.opened, closed |-> clock,
                                    entry |-> p.entry, exit |-> price, result |-> pnl,
                                    r |-> IF p.risk > 0 THEN (1000 * 1000 * pnl) \div p.risk
                                                        ELSE NoValue,
                                    reason |-> reason]),
              !.realized = @ + pnl,
              !.lastClosed[s] = clock,
              !.streak = NextStreak(pnl, reason)]
        /\ journal' = IF options.llm THEN journal ELSE Carried(s, p.opened)

\* --- Freqtrade's own exits: check_static_exit ----------------------------
\* MINIMAL_ROI: the return that is enough after so many minutes.
RoiMarks == {0, 240, 720, 1440, 2880, 5760}
Roi(mark) == CASE mark = 0 -> 60 [] mark = 240 -> 30 [] mark = 720 -> 20
               [] mark = 1440 -> 15 [] mark = 2880 -> 10 [] mark = 5760 -> 5
RoiAfter(minutes) == Roi(Max({mark \in RoiMarks : mark <= minutes}))

StaticStop(p) == Max({p.stop, (p.entry * 920) \div 1000})
TrailingStop(p) == (p.peak * 985) \div 1000
Trails(p) == (p.peak - p.entry) * 1000 >= 20 * p.entry
TrailingHolds(p) == Trails(p) /\ TrailingStop(p) > StaticStop(p)

StopPrice(p) == IF TrailingHolds(p) THEN TrailingStop(p) ELSE StaticStop(p)
RoiPrice(p) == (p.entry * (1000 + RoiAfter((clock - p.opened) * CandleMinutes))) \div 1000

\* Mutant: a stop is filled at the stop, wherever the candle opened.
StopFill_AtStop(p, k) == StopPrice(p)

\* A candle that opens beyond the price is filled at its open.
StopFill(p, k) == Min({k.open, StopPrice(p)})
RoiFill(p, k) == Max({k.open, RoiPrice(p)})

Turn(name) == stage.name = name /\ stage.turn < Len(Symbols)
Current == Symbols[stage.turn + 1]
NextTurn == stage' = [stage EXCEPT !.turn = @ + 1]

StopExit ==
    /\ Turn("exits")
    /\ Current \in Open
    /\ LET p == Seen(ledger.positions[Current], candle[Current])
       IN  /\ candle[Current].low <= StopPrice(p)
           /\ RecordClose(Current, StopFill(p, candle[Current]),
                          IF TrailingHolds(p) THEN "trailing_stop" ELSE "atr_stoploss")
    /\ NextTurn
    /\ UNCHANGED <<options, clock, candle>>

RoiExit ==
    /\ Turn("exits")
    /\ Current \in Open
    /\ LET p == Seen(ledger.positions[Current], candle[Current])
       IN  /\ candle[Current].low > StopPrice(p)
           /\ candle[Current].high >= RoiPrice(p)
           /\ RecordClose(Current, RoiFill(p, candle[Current]), "minimal_roi")
    /\ NextTurn
    /\ UNCHANGED <<options, clock, candle>>

StaysOpen ==
    /\ Turn("exits")
    /\ Current \in Open
    /\ LET p == Seen(ledger.positions[Current], candle[Current])
       IN  /\ candle[Current].low > StopPrice(p)
           /\ candle[Current].high < RoiPrice(p)
           /\ ledger' = [ledger EXCEPT !.positions[Current] = p]
    /\ NextTurn
    /\ UNCHANGED <<options, clock, candle, journal>>

NotHeld ==
    /\ Turn("exits")
    /\ Current \notin Open
    /\ NextTurn
    /\ UNCHANGED <<options, clock, candle, ledger, journal>>

\* --- the decisions -------------------------------------------------------
\* AnalyzeRequest for the candle that closed: the result of the position is
\* always known here.
Market(s) ==
    LET held == s \in Open
        p == ledger.positions[s]
        pnl == ((candle[s].close - p.entry) * 1000) \div p.entry
    IN  [candle[s].shape EXCEPT
            !.price = candle[s].close, !.open = held, !.known = held,
            !.pnl = IF held THEN pnl ELSE 0]

\* mechanical_decision: the natural action, gated by the rubric.
MechanicalDecision(m) ==
    LET stub == [action |-> IF m.open THEN "SELL" ELSE "BUY", confidence |-> 990]
        action == Normalised(m, stub).action
    IN  IF action = "BUY" /\ Regime(m) \in Suppressed THEN "HOLD" ELSE action

\* call_analyze: whatever the service makes of the model's answer, or HOLD when
\* it cannot be reached.
AnalyzeAnswers(m) ==
    {HOLD(0)} \cup {Normalised(m, [action |-> a, confidence |-> 700]) : a \in Actions}

Decisions(m) ==
    IF options.llm THEN AnalyzeAnswers(m)
    ELSE {[action |-> MechanicalDecision(m), confidence |-> 990]}

SignalView(s, m, answer) ==
    [pair |-> s, action |-> answer.action, confidence |-> answer.confidence,
     stop |-> AtrRatio(m, 2), stale |-> FALSE, duplicate |-> FALSE]

\* Mutant: the entry is stamped with the open of the candle decided on.
NewPosition_Earlier(sig, m) ==
    LET size == Engine!Size(sig, LedgerAccount)
        distance == Engine!StopDistance(sig)
        fill == candle[sig.pair].next
    IN  [opened |-> clock - 1, entry |-> fill, stake |-> size, peak |-> fill,
         stop |-> (m.price * (1000 - distance)) \div 1000, risk |-> size * distance]

\* apply_entry: filled at the next open, though the stop is measured from the
\* close.
NewPosition(sig, m) ==
    LET size == Engine!Size(sig, LedgerAccount)
        distance == Engine!StopDistance(sig)
        fill == candle[sig.pair].next
    IN  [opened |-> clock, entry |-> fill, stake |-> size, peak |-> fill,
         stop |-> (m.price * (1000 - distance)) \div 1000, risk |-> size * distance]

Dims(m) == [regime |-> Regime(m), volatility |-> Volatility(m), score |-> TradeScore(m)]

Enter(s, m, sig) ==
    /\ Engine!Verdict(sig, LedgerAccount) = "APPROVED"
    /\ ledger' = [ledger EXCEPT !.positions = With(@, s, NewPosition(sig, m))]
    /\ journal' = IF options.llm THEN journal
                  ELSE [journal EXCEPT !.entry = With(@, s, Dims(m))]

\* A trip is remembered; ignoring the switch also forgets the streak.
Refuse(sig) ==
    /\ Engine!Verdict(sig, LedgerAccount) # "APPROVED"
    /\ LET trips == Engine!Verdict(sig, LedgerAccount) \in Engine!Trips
       IN  ledger' = [ledger EXCEPT !.tripped = @ \/ trips,
                                    !.streak = IF trips /\ options.ignoreSwitch THEN 0 ELSE @]
    /\ UNCHANGED journal

\* Mutant: the kill switch holds exits back too.
ExitApproved_Switch(sig) == Engine!ApprovedExit(sig) /\ ~ledger.tripped

\* evaluate_exit looks neither at the switch nor at the confidence.
ExitApproved(sig) == Engine!ApprovedExit(sig)

DecideEntry ==
    /\ Turn("decisions")
    /\ Current \notin Open
    /\ LET m == Market(Current)
       IN  \E answer \in Decisions(m) :
             /\ answer.action = "BUY"
             /\ LET sig == SignalView(Current, m, answer)
                IN  Enter(Current, m, sig) \/ Refuse(sig)
    /\ NextTurn
    /\ UNCHANGED <<options, clock, candle>>

DecideExit ==
    /\ Turn("decisions")
    /\ Current \in Open
    /\ LET m == Market(Current)
       IN  \E answer \in Decisions(m) :
             /\ answer.action = "SELL"
             /\ ExitApproved(SignalView(Current, m, answer))
             /\ RecordClose(Current, candle[Current].next, "llm_sell_signal")
    /\ NextTurn
    /\ UNCHANGED <<options, clock, candle>>

DecideNothing ==
    /\ Turn("decisions")
    /\ LET m == Market(Current)
       IN  \E answer \in Decisions(m) :
             \/ answer.action = "HOLD"
             \/ answer.action = "BUY" /\ Current \in Open
             \/ answer.action = "SELL" /\ ~(Current \in Open /\ ExitApproved(SignalView(Current, m, answer)))
    /\ NextTurn
    /\ UNCHANGED <<options, clock, candle, ledger, journal>>

\* --- the run -------------------------------------------------------------
\* So many permille of a price; a price is never less than one unit.
PriceAt(price, rate) == Max({1, (price * rate) \div 1000})

\* The next candle of every symbol, and where the one after it opens.
NextCandles ==
    /\ stage.name = "next"
    /\ clock < MaxCandles
    /\ clock' = clock + 1
    /\ \E k \in Candles :
         candle' = [s \in Pairs |->
            LET open == candle[s].next
                close == PriceAt(open, k[s].close)
            IN  [open |-> open, close |-> close, high |-> PriceAt(open, k[s].high),
                 low |-> PriceAt(open, k[s].low), next |-> PriceAt(close, k[s].gap),
                 shape |-> k[s].shape]]
    /\ stage' = [name |-> "exits", turn |-> 0]
    /\ UNCHANGED <<options, ledger, journal>>

ExitsDone ==
    /\ stage = [name |-> "exits", turn |-> Len(Symbols)]
    /\ stage' = [name |-> "decisions", turn |-> 0]
    /\ UNCHANGED <<options, clock, candle, ledger, journal>>

DecisionsDone ==
    /\ stage = [name |-> "decisions", turn |-> Len(Symbols)]
    /\ stage' = [name |-> "next", turn |-> 0]
    /\ UNCHANGED <<options, clock, candle, ledger, journal>>

Next ==
    \/ NextCandles
    \/ StopExit \/ RoiExit \/ StaysOpen \/ NotHeld \/ ExitsDone
    \/ DecideEntry \/ DecideExit \/ DecideNothing \/ DecisionsDone

Spec == Init /\ [][Next]_vars

-----------------------------------------------------------------------------
(* Properties. *)

Dimensions == {"regime", "volatility", "score"}
Reasons == {"atr_stoploss", "trailing_stop", "minimal_roi", "llm_sell_signal"}

Position == [opened : 1 .. MaxCandles, entry : Nat, stake : Nat, peak : Nat, stop : Nat, risk : Nat]
Trade == [pair : Pairs, opened : 1 .. MaxCandles, closed : 1 .. MaxCandles, entry : Nat,
          exit : Nat, result : Int, r : Int \cup {NoValue}, reason : Reasons]

\* The types of the ledger; it never holds more positions than allowed, never
\* closes a position in the candle that opened it, and the running total is
\* the sum of the trades.
TypeOK ==
    /\ options \in Options
    /\ clock \in 0 .. MaxCandles
    /\ stage \in [name : {"next", "exits", "decisions"}, turn : 0 .. Len(Symbols)]
    /\ Open \subseteq Pairs /\ Cardinality(Open) <= MaxOpenPositions
    /\ \A s \in Open : ledger.positions[s] \in Position
    /\ ledger.trades \in Seq(Trade)
    /\ \A t \in Range(ledger.trades) : t.opened < t.closed
    /\ ledger.realized = TotalPnl(ledger.trades, DOMAIN ledger.trades)
    /\ ledger.streak \in 0 .. Len(ledger.trades)

\* The ledger keeps running totals where production queries the positions table:
\* over the same trades both give the same account state, and the streak is at
\* least as long, since the ledger counts each loss and not each cluster of
\* losses (ledger.py "In-memory mirror of load_account_state").
AccountMirrored ==
    LET mirror == LedgerAccount
    IN  /\ mirror.symbols = Engine!OpenSymbols
        /\ mirror.exposure = Engine!TotalExposure
        /\ mirror.daily = Engine!DailyPnl
        /\ \A s \in Pairs : mirror.lastClosed[s] = Engine!LastClosed(s)
        /\ ~options.ignoreSwitch =>
              mirror.losses >= Engine!LossEvents(Engine!TimesOf(Engine!Certain))

\* A compounding account never stakes money it has lost (free_balance_usdt).
CashCovered == options.compounding => Equity >= Exposure

\* An exit Freqtrade makes is filled at a price the candle traded at; a stop
\* fills below 92% of the entry, and a trailing stop below the entry, only when
\* the candle opened there (check_static_exit).
ExitsAreReal ==
    [][ Len(ledger'.trades) > Len(ledger.trades) /\ stage.name = "exits" =>
          LET t == ledger'.trades[Len(ledger'.trades)]
              k == candle[t.pair]
          IN  /\ t.exit \in k.low .. k.high
              /\ t.exit < (t.entry * 920) \div 1000 => t.exit = k.open
              /\ t.reason = "trailing_stop" /\ t.exit < t.entry => t.exit = k.open
              /\ t.reason = "minimal_roi" => t.exit >= t.entry ]_vars

\* Decided by the rubric alone, no position outlives a candle that closes beyond
\* the hard loss cut, whether or not the switch is tripped
\* (mechanical_decision, evaluate_exit).
HardLossIsCut ==
    stage.name = "next" /\ ~options.llm =>
        \A s \in Open : ledger.positions[s].opened < clock =>
            ((candle[s].close - ledger.positions[s].entry) * 1000) \div ledger.positions[s].entry
                > -HardLossCut

\* The trades as print_summary hands them to the performance engine.
Metrics ==
    [i \in DOMAIN ledger.trades |->
        LET t == ledger.trades[i]
            key == <<t.pair, t.opened>>
            dims == IF key \in DOMAIN journal.trade THEN journal.trade[key] ELSE NoDims
        IN  [result |-> t.result, r |-> t.r, closed |-> t.closed, regime |-> dims.regime,
             volatility |-> dims.volatility, score |-> dims.score]]

Keys == {<<t.pair, t.opened>> : t \in Range(ledger.trades)}
Parts(dimension) == Breakdown(Metrics, dimension, StartingEquity)
Total(field, parts) == SumOf([key \in DOMAIN parts |-> parts[key][field]])

Whole == Summarize(Metrics, DOMAIN Metrics, StartingEquity)

\* Every trade is under a key of its own, and has its dimensions there.
DimensionsCarried ==
    /\ DOMAIN journal.entry = Open /\ DOMAIN journal.trade = Keys
    /\ Cardinality(Keys) = Whole.trades

\* Every trade falls in one cohort of each dimension, none in a catch-all.
CohortsAddUp ==
    \A d \in Dimensions :
        /\ NoValue \notin DOMAIN Parts(d)
        /\ Total("trades", Parts(d)) = Whole.trades
        /\ Total("pnl", Parts(d)) = ledger.realized

OutcomesAddUp ==
    /\ Whole.wins + Whole.losses + Whole.breakeven = Whole.trades
    /\ Whole.expectancyR.sum = Whole.avgWinR.sum + Whole.avgLossR.sum

DrawdownBounded ==
    Whole.trades > 0 => Whole.avgDrawdown.sum <= Whole.avgDrawdown.count * Whole.maxDrawdown

\* What the expectancy filter reads for the setup of a trade; a setup is refused
\* only where a trade of its regime fell short.
Setups == {<<Metrics[i].regime, ScoreBucket(Metrics[i].score)>> : i \in DOMAIN Metrics}
View(setup) == ExpectancyView(Metrics, setup[1], Min(setup[2]))

SetupsAddUp ==
    /\ SumOf([u \in Setups |-> View(u).count]) = Whole.expectancyR.count
    /\ SumOf([u \in Setups |-> View(u).sum]) = Whole.expectancyR.sum
    /\ \A u \in Setups : ExpectancyDecision(View(u)) = "NEGATIVE_EXPECTANCY" =>
          \E i \in DOMAIN Metrics :
             Metrics[i].regime = u[1] /\ Metrics[i].r # NoValue /\ Metrics[i].r < MinExpectancy

\* The report of a mechanical run: every trade carries the dimensions of its own
\* entry and falls in one cohort of each dimension, none in a catch-all; the
\* cohorts and the setups of the expectancy filter add up to the whole, the wins
\* and losses to the expectancy, no drawdown is deeper than the deepest, and a
\* setup is refused only where a trade of its regime fell short
\* (_carry_entry_dims, summarize_breakdowns, load_expectancy_state).
ReportAddsUp ==
    stage.name = "next" /\ ~options.llm =>
        /\ DimensionsCarried
        /\ CohortsAddUp
        /\ OutcomesAddUp
        /\ DrawdownBounded
        /\ SetupsAddUp
=============================================================================
