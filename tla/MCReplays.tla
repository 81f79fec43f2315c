------------------------------ MODULE MCReplays ------------------------------
(* The two offline tools on a small instance: a session replays history      *)
(* through the backtest's ledger or synthetic signals through the simulator. *)
EXTENDS Backtest

CONSTANTS btc, eth, Bars, SyntheticSignals, SlippageRate, StaticStopLoss, MaxBars,
          SimMaxPosition, SimMaxExposure    \* the simulator may stake the whole account

VARIABLES tool, simClock, turn, filled, bars, cash, positions, pending, trades, lastPrices,
          switch, worst

simVars == <<simClock, turn, filled, bars, cash, positions, pending, trades, lastPrices,
             switch, worst>>

Sim == INSTANCE ReplaySimulator
    WITH clock <- simClock, Signals <- SyntheticSignals, FirstPrice <- FirstOpen, FeeRate <- Fee,
         MaxCandles <- MaxBars, MaxPosition <- SimMaxPosition, MaxTotalExposure <- SimMaxExposure

ASSUME SimulatorAssumption == Sim!SimulatorConstants

ReplaysInit == tool \in {"backtest", "simulator"} /\ Init /\ Sim!Init
ReplaysNext ==
    \/ tool = "backtest" /\ Next /\ UNCHANGED <<tool, simVars>>
    \/ tool = "simulator" /\ Sim!Next /\ UNCHANGED <<tool, vars>>
ReplaysSpec == ReplaysInit /\ [][ReplaysNext]_<<tool, vars, simVars>>

(* Type correctness of whichever tool runs. *)
TypesOK == TypeOK /\ Sim!TypeOK

(* No account spends what it does not have: the compounding ledger never     *)
(* stakes money it has lost; the simulator's cash, positions and trades add  *)
(* up to what it started with, and its waiting entries fit the cash but for  *)
(* one's fee (free_balance_usdt, _account_state, _execute_pending).          *)
MoneyKept == CashCovered /\ Sim!BooksBalance /\ Sim!OnlyAFeeIsShort

MCSymbols == <<btc, eth>>

Bull == [price |-> 0, ema50 |-> 900, ema200 |-> 890, hist |-> 4, atr |-> 20, rsi |-> 50,
         swing |-> "up", move |-> 1, busy |-> TRUE, open |-> FALSE, known |-> FALSE, pnl |-> 0]
Calm == [Bull EXCEPT !.busy = FALSE, !.atr = 45, !.hist = 0]
Bear == [Bull EXCEPT !.hist = -4, !.rsi = 40, !.swing = "down", !.move = -1]
Bar(high, low, close, gap, shape) ==
    [high |-> high, low |-> low, close |-> close, gap |-> gap, shape |-> shape]

Both(b, e) == [s \in {btc, eth} |-> IF s = btc THEN b ELSE e]

MCCandles ==
    {Both(Bar(1010, 990, 1005, 1000, Bull), Bar(1008, 995, 1005, 1000, Bull)),
     Both(Bar(1010, 990, 1005, 900, Bull), Bar(1000, 950, 970, 990, Bear)),
     Both(Bar(1005, 999, 1003, 1065, Calm), Bar(1010, 995, 1005, 1000, Bull)),
     Both(Bar(1005, 985, 992, 1000, Bull), Bar(1000, 950, 970, 1000, Bear)),
     Both(Bar(1000, 970, 976, 1000, Bear), Bar(1000, 960, 970, 1000, Bear)),
     Both(Bar(1024, 1000, 1022, 990, Calm), Bar(1010, 995, 1005, 1000, Bull))}

MCOptions == {[llm |-> FALSE, ignoreSwitch |-> FALSE, compounding |-> FALSE],
              [llm |-> FALSE, ignoreSwitch |-> TRUE, compounding |-> TRUE],
              [llm |-> TRUE, ignoreSwitch |-> FALSE, compounding |-> TRUE]}

SimBar(open, high, low, close) == [open |-> open, high |-> high, low |-> low, close |-> close]

MCBars ==
    {Both(SimBar(1000, 1010, 990, 1005), SimBar(1000, 1010, 990, 1005)),
     Both(SimBar(1000, 1160, 1000, 1110), SimBar(1000, 1060, 990, 1055)),
     Both(SimBar(1000, 1005, 910, 915), SimBar(1000, 1000, 960, 970)),
     Both(SimBar(900, 930, 890, 920), SimBar(1060, 1070, 1050, 1065))}

MCSyntheticSignals ==
    {[action |-> "BUY", confidence |-> 1000, stop |-> 20],
     [action |-> "BUY", confidence |-> 600, stop |-> 20],
     [action |-> "HOLD", confidence |-> 1000, stop |-> 20],
     [action |-> "SELL", confidence |-> 500, stop |-> 20]}
=============================================================================
