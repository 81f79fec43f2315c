----------------------------- MODULE MarketRubric -----------------------------
(***************************************************************************)
(* The deterministic half of the LLM service: the facts read off a closed  *)
(* candle, the regime and the trade score, what an answer of the model may *)
(* become, and the pre-filter that predicts it.                            *)
(*                                                                         *)
(* A market is the latest candle with its indicators and the position of   *)
(* the pair.  Prices are whole numbers, ratios in permille, the RSI in     *)
(* points; the MACD line is above its signal exactly when the histogram,   *)
(* their difference, is positive.                                          *)
(***************************************************************************)
EXTENDS Integers, FiniteSets, FiniteSetsExt

CONSTANTS
    MinExitProfit, MinExitLoss,   \* the cushion around the entry price
    HardLossCut                   \* the loss that needs no confirmation

ASSUME RubricAssumption ==
    /\ MinExitProfit \in Nat
    /\ MinExitLoss \in Nat
    /\ HardLossCut \in Nat

\* AnalyzeRequest: "swing" is how the last three candles step, "move" how the
\* latest close moved, "known" whether the result of the position is.
MarketType ==
    [price : Nat, ema50 : Nat, ema200 : Nat, hist : Int, atr : Nat, rsi : 0 .. 100,
     swing : {"up", "down", "mixed"}, move : {-1, 0, 1}, busy : BOOLEAN,
     open : BOOLEAN, known : BOOLEAN, pnl : Int]

Actions == {"BUY", "SELL", "HOLD"}
HOLD(confidence) == [action |-> "HOLD", confidence |-> confidence]

Ratio(n, d) == IF d = 0 THEN 0 ELSE (1000 * n) \div d
Magnitude(n) == Max({n, -n})
Clamp(v, low, high) == Max({low, Min({v, high})})

\* n / d to the nearest integer, ties to the even one, for d > 0.
Rounded(n, d) ==
    LET q == n \div d
        r == n % d
    IN  IF 2 * r < d \/ (2 * r = d /\ q % 2 = 0) THEN q ELSE q + 1

\* --- ContextBuilder ------------------------------------------------------
AboveBoth(m) == m.price > m.ema50 /\ m.price > m.ema200
BelowBoth(m) == m.price < m.ema50 /\ m.price < m.ema200
Uptrend(m) == m.ema50 > m.ema200
EmaGap(m) == Ratio(Magnitude(m.ema50 - m.ema200), m.ema200)
GapIsUp(m) == Uptrend(m) /\ m.ema200 > 0     \* ema_gap_pct > 0
AtrRatio(m, n) == Ratio(n * m.atr, m.price)
HistogramRatio(m) == Ratio(Magnitude(m.hist), m.atr)

\* Each confirmation with its category; a category may count twice.
EntryConfirmations(m) ==
    {c \in {[fact |-> "price_above_ema50_and_ema200", kind |-> "trend",        holds |-> AboveBoth(m)],
            [fact |-> "ema50_above_ema200",           kind |-> "trend",        holds |-> Uptrend(m)],
            [fact |-> "bullish_macd",                 kind |-> "momentum",     holds |-> m.hist > 0],
            [fact |-> "rsi_45_to_70",                 kind |-> "momentum",     holds |-> m.rsi \in 45 .. 69],
            [fact |-> "higher_highs_and_lows",        kind |-> "price_action", holds |-> m.swing = "up"],
            [fact |-> "rising_price_on_high_volume",  kind |-> "price_action", holds |-> m.move = 1 /\ m.busy]} :
        c.holds}

ExitConfirmations(m) ==
    {c \in {[fact |-> "price_below_ema50_and_ema200", kind |-> "trend",        holds |-> BelowBoth(m)],
            [fact |-> "ema50_below_ema200",           kind |-> "trend",        holds |-> m.ema50 < m.ema200],
            [fact |-> "bearish_macd",                 kind |-> "momentum",     holds |-> m.hist < 0],
            [fact |-> "rsi_below_45",                 kind |-> "momentum",     holds |-> m.rsi < 45],
            [fact |-> "lower_highs_and_lows",         kind |-> "price_action", holds |-> m.swing = "down"],
            [fact |-> "falling_price_on_high_volume", kind |-> "price_action", holds |-> m.move = -1 /\ m.busy]} :
        c.holds}

Kinds(S) == {c.kind : c \in S}

\* --- StrategySelector ----------------------------------------------------
Trending(m) == EmaGap(m) >= 15
Aligned(m) == IF GapIsUp(m) THEN AboveBoth(m)
                            ELSE m.price <= m.ema50 /\ m.price <= m.ema200
MomentumBurst(m) == HistogramRatio(m) >= 150 /\ m.busy

Regimes == {"TREND_PULLBACK", "TREND_FOLLOWING", "MOMENTUM_CONTINUATION", "MEAN_REVERSION"}
Volatilities == {"LOW_VOLATILITY", "NORMAL", "HIGH_VOLATILITY"}

\* The first of the ranked regimes; the runners-up are only reported.
Regime(m) ==
    CASE Trending(m) /\ ~Aligned(m)       -> "TREND_PULLBACK"
      [] Trending(m) /\ Aligned(m)        -> "TREND_FOLLOWING"
      [] ~Trending(m) /\ MomentumBurst(m) -> "MOMENTUM_CONTINUATION"
      [] OTHER                            -> "MEAN_REVERSION"

\* VolatilityClassifier.
Volatility(m) ==
    CASE AtrRatio(m, 1) < 5         -> "LOW_VOLATILITY"
      [] 1000 * m.atr > 20 * m.price /\ m.price > 0 -> "HIGH_VOLATILITY"
      [] OTHER                      -> "NORMAL"

\* --- TradeScorer ---------------------------------------------------------
Points(cond, n) == IF cond THEN n ELSE 0

ScoreTrend(m) ==
    Points(GapIsUp(m) /\ m.price > m.ema50, 10)
      + Points(GapIsUp(m) /\ m.price > m.ema200, 10)
      + Points(GapIsUp(m), Rounded(5 * Clamp(EmaGap(m), 0, 30), 30))

\* Mutant: the strength of a burst is not capped.
ScoreMomentum_Uncapped(m) ==
    IF m.hist < 0 THEN 0
    ELSE (IF m.hist > 0 THEN 12 ELSE 6) + Rounded(8 * HistogramRatio(m), 150)

ScoreMomentum(m) ==
    IF m.hist < 0 THEN 0
    ELSE (IF m.hist > 0 THEN 12 ELSE 6) + Rounded(8 * Clamp(HistogramRatio(m), 0, 150), 150)

ScoreRegime(m) ==
    CASE Regime(m) = "TREND_PULLBACK"        -> 20
      [] Regime(m) = "MOMENTUM_CONTINUATION" -> 16
      [] Regime(m) = "MEAN_REVERSION"        -> 10
      [] Regime(m) = "TREND_FOLLOWING"       -> 4

\* A stop twice the ATR away, between 1.5% and 8%: the tighter, the better.
ScoreRiskReward(m) == 5 + Rounded(10 * (80 - Clamp(AtrRatio(m, 2), 15, 80)), 65)

ScoreVolatility(m) ==
    CASE Volatility(m) = "NORMAL"          -> 5
      [] Volatility(m) = "LOW_VOLATILITY"  -> 3
      [] Volatility(m) = "HIGH_VOLATILITY" -> 1

TradeScore(m) ==
    ScoreTrend(m) + ScoreMomentum(m) + Points(m.busy, 15) + ScoreRegime(m)
      + ScoreRiskReward(m) + ScoreVolatility(m)

\* --- validate_signal_semantics -------------------------------------------
EntryIsSufficient(m) ==
    LET found == EntryConfirmations(m)
    IN  Cardinality(found) >= 3 /\ {"trend", "momentum"} \subseteq Kinds(found)

\* Two confirmations of different categories.
ExitIsSufficient(m) == Cardinality(Kinds(ExitConfirmations(m))) >= 2

BeyondCushion(m) == m.known /\ (m.pnl > MinExitProfit \/ m.pnl < -MinExitLoss)
HardLoss(m) == m.open /\ m.known /\ m.pnl <= -HardLossCut

ConfirmedExit(m, answer) ==
    answer.action = "SELL" /\ m.open /\ ExitIsSufficient(m) /\ BeyondCushion(m)
ConfirmedEntry(m, answer) ==
    /\ answer.action = "BUY"
    /\ ~m.open
    /\ EntryIsSufficient(m)
    /\ Regime(m) # "TREND_FOLLOWING"

\* The action and the confidence an answer is normalised to.
Normalised(m, answer) ==
    CASE HardLoss(m) -> [action |-> "SELL", confidence |-> 800]
      [] ~HardLoss(m) /\ ConfirmedExit(m, answer) ->
            [action |-> "SELL",
             confidence |-> Min({800, 650 + 50 * (Cardinality(ExitConfirmations(m)) - 2)})]
      [] ~HardLoss(m) /\ (answer.action = "HOLD" \/ ConfirmedEntry(m, answer)) ->
            [action |-> answer.action, confidence |-> answer.confidence]
      [] OTHER -> HOLD(Min({answer.confidence, 640}))

\* Mutant: the hard loss cut is forgotten.
LlmCanChangeOutcome_NoHardCut(m) ==
    IF m.open THEN BeyondCushion(m) /\ ExitIsSufficient(m)
              ELSE EntryIsSufficient(m) /\ Regime(m) # "TREND_FOLLOWING"

\* What the pre-filter asks.
LlmCanChangeOutcome(m) ==
    IF m.open THEN HardLoss(m) \/ (BeyondCushion(m) /\ ExitIsSufficient(m))
              ELSE EntryIsSufficient(m) /\ Regime(m) # "TREND_FOLLOWING"
=============================================================================
