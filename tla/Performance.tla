----------------------------- MODULE Performance -----------------------------
(***************************************************************************)
(* The performance engine: the metrics of a list of closed trades and of   *)
(* its cohorts, each the set S of the indices of its trades.  The live     *)
(* report, the scheduled snapshot, the expectancy filter of the risk       *)
(* engine and the replays compute them with the same functions.            *)
(*                                                                         *)
(* A trade is a record with at least its result, its R-multiple in         *)
(* permille (NoValue when the risk is unknown), the time of its close, and *)
(* the regime, volatility and score of its entry.  An average is the pair  *)
(* of a sum and a count, a drawdown is in permille, rounded down.          *)
(***************************************************************************)
EXTENDS Integers, FiniteSets, FiniteSetsExt

CONSTANTS
    NoValue,        \* NULL
    MinSample,      \* expectancy_min_sample_size
    MinExpectancy   \* expectancy_min_r

ASSUME ExpectancyAssumption == MinSample \in Nat /\ MinExpectancy \in Int

SumOf(f) == MapThenSumSet(LAMBDA x : f[x], DOMAIN f)

Tracked(trades, S) == {i \in S : trades[i].r # NoValue}
Wins(trades, S) == {i \in S : trades[i].result > 0}
Losses(trades, S) == {i \in S : trades[i].result < 0}
Breakeven(trades, S) == {i \in S : trades[i].result = 0}

TotalPnl(trades, S) == SumOf([i \in S |-> trades[i].result])
AverageR(trades, S) ==
    LET tracked == Tracked(trades, S)
    IN  [sum |-> SumOf([i \in tracked |-> trades[i].r]), count |-> Cardinality(tracked)]

\* --- drawdown -------------------------------------------------------------
\* The trades up to this one in the order of their closes; of two that closed
\* together the earlier in the list comes first.
UpTo(trades, S, i) ==
    {j \in S : \/ trades[j].closed < trades[i].closed
               \/ trades[j].closed = trades[i].closed /\ j <= i}

\* The running equity after each trade.
EquityCurve(trades, S, equity) ==
    [i \in S |-> equity + TotalPnl(trades, UpTo(trades, S, i))]

Peak(trades, S, equity, i) ==
    LET curve == EquityCurve(trades, S, equity)
    IN  Max({equity} \cup {curve[j] : j \in UpTo(trades, S, i)})

Depth(trades, S, equity, i) ==
    LET peak == Peak(trades, S, equity, i)
    IN  ((peak - EquityCurve(trades, S, equity)[i]) * 1000) \div peak

\* Without a trade or an equity to start from there is no drawdown.
MaxDrawdown(trades, S, equity) ==
    IF S = {} \/ equity <= 0 THEN NoValue
    ELSE Max({0} \cup {Depth(trades, S, equity, i) : i \in S})

AvgDrawdown(trades, S, equity) ==
    LET curve == EquityCurve(trades, S, equity)
        under == {i \in S : curve[i] < Peak(trades, S, equity, i)}
    IN  IF S = {} \/ equity <= 0 THEN NoValue
        ELSE [sum |-> SumOf([i \in under |-> Depth(trades, S, equity, i)]),
              count |-> Cardinality(under)]

\* PerformanceReport; the profit factor is gross profit over gross loss.
Summarize(trades, S, equity) ==
    LET wins == Wins(trades, S)
        losses == Losses(trades, S)
    IN  [trades |-> Cardinality(S), wins |-> Cardinality(wins), losses |-> Cardinality(losses),
         breakeven |-> Cardinality(Breakeven(trades, S)),
         avgWinR |-> AverageR(trades, wins), avgLossR |-> AverageR(trades, losses),
         expectancyR |-> AverageR(trades, S), pnl |-> TotalPnl(trades, S),
         grossProfit |-> TotalPnl(trades, wins), grossLoss |-> -TotalPnl(trades, losses),
         maxDrawdown |-> MaxDrawdown(trades, S, equity),
         avgDrawdown |-> AvgDrawdown(trades, S, equity)]

\* --- the breakdowns -------------------------------------------------------
\* SCORE_BUCKETS; NoValue stands for "(unscored)" and "(unclassified)".
Buckets == {0 .. 39, 40 .. 69, 70 .. 100}

ScoreBucket(score) ==
    IF score # NoValue /\ \E b \in Buckets : score \in b
    THEN CHOOSE b \in Buckets : score \in b
    ELSE NoValue

KeyOf(t, dimension) ==
    CASE dimension = "regime"     -> t.regime
      [] dimension = "volatility" -> t.volatility
      [] dimension = "score"      -> ScoreBucket(t.score)

Cohort(trades, dimension, key) == {i \in DOMAIN trades : KeyOf(trades[i], dimension) = key}

\* summarize_breakdowns: one report for each value a dimension takes.
Breakdown(trades, dimension, equity) ==
    [key \in {KeyOf(trades[i], dimension) : i \in DOMAIN trades} |->
        Summarize(trades, Cohort(trades, dimension, key), equity)]

\* --- the expectancy filter ------------------------------------------------
\* The setup of a signal: the trades of its regime whose score is in its bucket.
ExpectancyView(trades, regime, score) ==
    LET bucket == ScoreBucket(score)
        setup == {i \in DOMAIN trades : /\ trades[i].regime = regime
                                        /\ trades[i].score # NoValue
                                        /\ trades[i].score \in bucket}
    IN  IF regime = NoValue \/ bucket = NoValue THEN AverageR(trades, {})
        ELSE AverageR(trades, setup)

ExpectancyDecision(view) ==
    CASE view.count = 0 \/ view.count < MinSample -> "INSUFFICIENT_DATA"
      [] view.count > 0 /\ view.count >= MinSample ->
            IF view.sum < MinExpectancy * view.count THEN "NEGATIVE_EXPECTANCY" ELSE "ALLOW"
=============================================================================
