---------------------------- MODULE MCLlmAnalysis ----------------------------
(* LlmAnalysis on a small instance: every kind of market for one symbol by  *)
(* itself, and two symbols together in a market of each outcome of the      *)
(* pre-filter.                                                              *)
EXTENDS LlmAnalysis

CONSTANTS btc, eth

Flat == [price |-> 1030, ema50 |-> 1010, ema200 |-> 1000, hist |-> 4, atr |-> 10, rsi |-> 50,
         swing |-> "up", move |-> 1, busy |-> TRUE, open |-> FALSE, known |-> FALSE, pnl |-> 0]

Positions == {<<FALSE, FALSE, 0>>, <<TRUE, FALSE, 0>>, <<TRUE, TRUE, 0>>, <<TRUE, TRUE, 6>>,
              <<TRUE, TRUE, -6>>, <<TRUE, TRUE, -15>>}

\* Prices below, between and above the averages; averages crossed, apart by
\* less and by more than the trend threshold; each boundary of the RSI.
Rich ==
    {[price |-> a[1], ema50 |-> a[2], ema200 |-> 1000, hist |-> x[1], atr |-> a[3], rsi |-> x[2],
      swing |-> w[1], move |-> w[2], busy |-> b, open |-> p[1], known |-> p[2], pnl |-> p[3]] :
        a \in {<<1030, 1015, 4>>, <<1010, 1015, 15>>, <<1030, 1014, 100>>, <<990, 1014, 20>>,
               <<970, 985, 2>>, <<990, 985, 21>>, <<1000, 1000, 0>>},
        x \in {<<-3, 44>>, <<-3, 45>>, <<0, 70>>, <<3, 44>>, <<3, 70>>},
        w \in {<<"up", 1>>, <<"down", -1>>, <<"mixed", 1>>}, b \in BOOLEAN, p \in Positions}

Plain == {Flat, [Flat EXCEPT !.hist = -4, !.rsi = 70]}

MCMarkets == [s \in Symbols |-> IF s = btc THEN Rich \cup Plain ELSE Plain]

\* For what concerns the counter alone.
PlainMarkets == [s \in Symbols |-> {Flat}]
PlainTexts ==
    {[json |-> TRUE, action |-> a, confidence |-> 700, whole |-> TRUE] : a \in Actions}

\* What a market and an answer are has no bearing on the counter: the many are
\* explored while nothing else goes on.
Ordinary(s) == cycles[s].market \in Plain /\ cycles[s].text \in PlainTexts \cup {NoText}
Alone ==
    \A s, q \in Symbols :
        s # q /\ ~At(s, {"idle", "tracked"}) /\ ~Ordinary(s)
            => At(q, {"idle"}) /\ streak = 0

MCTexts ==
    PlainTexts
      \cup {[json |-> FALSE, action |-> "other", confidence |-> -1, whole |-> FALSE],
            [json |-> TRUE, action |-> "other", confidence |-> 1200, whole |-> TRUE],
            [json |-> TRUE, action |-> "BUY", confidence |-> 1200, whole |-> FALSE],
            [json |-> TRUE, action |-> "SELL", confidence |-> 700, whole |-> FALSE]}
=============================================================================
