------------------------ MODULE LlmAnalysis_proofs ------------------------
(***************************************************************************)
(* Proofs about LlmAnalysis and the rubric under it: for every market, any *)
(* answers of the model, any budget, thresholds and number of repairs.     *)
(***************************************************************************)
EXTENDS LlmAnalysis, FiniteSetTheorems, TLAPS

-----------------------------------------------------------------------------
(* Numbers and small sets.                                                 *)

LEMMA MaxOfTwo ==
  ASSUME NEW a \in Int, NEW b \in Int
  PROVE  Max({a, b}) = IF a >= b THEN a ELSE b
BY DEF Max

LEMMA MinOfTwo ==
  ASSUME NEW a \in Int, NEW b \in Int
  PROVE  (a <= b => Min({a, b}) = a) /\ (~(a <= b) => Min({a, b}) = b)
BY DEF Min

LEMMA ClampBounds ==
  ASSUME NEW v \in Int, NEW low \in Int, NEW high \in Int, low <= high
  PROVE  Clamp(v, low, high) \in low .. high
<1>1. Min({v, high}) \in Int /\ Min({v, high}) <= high
  BY MinOfTwo
<1>2. QED
  BY <1>1, MaxOfTwo DEF Clamp

LEMMA MagnitudeType ==
  ASSUME NEW n \in Int
  PROVE  Magnitude(n) \in Nat /\ (n >= 0 => Magnitude(n) = n)
BY MaxOfTwo DEF Magnitude

LEMMA DivisionFacts ==
  ASSUME NEW n \in Nat, NEW d \in Nat \ {0}
  PROVE  /\ n \div d \in Nat /\ n % d \in 0 .. d - 1
         /\ n = d * (n \div d) + (n % d)
OBVIOUS

LEMMA RatioType ==
  ASSUME NEW n \in Nat, NEW d \in Nat
  PROVE  Ratio(n, d) \in Nat
<1>1. CASE d = 0
  BY <1>1 DEF Ratio
<1>2. CASE d # 0
  BY <1>2, DivisionFacts DEF Ratio
<1>3. QED
  BY <1>1, <1>2

LEMMA QuotientReaches ==
  ASSUME NEW n \in Nat, NEW d \in Nat \ {0}, NEW t \in Nat, n >= t * d
  PROVE  n \div d >= t
<1> DEFINE q == n \div d
           r == n % d
<1>1. q \in Nat /\ r \in 0 .. d - 1 /\ n = d * q + r
  BY DivisionFacts
<1> HIDE DEF q, r
<1>2. SUFFICES ASSUME q < t PROVE FALSE
  BY <1>1 DEF q
<1>3. d * q + d <= d * t
  BY <1>1, <1>2
<1>4. t * d = d * t
  OBVIOUS
<1>5. QED
  BY <1>1, <1>3, <1>4

\* A ratio reaches a threshold when its numerator does.
LEMMA RatioReaches ==
  ASSUME NEW n \in Nat, NEW d \in Nat \ {0}, NEW t \in Nat, 1000 * n >= t * d
  PROVE  Ratio(n, d) >= t
<1>1. PICK x \in Nat : x = 1000 * n
  OBVIOUS
<1>2. x \div d >= t
  BY <1>1, QuotientReaches
<1>3. QED
  BY <1>1, <1>2 DEF Ratio

LEMMA SixAreFinite ==
  ASSUME NEW a, NEW b, NEW c, NEW d, NEW e, NEW f
  PROVE  IsFiniteSet({a, b, c, d, e, f})
<1>1. IsFiniteSet({a} \cup {b})
  BY FS_Singleton, FS_AddElement
<1>2. IsFiniteSet(({a} \cup {b}) \cup {c})
  BY <1>1, FS_AddElement
<1>3. IsFiniteSet((({a} \cup {b}) \cup {c}) \cup {d})
  BY <1>2, FS_AddElement
<1>4. IsFiniteSet(((({a} \cup {b}) \cup {c}) \cup {d}) \cup {e})
  BY <1>3, FS_AddElement
<1>5. IsFiniteSet((((({a} \cup {b}) \cup {c}) \cup {d}) \cup {e}) \cup {f})
  BY <1>4, FS_AddElement
<1>6. {a, b, c, d, e, f} = (((({a} \cup {b}) \cup {c}) \cup {d}) \cup {e}) \cup {f}
  OBVIOUS
<1>7. QED
  BY <1>5, <1>6

-----------------------------------------------------------------------------
(* The rubric.                                                             *)

LEMMA MarketFields ==
  ASSUME NEW m \in MarketType
  PROVE  /\ {m.price, m.ema50, m.ema200, m.atr, m.rsi} \subseteq Nat
         /\ m.hist \in Int /\ m.pnl \in Int
         /\ m.open \in BOOLEAN /\ m.known \in BOOLEAN /\ m.busy \in BOOLEAN
BY DEF MarketType

LEMMA EntryKinds ==
  ASSUME NEW m
  PROVE  "trend" \in Kinds(EntryConfirmations(m)) => AboveBoth(m) \/ Uptrend(m)
BY DEF Kinds, EntryConfirmations

LEMMA ConfirmationFields ==
  \A f, k, h, c : c = [fact |-> f, kind |-> k, holds |-> h] => c.kind = k /\ c.holds = h
OBVIOUS

\* The categories of the exit confirmations, without the list they come from.
LEMMA ExitKinds ==
  ASSUME NEW m
  PROVE  /\ Kinds(ExitConfirmations(m)) \subseteq {"trend", "momentum", "price_action"}
         /\ "trend" \in Kinds(ExitConfirmations(m)) => BelowBoth(m) \/ m.ema50 < m.ema200
         /\ "momentum" \in Kinds(ExitConfirmations(m)) => m.hist < 0 \/ m.rsi < 45
         /\ "price_action" \in Kinds(ExitConfirmations(m)) =>
               m.swing = "down" \/ (m.move = -1 /\ m.busy)
<1>1. \A c \in ExitConfirmations(m) :
         \/ c.kind = "trend" /\ (BelowBoth(m) \/ m.ema50 < m.ema200)
         \/ c.kind = "momentum" /\ (m.hist < 0 \/ m.rsi < 45)
         \/ c.kind = "price_action" /\ (m.swing = "down" \/ (m.move = -1 /\ m.busy))
  <2> SUFFICES ASSUME NEW c \in ExitConfirmations(m)
               PROVE  \/ c.kind = "trend" /\ (BelowBoth(m) \/ m.ema50 < m.ema200)
                      \/ c.kind = "momentum" /\ (m.hist < 0 \/ m.rsi < 45)
                      \/ c.kind = "price_action" /\ (m.swing = "down" \/ (m.move = -1 /\ m.busy))
    OBVIOUS
  <2>1. /\ c.holds
        /\ \/ c = [fact |-> "price_below_ema50_and_ema200", kind |-> "trend", holds |-> BelowBoth(m)]
           \/ c = [fact |-> "ema50_below_ema200", kind |-> "trend", holds |-> m.ema50 < m.ema200]
           \/ c = [fact |-> "bearish_macd", kind |-> "momentum", holds |-> m.hist < 0]
           \/ c = [fact |-> "rsi_below_45", kind |-> "momentum", holds |-> m.rsi < 45]
           \/ c = [fact |-> "lower_highs_and_lows", kind |-> "price_action", holds |-> m.swing = "down"]
           \/ c = [fact |-> "falling_price_on_high_volume", kind |-> "price_action",
                   holds |-> m.move = -1 /\ m.busy]
    BY Zenon DEF ExitConfirmations
  <2>2. CASE c = [fact |-> "price_below_ema50_and_ema200", kind |-> "trend", holds |-> BelowBoth(m)]
    <3>1. c.kind = "trend" /\ c.holds = (BelowBoth(m))
      BY <2>2, ConfirmationFields
    <3>2. QED
      BY <2>1, <3>1, Zenon
  <2>3. CASE c = [fact |-> "ema50_below_ema200", kind |-> "trend", holds |-> m.ema50 < m.ema200]
    <3>1. c.kind = "trend" /\ c.holds = (m.ema50 < m.ema200)
      BY <2>3, ConfirmationFields
    <3>2. QED
      BY <2>1, <3>1, Zenon
  <2>4. CASE c = [fact |-> "bearish_macd", kind |-> "momentum", holds |-> m.hist < 0]
    <3>1. c.kind = "momentum" /\ c.holds = (m.hist < 0)
      BY <2>4, ConfirmationFields
    <3>2. QED
      BY <2>1, <3>1, Zenon
  <2>5. CASE c = [fact |-> "rsi_below_45", kind |-> "momentum", holds |-> m.rsi < 45]
    <3>1. c.kind = "momentum" /\ c.holds = (m.rsi < 45)
      BY <2>5, ConfirmationFields
    <3>2. QED
      BY <2>1, <3>1, Zenon
  <2>6. CASE c = [fact |-> "lower_highs_and_lows", kind |-> "price_action", holds |-> m.swing = "down"]
    <3>1. c.kind = "price_action" /\ c.holds = (m.swing = "down")
      BY <2>6, ConfirmationFields
    <3>2. QED
      BY <2>1, <3>1, Zenon
  <2>7. CASE c = [fact |-> "falling_price_on_high_volume", kind |-> "price_action", holds |-> m.move = -1 /\ m.busy]
    <3>1. c.kind = "price_action" /\ c.holds = (m.move = -1 /\ m.busy)
      BY <2>7, ConfirmationFields
    <3>2. QED
      BY <2>1, <3>1, Zenon
  <2>8. QED
    BY <2>1, <2>2, <2>3, <2>4, <2>5, <2>6, <2>7, Zenon
<1>2. QED
  BY <1>1 DEF Kinds

LEMMA ExitConfirmationsFinite ==
  ASSUME NEW m
  PROVE  /\ IsFiniteSet(ExitConfirmations(m)) /\ Cardinality(ExitConfirmations(m)) \in Nat
<1> DEFINE S == {[fact |-> "price_below_ema50_and_ema200", kind |-> "trend",        holds |-> BelowBoth(m)],
                 [fact |-> "ema50_below_ema200",           kind |-> "trend",        holds |-> m.ema50 < m.ema200],
                 [fact |-> "bearish_macd",                 kind |-> "momentum",     holds |-> m.hist < 0],
                 [fact |-> "rsi_below_45",                 kind |-> "momentum",     holds |-> m.rsi < 45],
                 [fact |-> "lower_highs_and_lows",         kind |-> "price_action", holds |-> m.swing = "down"],
                 [fact |-> "falling_price_on_high_volume", kind |-> "price_action", holds |-> m.move = -1 /\ m.busy]}
<1>1. IsFiniteSet(S)
  BY SixAreFinite
<1>2. ExitConfirmations(m) \subseteq S
  BY DEF ExitConfirmations
<1> HIDE DEF S
<1>3. QED
  BY <1>1, <1>2, FS_Subset, FS_CardinalityType

\* Fewer than two kinds of evidence are not enough for an exit.
LEMMA SufficientExit ==
  ASSUME NEW m, ExitIsSufficient(m)
  PROVE  BearishKinds(m) >= 2
<1> DEFINE K == Kinds(ExitConfirmations(m))
<1>1. Cardinality(K) >= 2
  BY DEF ExitIsSufficient
<1>2. ASSUME NEW x, K \subseteq {x} PROVE FALSE
  <2>1. IsFiniteSet({x}) /\ Cardinality({x}) = 1
    BY FS_Singleton
  <2>2. IsFiniteSet(K) /\ Cardinality(K) <= 1 /\ Cardinality(K) \in Nat
    BY <1>2, <2>1, FS_Subset, FS_CardinalityType
  <2>3. QED
    BY <1>1, <2>2
<1>3. /\ K \subseteq {"trend", "momentum", "price_action"}
      /\ "trend" \in K => BelowBoth(m) \/ m.ema50 < m.ema200
      /\ "momentum" \in K => m.hist < 0 \/ m.rsi < 45
      /\ "price_action" \in K => m.swing = "down" \/ (m.move = -1 /\ m.busy)
  BY ExitKinds
<1> HIDE DEF K
<1>4. \/ "trend" \in K /\ "momentum" \in K
      \/ "trend" \in K /\ "price_action" \in K
      \/ "momentum" \in K /\ "price_action" \in K
  BY <1>2, <1>3
<1>5. QED
  BY <1>3, <1>4 DEF BearishKinds, Points, BelowBoth

\* An entry the rubric confirms rises and is not extended.
LEMMA ConfirmedEntryRises ==
  ASSUME NEW m \in MarketType, EntryIsSufficient(m), Regime(m) # "TREND_FOLLOWING"
  PROVE  Rises(m) /\ ~Extended(m)
<1>1. Rises(m)
  BY EntryKinds DEF EntryIsSufficient, AboveBoth, Uptrend, Rises
<1>2. ASSUME Extended(m) PROVE FALSE
  <2>1. {m.price, m.ema50, m.ema200} \subseteq Nat
    BY MarketFields
  <2>2. m.ema200 > 0 /\ m.ema50 > m.ema200 /\ m.price > m.ema50
        /\ 1000 * (m.ema50 - m.ema200) >= 15 * m.ema200
    BY <1>2, <2>1 DEF Extended
  <2>3. Magnitude(m.ema50 - m.ema200) = m.ema50 - m.ema200 /\ m.ema50 - m.ema200 \in Nat
    BY <2>1, <2>2, MagnitudeType
  <2>4. EmaGap(m) >= 15
    BY <2>1, <2>2, <2>3, RatioReaches DEF EmaGap
  <2>5. Trending(m) /\ Aligned(m)
    BY <2>1, <2>2, <2>4 DEF Trending, Aligned, GapIsUp, Uptrend, AboveBoth
  <2>6. Regime(m) = "TREND_FOLLOWING"
    BY <2>5 DEF Regime
  <2>7. QED
    BY <2>6
<1>3. QED
  BY <1>1, <1>2

-----------------------------------------------------------------------------
(* The trade score.                                                        *)

LEMMA RoundedBounds ==
  ASSUME NEW c \in Nat, NEW k \in Nat, NEW d \in Nat \ {0}, c <= k * d
  PROVE  Rounded(c, d) \in 0 .. k
<1> DEFINE q == c \div d
           r == c % d
<1>1. q \in Nat /\ r \in 0 .. d - 1 /\ c = d * q + r
  BY DivisionFacts
<1> HIDE DEF q, r
<1>2. k * d = d * k
  OBVIOUS
<1>3. q <= k
  <2>1. SUFFICES ASSUME q > k PROVE FALSE
    BY <1>1
  <2>2. d * q >= d * k + d
    BY <1>1, <2>1
  <2>3. QED
    BY <1>1, <1>2, <2>2
<1>4. q = k => r = 0
  BY <1>1, <1>2
<1>5. Rounded(c, d) \in {q, q + 1} /\ (r = 0 => Rounded(c, d) = q)
  BY <1>1 DEF Rounded, q, r
<1>6. QED
  BY <1>1, <1>3, <1>4, <1>5

\* A share of n points for a clamped ratio is at most n points.
LEMMA ShareBounds ==
  ASSUME NEW n \in Nat, NEW d \in Nat \ {0}, NEW v \in 0 .. d
  PROVE  Rounded(n * v, d) \in 0 .. n
<1>1. PICK c \in Nat : c = n * v
  OBVIOUS
<1>2. c <= n * d
  BY <1>1
<1>3. QED
  BY <1>1, <1>2, RoundedBounds

LEMMA TradeScoreBounds ==
  ASSUME NEW m \in MarketType
  PROVE  TradeScore(m) \in 0 .. 100
<1>1. {m.price, m.ema50, m.ema200, m.atr} \subseteq Nat /\ m.hist \in Int
  BY MarketFields
<1>2. EmaGap(m) \in Nat /\ HistogramRatio(m) \in Nat /\ AtrRatio(m, 2) \in Nat
  <2>1. m.ema50 - m.ema200 \in Int /\ 2 * m.atr \in Nat
    BY <1>1
  <2>2. Magnitude(m.ema50 - m.ema200) \in Nat /\ Magnitude(m.hist) \in Nat
    BY <1>1, <2>1, MagnitudeType
  <2>3. QED
    BY <1>1, <2>1, <2>2, RatioType DEF EmaGap, HistogramRatio, AtrRatio
<1>3. ScoreTrend(m) \in 0 .. 25
  <2>1. Rounded(5 * Clamp(EmaGap(m), 0, 30), 30) \in 0 .. 5
    <3>1. EmaGap(m) \in Int /\ 0 \in Int /\ 30 \in Int /\ 0 <= 30 /\ 5 \in Nat /\ 30 \in Nat \ {0}
      BY <1>2
    <3>2. Clamp(EmaGap(m), 0, 30) \in 0 .. 30
      BY <3>1, ClampBounds, Zenon
    <3>3. QED
      BY <3>1, <3>2, ShareBounds, Zenon
  <2>2. QED
    BY <2>1 DEF ScoreTrend, Points
<1>4. ScoreMomentum(m) \in 0 .. 20
  <2>1. Rounded(8 * Clamp(HistogramRatio(m), 0, 150), 150) \in 0 .. 8
    <3>1. HistogramRatio(m) \in Int /\ 0 \in Int /\ 150 \in Int /\ 0 <= 150
          /\ 8 \in Nat /\ 150 \in Nat \ {0}
      BY <1>2
    <3>2. Clamp(HistogramRatio(m), 0, 150) \in 0 .. 150
      BY <3>1, ClampBounds, Zenon
    <3>3. QED
      BY <3>1, <3>2, ShareBounds, Zenon
  <2>2. QED
    BY <2>1 DEF ScoreMomentum
<1>5. ScoreRegime(m) \in 0 .. 20
  <2>1. Regime(m) \in {"TREND_PULLBACK", "TREND_FOLLOWING", "MOMENTUM_CONTINUATION", "MEAN_REVERSION"}
    BY DEF Regime
  <2>2. QED
    BY <2>1 DEF ScoreRegime
<1>6. ScoreRiskReward(m) \in 0 .. 15
  <2>1. PICK v \in 0 .. 65 : v = 80 - Clamp(AtrRatio(m, 2), 15, 80)
    <3>1. AtrRatio(m, 2) \in Int /\ 15 \in Int /\ 80 \in Int /\ 15 <= 80
      BY <1>2
    <3>2. Clamp(AtrRatio(m, 2), 15, 80) \in 15 .. 80
      BY <3>1, ClampBounds, Zenon
    <3>3. QED
      BY <3>2
  <2>2. Rounded(10 * v, 65) \in 0 .. 10
    BY ShareBounds
  <2>3. QED
    BY <2>1, <2>2 DEF ScoreRiskReward
<1>7. ScoreVolatility(m) \in 0 .. 5
  <2>1. Volatility(m) \in {"NORMAL", "LOW_VOLATILITY", "HIGH_VOLATILITY"}
    BY DEF Volatility
  <2>2. QED
    BY <2>1 DEF ScoreVolatility
<1>8. Points(m.busy, 15) \in 0 .. 15
  BY DEF Points
<1>9. QED
  BY <1>3, <1>4, <1>5, <1>6, <1>7, <1>8 DEF TradeScore

-----------------------------------------------------------------------------
(* What an answer becomes.                                                 *)

TextType == [json : BOOLEAN, action : Actions \cup {"other"}, confidence : Int, whole : BOOLEAN]

LEMMA ValidText ==
  ASSUME NEW text \in TextType
  PROVE  Valid(text) <=> /\ text.json /\ text.whole
                         /\ text.action \in Actions /\ text.confidence \in 0 .. 1000
<1>1. Valid(text) <=> /\ text.json /\ text.action # "other"
                      /\ text.confidence \in 0 .. 1000 /\ text.whole
  <2> DEFINE r1 == [order |-> 1, reason |-> "malformed_json", fails |-> ~text.json]
             r2 == [order |-> 2, reason |-> "invalid_action", fails |-> text.action = "other"]
             r3 == [order |-> 3, reason |-> "invalid_confidence",
                    fails |-> text.confidence \notin 0 .. 1000]
             r4 == [order |-> 4, reason |-> "schema_invalid", fails |-> ~text.whole]
  <2>1. /\ r1.fails = ~text.json /\ r2.fails = (text.action = "other")
        /\ r3.fails = (text.confidence \notin 0 .. 1000) /\ r4.fails = ~text.whole
    OBVIOUS
  <2>2. Refusals(text) = {r \in {r1, r2, r3, r4} : r.fails}
    BY DEF Refusals
  <2> HIDE DEF r1, r2, r3, r4
  <2>3. Valid(text) <=> ~r1.fails /\ ~r2.fails /\ ~r3.fails /\ ~r4.fails
    <3>1. ASSUME ~r1.fails, ~r2.fails, ~r3.fails, ~r4.fails PROVE Refusals(text) = {}
      BY <2>2, <3>1, Zenon
    <3>2. ASSUME NEW r \in {r1, r2, r3, r4}, r.fails PROVE Refusals(text) # {}
      BY <2>2, <3>2, Zenon
    <3>3. QED
      BY <3>1, <3>2, Zenon DEF Valid
  <2>4. r1.fails <=> ~text.json
    BY <2>1, Zenon
  <2>5. r2.fails <=> text.action = "other"
    BY <2>1, Zenon
  <2>6. r3.fails <=> text.confidence \notin 0 .. 1000
    BY <2>1, ZenonT(30)
  <2>7. r4.fails <=> ~text.whole
    BY <2>1, ZenonT(30)
  <2>8. QED
    BY <2>3, <2>4, <2>5, <2>6, <2>7
<1>2. text.action # "other" <=> text.action \in Actions
  BY DEF TextType, Actions
<1>3. QED
  BY <1>1, <1>2

LEMMA RefusalReason ==
  ASSUME NEW text \in TextType, ~Valid(text)
  PROVE  Refusal(text) \in {"malformed_json", "invalid_action", "invalid_confidence", "schema_invalid"}
<1>1. \A r \in Refusals(text) :
         r.reason \in {"malformed_json", "invalid_action", "invalid_confidence", "schema_invalid"}
  BY DEF Refusals
<1>2. \E r \in Refusals(text) : \A q \in Refusals(text) : r.order <= q.order
  BY DEF Valid, Refusals
<1>3. QED
  BY <1>1, <1>2 DEF Refusal

LEMMA NormalisedFacts ==
  ASSUME NEW m \in MarketType, NEW text \in TextType, Valid(text)
  PROVE  /\ Normalised(m, text).action \in Actions
         /\ Normalised(m, text).confidence \in 0 .. 1000
         /\ Normalised(m, text).action = "BUY" =>
               /\ text.action = "BUY" /\ ~m.open
               /\ EntryIsSufficient(m) /\ Regime(m) # "TREND_FOLLOWING"
         /\ Normalised(m, text).action = "SELL" =>
               \/ HardLoss(m)
               \/ text.action = "SELL" /\ m.open /\ ExitIsSufficient(m) /\ BeyondCushion(m)
<1>1. text.action \in Actions /\ text.confidence \in 0 .. 1000
  BY ValidText
<1>2. CASE HardLoss(m)
  BY <1>1, <1>2 DEF Normalised, Actions
<1>3. CASE ~HardLoss(m) /\ ConfirmedExit(m, text)
  <2>1. Cardinality(ExitConfirmations(m)) \in Nat
    BY ExitConfirmationsFinite
  <2>2. PICK c \in Int : c = 650 + 50 * (Cardinality(ExitConfirmations(m)) - 2) /\ c >= 550
    BY <2>1
  <2>3. Min({800, c}) \in 0 .. 1000
    <3>1. PICK top \in Int : top = 800
      OBVIOUS
    <3>2. (top <= c => Min({top, c}) = top) /\ (~(top <= c) => Min({top, c}) = c)
      BY MinOfTwo
    <3>3. Min({top, c}) \in 0 .. 1000
      BY <2>2, <3>1, <3>2
    <3>4. QED
      BY <3>1, <3>3
  <2>4. Normalised(m, text) = [action |-> "SELL", confidence |-> Min({800, c})]
    BY <1>3, <2>2 DEF Normalised, ConfirmedExit, ConfirmedEntry
  <2>5. QED
    BY <1>3, <2>3, <2>4 DEF Actions, ConfirmedExit
<1>4. CASE ~HardLoss(m) /\ ~ConfirmedExit(m, text)
  <2>1. CASE text.action = "HOLD" \/ ConfirmedEntry(m, text)
    <3>1. Normalised(m, text) = [action |-> text.action, confidence |-> text.confidence]
      BY <1>4, <2>1 DEF Normalised
    <3>2. QED
      BY <1>1, <2>1, <3>1 DEF ConfirmedEntry
  <2>2. CASE ~(text.action = "HOLD" \/ ConfirmedEntry(m, text))
    <3>1. Normalised(m, text) = HOLD(Min({text.confidence, 640}))
      BY <1>4, <2>2 DEF Normalised
    <3>2. Min({text.confidence, 640}) \in 0 .. 1000
      <4>1. PICK a \in Int, b \in Int : a = text.confidence /\ b = 640
        BY <1>1
      <4>2. (a <= b => Min({a, b}) = a) /\ (~(a <= b) => Min({a, b}) = b)
        BY MinOfTwo
      <4>3. Min({a, b}) \in 0 .. 1000
        BY <1>1, <4>1, <4>2
      <4>4. QED
        BY <4>1, <4>3
    <3>3. QED
      BY <3>1, <3>2 DEF HOLD, Actions
  <2>3. QED
    BY <2>1, <2>2
<1>5. QED
  BY <1>2, <1>3, <1>4

\* Where the pre-filter lets a call pass, some answer trades; where it does not, none does.
LEMMA PrefilterIsExact ==
  ASSUME NEW m \in MarketType
  PROVE  LlmCanChangeOutcome(m) <=>
            \E text \in Texts : Valid(text) /\ Normalised(m, text).action # "HOLD"
<1>1. Texts \subseteq TextType
  BY AnalysisAssumption DEF TextType
<1>2. ASSUME NEW a \in {"BUY", "SELL"}
      PROVE  \E text \in Texts : Valid(text) /\ text.action = a
  BY <1>1, AnalysisAssumption, ValidText DEF Actions
<1>3. ASSUME LlmCanChangeOutcome(m)
      PROVE  \E text \in Texts : Valid(text) /\ Normalised(m, text).action # "HOLD"
  <2>1. CASE HardLoss(m)
    BY <1>2, <2>1 DEF Normalised
  <2>2. CASE ~HardLoss(m) /\ m.open
    <3>1. PICK text \in Texts : Valid(text) /\ text.action = "SELL"
      BY <1>2
    <3>2. ConfirmedExit(m, text)
      BY <1>3, <2>2, <3>1 DEF LlmCanChangeOutcome, ConfirmedExit
    <3>3. Normalised(m, text).action = "SELL"
      BY <2>2, <3>1, <3>2 DEF Normalised, ConfirmedEntry
    <3>4. QED
      BY <3>1, <3>3
  <2>3. CASE ~HardLoss(m) /\ ~m.open
    <3>1. PICK text \in Texts : Valid(text) /\ text.action = "BUY"
      BY <1>2
    <3>2. ConfirmedEntry(m, text) /\ ~ConfirmedExit(m, text)
      BY <1>3, <2>3, <3>1 DEF LlmCanChangeOutcome, ConfirmedEntry, ConfirmedExit
    <3>3. Normalised(m, text).action = "BUY"
      BY <2>3, <3>1, <3>2 DEF Normalised
    <3>4. QED
      BY <3>1, <3>3
  <2>4. QED
    BY <2>1, <2>2, <2>3
<1>4. ASSUME NEW text \in Texts, Valid(text), Normalised(m, text).action # "HOLD"
      PROVE  LlmCanChangeOutcome(m)
  <2>1. text \in TextType
    BY <1>1
  <2>2. Normalised(m, text).action \in {"BUY", "SELL"}
    BY <1>4, <2>1, NormalisedFacts DEF Actions
  <2>3. QED
    BY <1>4, <2>1, <2>2, NormalisedFacts DEF LlmCanChangeOutcome, HardLoss
<1>5. QED
  BY <1>3, <1>4

-----------------------------------------------------------------------------
(* The invariant.  What makes a signal's action earned is decided when the *)
(* answer is validated; the invariant carries it, with the text and the    *)
(* market, to the cycle's end, and through repairs.                        *)
CycleType ==
    [pc : {"idle", "built", "call", "retry", "text", "signal", "read", "tracked"},
     market : MarketType \cup {NoMarket}, text : TextType,
     spent : 0 .. Budget, repairs : 0 .. MaxRepairs, signal : Signal,
     previous : 0 .. MaxFailures, alert : {"none", "STREAK", "RECOVERED"}]

CycleOK(s, c) ==
    /\ c.pc \notin {"idle", "tracked"} => c.market \in Markets[s]
    /\ c.pc = "text" => c.text \in Texts
    /\ c.pc = "built" => c.repairs = 0
    /\ c.pc \in {"call", "retry"} /\ c.repairs > 0 => ~Valid(c.text)
    /\ c.pc \in {"call", "retry", "text"} => ~ShouldSkipLlm(c.market)
    /\ c.pc \in {"signal", "read"} =>
          /\ c.signal.reason = "prefilter" => ~LlmCanChangeOutcome(c.market)
          /\ c.signal.action # "HOLD" =>
                Valid(c.text) /\ c.signal.action = Normalised(c.market, c.text).action

\* Until the alert is due there is none; from then on there is one, written,
\* lost, or carried by one cycle.  Only a lost reply can step over its moment.
PageOK ==
    \/ /\ pages = 0 /\ missed = 0 /\ paging = {}
       /\ unheard = 0 => streak < Threshold
    \/ /\ streak >= Threshold
       /\ \/ pages = 1 /\ missed = 0 /\ paging = {}
          \/ pages = 0 /\ missed = 1 /\ paging = {}
          \/ pages = 0 /\ missed = 0 /\ \E s \in Symbols : paging = {s}

CountersOK ==
    /\ streak \in 0 .. MaxFailures /\ failures \in Nat /\ unheard \in Nat
    /\ streak = failures + unheard
    /\ PageOK

AnalysisInv ==
    /\ cycles \in [Symbols -> CycleType]
    /\ \A s \in Symbols : CycleOK(s, cycles[s])
    /\ CountersOK

LEMMA CounterBounds == MaxFailures \in Nat /\ Threshold \in Nat \ {0}
BY AnalysisAssumption

LEMMA SmallTypes ==
  /\ 0 \in 0 .. Budget /\ 0 \in 0 .. MaxRepairs /\ 0 \in 0 .. MaxFailures
  /\ NoText \in TextType
  /\ NoSignal \in Signal /\ NoSignal.action = "HOLD" /\ NoSignal.reason = "none"
  /\ Idle \in CycleType /\ Idle.pc = "idle"
<1>1. 0 \in 0 .. Budget /\ 0 \in 0 .. MaxRepairs /\ 0 \in 0 .. MaxFailures
  BY AnalysisAssumption
<1>2. NoText \in TextType
  <2>1. FALSE \in BOOLEAN
    OBVIOUS
  <2>2. QED
    BY <2>1 DEF NoText, TextType
<1>3. NoSignal \in Signal /\ NoSignal.action = "HOLD" /\ NoSignal.reason = "none"
  BY DEF NoSignal, Signal, Actions
<1>4. Idle \in CycleType /\ Idle.pc = "idle"
  BY <1>1, <1>2, <1>3 DEF Idle, CycleType
<1>5. QED
  BY <1>1, <1>2, <1>3, <1>4

LEMMA InitAnalysis == Init => AnalysisInv
<1> SUFFICES ASSUME Init PROVE AnalysisInv
  OBVIOUS
<1>1. cycles \in [Symbols -> CycleType] /\ \A s \in Symbols : cycles[s] = Idle
  BY SmallTypes DEF Init
<1>2. \A s \in Symbols : CycleOK(s, cycles[s])
  BY <1>1, SmallTypes DEF CycleOK
<1>3. CountersOK
  <2>1. PageOK
    BY CounterBounds DEF Init, PageOK
  <2>2. QED
    <3>1. streak \in 0 .. MaxFailures /\ streak = failures + unheard
          /\ failures \in Nat /\ unheard \in Nat
      BY CounterBounds DEF Init
    <3>2. QED
      BY <2>1, <3>1, Zenon DEF CountersOK
<1>4. QED
  BY <1>1, <1>2, <1>3 DEF AnalysisInv

LEMMA CycleMoves ==
  ASSUME AnalysisInv, NEW s \in Symbols, NEW c \in CycleType, CycleOK(s, c),
         cycles' = [cycles EXCEPT ![s] = c], CountersOK'
  PROVE  AnalysisInv'
<1>1. cycles' \in [Symbols -> CycleType] /\ cycles'[s] = c
      /\ \A q \in Symbols : q # s => cycles'[q] = cycles[q]
  BY DEF AnalysisInv
<1>2. \A q \in Symbols : CycleOK(q, cycles'[q])
  BY <1>1 DEF AnalysisInv
<1>3. QED
  BY <1>1, <1>2 DEF AnalysisInv

LEMMA CountersKept ==
  ASSUME AnalysisInv, UNCHANGED counters
  PROVE  CountersOK'
BY DEF AnalysisInv, counters, outage, CountersOK, PageOK

LEMMA CycleBecomes ==
  ASSUME AnalysisInv, NEW s \in Symbols, NEW c \in CycleType, CycleOK(s, c), Becomes(s, c)
  PROVE  AnalysisInv'
BY CycleMoves, CountersKept DEF Becomes

LEMMA CycleFacts ==
  ASSUME AnalysisInv, NEW s \in Symbols
  PROVE  /\ cycles[s] \in CycleType /\ CycleOK(s, cycles[s])
         /\ Markets[s] \subseteq MarketType
         /\ Texts \subseteq TextType
         /\ cycles[s].text \in TextType /\ cycles[s].signal \in Signal
BY AnalysisAssumption DEF AnalysisInv, CycleType, TextType

-----------------------------------------------------------------------------
(* The signals the service replies with.                                   *)
HoldReasons == TimeoutReasons \cup {"prefilter", "malformed_json", "invalid_action",
                                    "invalid_confidence", "schema_invalid"}

LEMMA HoldSignal ==
  ASSUME NEW s, cycles[s].market \in MarketType, NEW reason \in HoldReasons
  PROVE  /\ BuildHold(s, reason) \in Signal
         /\ BuildHold(s, reason).action = "HOLD" /\ BuildHold(s, reason).reason = reason
<1>1. TradeScore(cycles[s].market) \in 0 .. 100
  BY TradeScoreBounds
<1>2. QED
  BY <1>1 DEF BuildHold, Signal, HoldReasons, TimeoutReasons, Actions

LEMMA TradeSignal ==
  ASSUME NEW s, cycles[s].market \in MarketType, NEW text \in TextType, Valid(text)
  PROVE  LET output == Normalised(cycles[s].market, text) IN
         /\ BuildSignal(s, output) \in Signal
         /\ BuildSignal(s, output).action = output.action
         /\ BuildSignal(s, output).reason = "model"
<1>1. TradeScore(cycles[s].market) \in 0 .. 100
  BY TradeScoreBounds
<1>2. PICK m \in MarketType : m = cycles[s].market
  OBVIOUS
<1>3. Normalised(m, text).action \in Actions /\ Normalised(m, text).confidence \in 0 .. 1000
  BY NormalisedFacts
<1>4. PICK output : output = Normalised(m, text)
  OBVIOUS
<1>5. output.action \in Actions /\ output.confidence \in 0 .. 1000
  BY <1>3, <1>4
<1>6. /\ BuildSignal(s, output) \in Signal
      /\ BuildSignal(s, output).action = output.action /\ BuildSignal(s, output).reason = "model"
  BY <1>1, <1>5, SMTT(30) DEF BuildSignal, Signal
<1>7. QED
  BY <1>2, <1>4, <1>6

LEMMA StepReplies ==
  ASSUME AnalysisInv, NEW s \in Symbols, NEW signal \in Signal,
         cycles[s].pc \in {"built", "call", "retry", "text"},
         signal.reason = "prefilter" => ~LlmCanChangeOutcome(cycles[s].market),
         signal.action # "HOLD" =>
            /\ Valid(cycles[s].text)
            /\ signal.action = Normalised(cycles[s].market, cycles[s].text).action,
         Replies(s, signal)
  PROVE  AnalysisInv'
<1> DEFINE c == [cycles[s] EXCEPT !.pc = "signal", !.signal = signal, !.spent = 0, !.repairs = 0]
<1>1. /\ c \in CycleType /\ c.pc = "signal" /\ c.signal = signal
      /\ c.market = cycles[s].market /\ c.text = cycles[s].text
  BY CycleFacts, SmallTypes DEF CycleType
<1>2. cycles[s].market \in Markets[s]
  BY CycleFacts DEF CycleOK
<1>3. Becomes(s, c)
  BY DEF Replies
<1> HIDE DEF c
<1>4. CycleOK(s, c)
  BY <1>1, <1>2 DEF CycleOK
<1>5. QED
  BY <1>1, <1>3, <1>4, CycleBecomes

-----------------------------------------------------------------------------
(* The steps of a cycle.                                                   *)
LEMMA StepStartCycle ==
  ASSUME AnalysisInv, NEW s \in Symbols, StartCycle(s)
  PROVE  AnalysisInv'
<1>1. PICK m \in Markets[s] : Becomes(s, [Idle EXCEPT !.pc = "built", !.market = m])
  BY DEF StartCycle
<1> DEFINE c == [Idle EXCEPT !.pc = "built", !.market = m]
<1>2. c \in CycleType /\ c.pc = "built" /\ c.market = m /\ c.repairs = 0
  BY SmallTypes, CycleFacts DEF CycleType, Idle
<1>3. Becomes(s, c)
  BY <1>1
<1> HIDE DEF c
<1>4. CycleOK(s, c)
  BY <1>2 DEF CycleOK
<1>5. QED
  BY <1>2, <1>3, <1>4, CycleBecomes

LEMMA StepSkipLlm ==
  ASSUME AnalysisInv, NEW s \in Symbols, SkipLlm(s)
  PROVE  AnalysisInv'
<1>1. cycles[s].pc = "built" /\ ~LlmCanChangeOutcome(cycles[s].market)
      /\ Replies(s, BuildHold(s, "prefilter"))
  BY DEF SkipLlm, At, ShouldSkipLlm
<1>2. cycles[s].market \in MarketType
  BY <1>1, CycleFacts DEF CycleOK
<1>3. /\ BuildHold(s, "prefilter") \in Signal
      /\ BuildHold(s, "prefilter").action = "HOLD"
  BY <1>2, HoldSignal DEF HoldReasons
<1>4. QED
  BY <1>1, <1>3, StepReplies

LEMMA StepCallLlm ==
  ASSUME AnalysisInv, NEW s \in Symbols, CallLlm(s)
  PROVE  AnalysisInv'
<1> DEFINE c == [cycles[s] EXCEPT !.pc = "call"]
<1>1. /\ c \in CycleType /\ c.pc = "call" /\ c.market = cycles[s].market
      /\ c.repairs = cycles[s].repairs
  BY CycleFacts DEF CycleType
<1>2. Becomes(s, c) /\ cycles[s].pc = "built" /\ ~ShouldSkipLlm(cycles[s].market)
  BY DEF CallLlm, At
<1>3. cycles[s].market \in Markets[s] /\ cycles[s].repairs = 0
  BY <1>2, CycleFacts DEF CycleOK
<1> HIDE DEF c
<1>4. CycleOK(s, c)
  BY <1>1, <1>2, <1>3 DEF CycleOK
<1>5. QED
  BY <1>1, <1>2, <1>4, CycleBecomes

LEMMA StepProviderAnswers ==
  ASSUME AnalysisInv, NEW s \in Symbols, ProviderAnswers(s)
  PROVE  AnalysisInv'
<1>1. PICK text \in Texts : Becomes(s, [cycles[s] EXCEPT !.pc = "text", !.text = text, !.spent = 0])
  BY DEF ProviderAnswers
<1> DEFINE c == [cycles[s] EXCEPT !.pc = "text", !.text = text, !.spent = 0]
<1>2. c \in CycleType /\ c.pc = "text" /\ c.market = cycles[s].market /\ c.text = text
  BY CycleFacts, SmallTypes DEF CycleType
<1>3. cycles[s].market \in Markets[s] /\ ~ShouldSkipLlm(cycles[s].market)
  BY CycleFacts DEF CycleOK, ProviderAnswers, At
<1>4. Becomes(s, c)
  BY <1>1
<1> HIDE DEF c
<1>5. CycleOK(s, c)
  BY <1>2, <1>3 DEF CycleOK
<1>6. QED
  BY <1>2, <1>4, <1>5, CycleBecomes

LEMMA StepFails ==
  ASSUME AnalysisInv, NEW s \in Symbols, NEW reason \in HoldReasons \ {"prefilter"},
         cycles[s].pc \in {"call", "retry"}, Fails(s, reason)
  PROVE  AnalysisInv'
<1> DEFINE why == IF cycles[s].repairs = 0 THEN reason ELSE Refusal(cycles[s].text)
<1>1. cycles[s].market \in MarketType
  BY CycleFacts DEF CycleOK
<1>2. why \in HoldReasons \ {"prefilter"}
  <2>1. CASE cycles[s].repairs = 0
    BY <2>1
  <2>2. CASE cycles[s].repairs # 0
    <3>1. cycles[s].repairs > 0
      BY <2>2, CycleFacts, AnalysisAssumption DEF CycleType
    <3>2. ~Valid(cycles[s].text)
      BY <3>1, CycleFacts DEF CycleOK
    <3>3. Refusal(cycles[s].text) \in HoldReasons \ {"prefilter"}
      BY <3>2, CycleFacts, RefusalReason DEF HoldReasons
    <3>4. QED
      BY <2>2, <3>3
  <2>3. QED
    BY <2>1, <2>2
<1>3. Replies(s, BuildHold(s, why))
  BY DEF Fails
<1> HIDE DEF why
<1>4. /\ BuildHold(s, why) \in Signal /\ BuildHold(s, why).action = "HOLD"
      /\ BuildHold(s, why).reason # "prefilter"
  BY <1>1, <1>2, HoldSignal
<1>5. QED
  BY <1>3, <1>4, StepReplies

LEMMA StepProviderRaises ==
  ASSUME AnalysisInv, NEW s \in Symbols, ProviderRaises(s)
  PROVE  AnalysisInv'
<1>1. cycles[s].pc \in {"call", "retry"}
  BY DEF ProviderRaises, At
<1>2. CASE Fails(s, "provider_error")
  BY <1>1, <1>2, StepFails DEF HoldReasons, TimeoutReasons
<1>3. CASE \E at \in 0 .. Budget - 1 : Becomes(s, [cycles[s] EXCEPT !.pc = "retry", !.spent = at + 1])
  <2>1. PICK at \in 0 .. Budget - 1 :
           Becomes(s, [cycles[s] EXCEPT !.pc = "retry", !.spent = at + 1])
    BY <1>3
  <2> DEFINE c == [cycles[s] EXCEPT !.pc = "retry", !.spent = at + 1]
  <2>2. at + 1 \in 0 .. Budget
    BY AnalysisAssumption
  <2>3. /\ c \in CycleType /\ c.pc = "retry" /\ c.market = cycles[s].market
        /\ c.repairs = cycles[s].repairs /\ c.text = cycles[s].text
    BY <2>2, CycleFacts DEF CycleType
  <2>4. Becomes(s, c)
    BY <2>1
  <2> HIDE DEF c
  <2>5. CycleOK(s, c)
    BY <1>1, <2>3, CycleFacts DEF CycleOK
  <2>6. QED
    BY <2>3, <2>4, <2>5, CycleBecomes
<1>4. QED
  BY <1>2, <1>3 DEF ProviderRaises

LEMMA StepCallTimesOut ==
  ASSUME AnalysisInv, NEW s \in Symbols, CallTimesOut(s)
  PROVE  AnalysisInv'
BY StepFails DEF CallTimesOut, At, HoldReasons, TimeoutReasons

LEMMA StepValidateText ==
  ASSUME AnalysisInv, NEW s \in Symbols, ValidateText(s)
  PROVE  AnalysisInv'
<1> DEFINE text == cycles[s].text
           reply == Normalised(cycles[s].market, text)
<1>1. /\ cycles[s].pc = "text" /\ cycles[s].market \in Markets[s]
      /\ cycles[s].market \in MarketType /\ text \in TextType
      /\ ~ShouldSkipLlm(cycles[s].market)
  BY CycleFacts DEF ValidateText, At, CycleOK
<1>2. CASE Valid(text) /\ Replies(s, BuildSignal(s, reply))
  <2>1. /\ BuildSignal(s, reply) \in Signal
        /\ BuildSignal(s, reply).action = reply.action
        /\ BuildSignal(s, reply).reason = "model"
    BY <1>1, <1>2, TradeSignal
  <2>2. QED
    BY <1>1, <1>2, <2>1, StepReplies
<1>3. CASE /\ ~Valid(text) /\ cycles[s].repairs < MaxRepairs
           /\ Becomes(s, [cycles[s] EXCEPT !.pc = "call", !.repairs = @ + 1])
  <2> DEFINE c == [cycles[s] EXCEPT !.pc = "call", !.repairs = @ + 1]
  <2>1. cycles[s].repairs + 1 \in 0 .. MaxRepairs
    BY <1>3, CycleFacts, AnalysisAssumption DEF CycleType
  <2>2. /\ c \in CycleType /\ c.pc = "call" /\ c.market = cycles[s].market /\ c.text = text
    BY <2>1, CycleFacts DEF CycleType
  <2> HIDE DEF c
  <2>3. CycleOK(s, c)
    BY <1>1, <1>3, <2>2 DEF CycleOK
  <2>4. QED
    BY <1>3, <2>2, <2>3, CycleBecomes DEF c
<1>4. CASE ~Valid(text) /\ Replies(s, BuildHold(s, Refusal(text)))
  <2>1. Refusal(text) \in HoldReasons \ {"prefilter"}
    BY <1>1, <1>4, RefusalReason DEF HoldReasons
  <2>2. /\ BuildHold(s, Refusal(text)) \in Signal
        /\ BuildHold(s, Refusal(text)).action = "HOLD"
        /\ BuildHold(s, Refusal(text)).reason # "prefilter"
    BY <1>1, <2>1, HoldSignal
  <2>3. QED
    BY <1>1, <1>4, <2>2, StepReplies
<1>5. QED
  BY <1>2, <1>3, <1>4 DEF ValidateText

LEMMA StepServiceUnreachable ==
  ASSUME AnalysisInv, NEW s \in Symbols, ServiceUnreachable(s)
  PROVE  AnalysisInv'
<1> DEFINE signal == [NoSignal EXCEPT !.reason = "llm_service_unreachable"]
<1>1. signal \in Signal /\ signal.action = "HOLD" /\ signal.reason # "prefilter"
  BY SmallTypes DEF Signal, TimeoutReasons
<1>2. Replies(s, signal) /\ cycles[s].pc \in {"built", "call", "retry", "text"}
  BY DEF ServiceUnreachable, At
<1> HIDE DEF signal
<1>3. QED
  BY <1>1, <1>2, StepReplies

\* A tracked cycle holds nothing any more.
LEMMA StepTracked ==
  ASSUME AnalysisInv, NEW s \in Symbols, NEW alert \in {"none", "STREAK", "RECOVERED"},
         Tracked(s, alert), CountersOK'
  PROVE  AnalysisInv'
<1> DEFINE c == [Idle EXCEPT !.pc = "tracked", !.alert = alert]
<1>1. c \in CycleType /\ c.pc = "tracked"
  BY SmallTypes DEF CycleType
<1>2. cycles' = [cycles EXCEPT ![s] = c]
  BY DEF Tracked
<1> HIDE DEF c
<1>3. CycleOK(s, c)
  BY <1>1 DEF CycleOK
<1>4. QED
  BY <1>1, <1>2, <1>3, CycleMoves

LEMMA GoneCounters ==
  ASSUME KeyGone
  PROVE  CountersOK'
BY AnalysisAssumption DEF KeyGone, CountersOK, PageOK

LEMMA StepLoseIncrReply ==
  ASSUME AnalysisInv, NEW s \in Symbols, LoseIncrReply(s)
  PROVE  AnalysisInv'
<1>1. /\ streak \in 0 .. MaxFailures /\ streak < MaxFailures
      /\ failures \in Nat /\ unheard \in Nat /\ streak = failures + unheard
      /\ streak' = streak + 1 /\ unheard' = unheard + 1 /\ failures' = failures
      /\ paging' = paging /\ pages' = pages /\ missed' = missed
  BY DEF AnalysisInv, CountersOK, LoseIncrReply, Counted
<1>2. PageOK'
  BY <1>1, CounterBounds DEF AnalysisInv, CountersOK, PageOK
<1>3. CountersOK'
  <2>1. streak' \in 0 .. MaxFailures
    BY <1>1, CounterBounds
  <2>2. failures' \in Nat /\ unheard' \in Nat /\ streak' = failures' + unheard'
    BY <1>1
  <2>4. QED
    BY <1>2, <2>1, <2>2, Zenon DEF CountersOK
<1>4. QED
  BY <1>3 DEF AnalysisInv, LoseIncrReply

LEMMA StepCountFailure ==
  ASSUME AnalysisInv, NEW s \in Symbols, CountFailure(s)
  PROVE  AnalysisInv'
<1>1. /\ streak \in 0 .. MaxFailures /\ streak < MaxFailures
      /\ failures \in Nat /\ unheard \in Nat /\ streak = failures + unheard
      /\ streak' = streak + 1 /\ unheard' = unheard /\ failures' = failures + 1
      /\ pages' = pages
      /\ PageOK
  BY DEF AnalysisInv, CountersOK, CountFailure, Counted
<1>2. PageOK'
  <2>1. CASE streak' = Threshold
    <3>1. pages = 0 /\ missed = 0 /\ paging = {}
      BY <1>1, <2>1, CounterBounds DEF PageOK
    <3>2. streak' >= Threshold
      BY <1>1, <2>1, CounterBounds
    <3>3. \/ paging' = {s} /\ missed' = 0
          \/ paging' = {} /\ missed' = 1
      BY <2>1, <3>1 DEF CountFailure
    <3>4. QED
      BY <1>1, <3>1, <3>2, <3>3 DEF PageOK
  <2>2. CASE streak' # Threshold
    <3>1. paging' = paging /\ missed' = missed
      BY <2>2 DEF CountFailure
    <3>2. streak >= Threshold => streak' >= Threshold
      BY <1>1, CounterBounds
    <3>3. streak < Threshold => streak' < Threshold
      BY <1>1, <2>2, CounterBounds
    <3>4. QED
      BY <1>1, <3>1, <3>2, <3>3 DEF PageOK
  <2>3. QED
    BY <2>1, <2>2
<1>3. CountersOK'
  <2>1. streak' \in 0 .. MaxFailures
    BY <1>1, CounterBounds
  <2>2. failures' \in Nat /\ unheard' \in Nat /\ streak' = failures' + unheard'
    BY <1>1
  <2>4. QED
    BY <1>2, <2>1, <2>2, Zenon DEF CountersOK
<1>4. \E alert \in {"none", "STREAK"} : Tracked(s, alert)
  BY DEF CountFailure
<1>5. QED
  BY <1>3, <1>4, StepTracked

LEMMA StepReadStreak ==
  ASSUME AnalysisInv, NEW s \in Symbols, ReadStreak(s)
  PROVE  AnalysisInv'
<1> DEFINE c == [cycles[s] EXCEPT !.pc = IF streak = 0 THEN "tracked" ELSE "read",
                                  !.previous = streak]
<1>1. streak \in 0 .. MaxFailures
  BY DEF AnalysisInv, CountersOK
<1>2. /\ c \in CycleType /\ c.pc \in {"tracked", "read"} /\ c.market = cycles[s].market
      /\ c.text = cycles[s].text /\ c.signal = cycles[s].signal
  BY <1>1, CycleFacts DEF CycleType
<1>3. Becomes(s, c) /\ cycles[s].pc = "signal"
  BY DEF ReadStreak, Tracks, At
<1> HIDE DEF c
<1>4. CycleOK(s, c)
  BY <1>2, <1>3, CycleFacts DEF CycleOK
<1>5. QED
  BY <1>2, <1>3, <1>4, CycleBecomes

LEMMA StepOver ==
  ASSUME AnalysisInv, NEW s \in Symbols, NEW written \in BOOLEAN, Over(s, written)
  PROVE  AnalysisInv'
<1>1. /\ cycles' = [cycles EXCEPT ![s] = Idle] /\ paging' = paging \ {s}
      /\ streak' = streak /\ failures' = failures /\ unheard' = unheard
      /\ s \notin paging => pages' = pages /\ missed' = missed
      /\ s \in paging /\ pages = 0 /\ missed = 0 =>
            (pages' = 1 /\ missed' = 0) \/ (pages' = 0 /\ missed' = 1)
  <2>1. pages \in Nat /\ missed \in Nat
    BY DEF AnalysisInv, CountersOK, PageOK
  <2>2. CASE s \in paging
    <3>1. \/ pages' = pages + 1 /\ missed' = missed
          \/ missed' = missed + 1 /\ pages' = pages
      BY <2>2, Zenon DEF Over
    <3>2. pages = 0 /\ missed = 0 => (pages' = 1 /\ missed' = 0) \/ (pages' = 0 /\ missed' = 1)
      BY <2>1, <3>1
    <3>3. QED
      BY <2>2, <3>2, Zenon DEF Over
  <2>3. CASE s \notin paging
    <3>1. \/ pages' = pages + 0 /\ missed' = missed
          \/ missed' = missed + 0 /\ pages' = pages
      BY <2>3, Zenon DEF Over
    <3>2. pages' = pages /\ missed' = missed
      BY <2>1, <3>1
    <3>3. QED
      BY <2>3, <3>2, Zenon DEF Over
  <2>4. QED
    BY <2>2, <2>3
<1>2. PageOK'
  <2>1. PageOK
    BY DEF AnalysisInv, CountersOK
  <2>2. CASE s \in paging
    <3>1. /\ streak >= Threshold /\ pages = 0 /\ missed = 0
          /\ paging = {s}
      BY <2>1, <2>2 DEF PageOK
    <3>2. paging' = {}
      BY <1>1, <3>1
    <3>3. QED
      BY <1>1, <2>2, <3>1, <3>2 DEF PageOK
  <2>3. CASE s \notin paging
    <3>1. paging' = paging /\ pages' = pages /\ missed' = missed
      BY <1>1, <2>3
    <3>2. QED
      BY <1>1, <2>1, <3>1 DEF PageOK
  <2>4. QED
    BY <2>2, <2>3
<1>3. CountersOK'
  BY <1>1, <1>2 DEF AnalysisInv, CountersOK
<1>4. CycleOK(s, Idle)
  BY SmallTypes DEF CycleOK
<1>5. QED
  BY <1>1, <1>3, <1>4, SmallTypes, CycleMoves

LEMMA StepRest ==
  ASSUME AnalysisInv, NEW s \in Symbols,
         \/ ResetStreak(s) \/ SkipTracking(s) \/ RedisFails(s)
         \/ EndCycle(s) \/ AbortCycle(s)
  PROVE  AnalysisInv'
<1>1. CASE ResetStreak(s)
  <2>1. KeyGone /\ \E alert \in {"none", "RECOVERED"} : Tracked(s, alert)
    BY <1>1 DEF ResetStreak
  <2>2. QED
    BY <2>1, StepTracked, GoneCounters
<1>2. CASE SkipTracking(s) \/ RedisFails(s)
  BY <1>2, StepTracked, CountersKept DEF SkipTracking, RedisFails
<1>3. CASE EndCycle(s) \/ AbortCycle(s)
  BY <1>3, StepOver DEF EndCycle, AbortCycle
<1>4. QED
  BY <1>1, <1>2, <1>3

LEMMA NextAnalysis == AnalysisInv /\ [Next]_vars => AnalysisInv'
<1> SUFFICES ASSUME AnalysisInv, [Next]_vars PROVE AnalysisInv'
  OBVIOUS
<1>1. ASSUME NEW s \in Symbols, StartCycle(s) \/ SkipLlm(s) \/ CallLlm(s) \/ ProviderAnswers(s)
      PROVE  AnalysisInv'
  BY <1>1, StepStartCycle, StepSkipLlm, StepCallLlm, StepProviderAnswers
<1>2. ASSUME NEW s \in Symbols,
             ProviderRaises(s) \/ CallTimesOut(s) \/ ValidateText(s) \/ ServiceUnreachable(s)
      PROVE  AnalysisInv'
  BY <1>2, StepProviderRaises, StepCallTimesOut, StepValidateText, StepServiceUnreachable
<1>3. ASSUME NEW s \in Symbols, LoseIncrReply(s) \/ CountFailure(s) \/ ReadStreak(s)
      PROVE  AnalysisInv'
  BY <1>3, StepLoseIncrReply, StepCountFailure, StepReadStreak
<1>4. ASSUME NEW s \in Symbols,
             \/ ResetStreak(s) \/ SkipTracking(s) \/ RedisFails(s)
             \/ EndCycle(s) \/ AbortCycle(s)
      PROVE  AnalysisInv'
  BY <1>4, StepRest
<1>5. CASE StreakExpires
  BY <1>5, GoneCounters DEF StreakExpires, AnalysisInv
<1>6. CASE UNCHANGED vars
  BY <1>6, CountersKept DEF vars, AnalysisInv
<1>7. QED
  BY <1>1, <1>2, <1>3, <1>4, <1>5, <1>6 DEF Next

-----------------------------------------------------------------------------
(* The invariant of the analysis cycle: a signal that trades carries the   *)
(* valid answer it was normalised from, and the counters of an outage move *)
(* together.                                                               *)
THEOREM SpecAnalysisInv == Spec => []AnalysisInv
<1>1. QED
  BY InitAnalysis, NextAnalysis, PTL DEF Spec

(* Every reply has a confidence from 0 to 1 and a trade score from 0 to    *)
(* 100, for every market the exchange could send and every answer of the   *)
(* model.                                                                  *)
THEOREM SpecTypeOK == Spec => []TypeOK
<1>1. ASSUME AnalysisInv PROVE TypeOK
  <2>1. /\ {streak, failures, unheard} \subseteq 0 .. MaxFailures
        /\ paging \subseteq Symbols
        /\ {pages, missed} \subseteq {0, 1}
    BY <1>1, AnalysisAssumption DEF AnalysisInv, CountersOK, PageOK
  <2>2. \A s \in Symbols : cycles[s] \in CycleType /\ CycleOK(s, cycles[s])
    BY <1>1 DEF AnalysisInv
  <2>3. QED
    BY <2>1, <2>2 DEF TypeOK, CycleType, CycleOK
<1>2. QED
  BY <1>1, SpecAnalysisInv, PTL

(* The pre-filter is exact: where it answers HOLD no valid answer of the   *)
(* model would have traded, and where it lets the call pass one would.     *)
THEOREM SpecSkipChangesNothing == Spec => []SkipChangesNothing
<1>1. ASSUME AnalysisInv PROVE SkipChangesNothing
  <2> SUFFICES ASSUME NEW s \in Symbols
               PROVE  LET Trading == {text \in Texts : Valid(text)
                                        /\ Normalised(cycles[s].market, text).action # "HOLD"}
                      IN  /\ Answered(s) /\ cycles[s].signal.reason = "prefilter" => Trading = {}
                          /\ Prefilter /\ At(s, {"call", "retry"}) => Trading # {}
    BY DEF SkipChangesNothing
  <2>1. cycles[s].pc \in {"call", "retry", "signal", "read"} => cycles[s].market \in MarketType
    BY <1>1, CycleFacts DEF CycleOK
  <2>2. CASE Answered(s) /\ cycles[s].signal.reason = "prefilter"
    <3>1. ~LlmCanChangeOutcome(cycles[s].market) /\ cycles[s].pc \in {"signal", "read"}
      BY <1>1, <2>2, CycleFacts DEF Answered, At, CycleOK
    <3>2. QED
      BY <2>1, <3>1, PrefilterIsExact DEF At
  <2>3. CASE Prefilter /\ At(s, {"call", "retry"})
    <3>1. LlmCanChangeOutcome(cycles[s].market) /\ cycles[s].pc \in {"call", "retry"}
      BY <1>1, <2>3, CycleFacts DEF At, CycleOK, ShouldSkipLlm
    <3>2. QED
      BY <2>1, <2>3, <3>1, PrefilterIsExact DEF At, Answered
  <2>4. QED
    BY <2>2, <2>3
<1>2. QED
  BY <1>1, SpecAnalysisInv, PTL

(* The service fails closed: every BUY and every SELL comes from a valid   *)
(* answer given in time, and the rubric's conditions hold of the market it *)
(* was given for, however retries, repairs, timeouts and the cycles of     *)
(* other symbols interleave.                                               *)
THEOREM SpecTradesAreEarned == Spec => []TradesAreEarned
<1>1. ASSUME AnalysisInv PROVE TradesAreEarned
  <2> SUFFICES ASSUME NEW s \in Symbols, Answered(s), cycles[s].signal.action # "HOLD"
               PROVE  LET m == cycles[s].market
                          text == cycles[s].text
                      IN  /\ Valid(text)
                          /\ cycles[s].signal.action = "BUY" =>
                                text.action = "BUY" /\ ~m.open /\ Rises(m) /\ ~Extended(m)
                          /\ cycles[s].signal.action = "SELL" =>
                                /\ m.open /\ m.known
                                /\ \/ m.pnl <= -HardLossCut
                                   \/ /\ text.action = "SELL"
                                      /\ BearishKinds(m) >= 2
                                      /\ m.pnl \notin -MinExitLoss .. MinExitProfit
    BY DEF TradesAreEarned
  <2>1. PICK m \in MarketType, text \in TextType :
           /\ m = cycles[s].market /\ text = cycles[s].text
           /\ Valid(text) /\ cycles[s].signal.action = Normalised(m, text).action
    BY <1>1, CycleFacts DEF CycleOK, Answered, At
  <2>2. /\ cycles[s].signal.action = "BUY" =>
              /\ text.action = "BUY" /\ ~m.open
              /\ EntryIsSufficient(m) /\ Regime(m) # "TREND_FOLLOWING"
        /\ cycles[s].signal.action = "SELL" =>
              \/ HardLoss(m)
              \/ text.action = "SELL" /\ m.open /\ ExitIsSufficient(m) /\ BeyondCushion(m)
    <3>1. PICK action : action = Normalised(m, text).action
      OBVIOUS
    <3>2. /\ action = "BUY" => /\ text.action = "BUY" /\ ~m.open
                               /\ EntryIsSufficient(m) /\ Regime(m) # "TREND_FOLLOWING"
          /\ action = "SELL" =>
                \/ HardLoss(m)
                \/ text.action = "SELL" /\ m.open /\ ExitIsSufficient(m) /\ BeyondCushion(m)
      BY <2>1, <3>1, NormalisedFacts
    <3>3. QED
      BY <2>1, <3>1, <3>2
  <2>3. CASE cycles[s].signal.action = "BUY"
    <3>1. text.action = "BUY" /\ ~m.open /\ EntryIsSufficient(m) /\ Regime(m) # "TREND_FOLLOWING"
      BY <2>2, <2>3
    <3>2. Rises(m) /\ ~Extended(m)
      BY <3>1, ConfirmedEntryRises
    <3>3. QED
      BY <2>1, <2>3, <3>1, <3>2
  <2>4. CASE cycles[s].signal.action = "SELL"
    <3>1. \/ HardLoss(m)
          \/ text.action = "SELL" /\ m.open /\ ExitIsSufficient(m) /\ BeyondCushion(m)
      BY <2>2, <2>4
    <3>2. /\ m.open /\ m.known
          /\ \/ m.pnl <= -HardLossCut
             \/ /\ text.action = "SELL"
                /\ BearishKinds(m) >= 2
                /\ m.pnl \notin -MinExitLoss .. MinExitProfit
      BY <3>1, SufficientExit, MarketFields, RubricAssumption DEF HardLoss, BeyondCushion
    <3>3. QED
      BY <2>1, <2>4, <3>2
  <2>5. QED
    BY <2>1, <2>3, <2>4
<1>2. QED
  BY <1>1, SpecAnalysisInv, PTL

(* An outage pages at most once and not before its threshold, whatever is  *)
(* resent, interleaved or rolled back; and as long as no reply was lost it *)
(* has paged once the threshold is reached, unless the error of an EXPIRE  *)
(* or the end of the one transaction took that alert.                      *)
THEOREM SpecOnePagePerOutage == Spec => []OnePagePerOutage
<1>1. ASSUME AnalysisInv PROVE OnePagePerOutage
  <2>1. Cardinality({}) = 0 /\ \A s \in Symbols : Cardinality({s}) = 1
    BY FS_EmptySet, FS_Singleton
  <2>2. /\ streak = failures + unheard /\ streak \in Nat
        /\ \/ Raised = 0 /\ (unheard = 0 => streak < Threshold)
           \/ Raised = 1 /\ streak >= Threshold
    BY <1>1, <2>1 DEF AnalysisInv, CountersOK, PageOK, Raised
  <2>3. failures \in Nat /\ unheard \in Nat
    BY <1>1 DEF AnalysisInv, CountersOK
  <2>4. QED
    BY <2>2, <2>3, AnalysisAssumption DEF OnePagePerOutage
<1>2. QED
  BY <1>1, SpecAnalysisInv, PTL

=============================================================================
